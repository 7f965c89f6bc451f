------------------------------ MODULE Startup -------------------------------
(***************************************************************************)
(* The start of the runtime, up to the first poll of async_main: run_with  *)
(* (yaay-mt-runtime/src/runtime.rs) spawns the workers, which build each   *)
(* other behind two barriers (worker_manager.rs), publishes them in        *)
(* GLOBAL, lets on_start spawn the reactors behind a barrier of their own  *)
(* (yaay-mio/src/shared.rs), and pushes async_main.                        *)
(*                                                                         *)
(* A locked section is one step; waiting on a condition variable is a pc   *)
(* that only a notify_all() changes.                                       *)
(***************************************************************************)
EXTENDS Rng, FiniteSets

CONSTANTS
  N,         \* n_threads of run_with
  R,         \* n_threads of mio_spawn_event_loop
  Seeds      \* what seed_from_system_time() may return

Workers  == 0 .. N - 1
Reactors == 0 .. R - 1

ASSUME CountsAssumption == N \in Nat \ {0} /\ R \in Nat \ {0}
ASSUME SeedsAssumption == Seeds \subseteq U32

VARIABLES
  mpc, wpc, rpc,   \* where the main thread, the workers and the reactors are
  next_worker_id,  \* of WorkerManager; the workers below it are spawned
  worker_ptrs,     \* workers whose pointer is not null
  written,         \* workers whose memory is initialized
  n_built,
  ptrs,            \* reactors whose pointer is not null
  runtime_global,  \* has GLOBAL of the runtime been stored?
  mio_global,      \* has GLOBAL of yaay_mio been stored?
  home,            \* the worker whose queue holds async_main, if any
  seed, seed0      \* Private.seed, and history: its first value

barrier == <<next_worker_id, worker_ptrs, written, n_built>>
globals == <<ptrs, runtime_global, mio_global>>
rng     == <<seed, seed0>>
vars    == <<mpc, wpc, rpc, barrier, globals, home, rng>>

Init ==
  /\ mpc = "spawn"
  /\ wpc = [w \in Workers |-> "none"] /\ rpc = [r \in Reactors |-> "none"]
  /\ next_worker_id = 0
  /\ worker_ptrs = {} /\ written = {} /\ n_built = 0
  /\ ptrs = {} /\ runtime_global = FALSE /\ mio_global = FALSE
  /\ home = {}
  /\ seed = [w \in Workers |-> {}] /\ seed0 = seed

WGoto(w, where) == wpc' = [wpc EXCEPT ![w] = where]
RGoto(r, where) == rpc' = [rpc EXCEPT ![r] = where]
Released(f, wait, check) == [i \in DOMAIN f |-> IF f[i] = wait THEN check ELSE f[i]]

-----------------------------------------------------------------------------
(* WorkerBuilder::build.                                                   *)

AllPtrs == worker_ptrs = Workers

\* The pointer of the own worker, whose memory is still uninitialized.
SetPtr(w) ==
  /\ wpc[w] = "alloc"
  /\ worker_ptrs' = worker_ptrs \cup {w}
  /\ WGoto(w, IF worker_ptrs' = Workers THEN "notify_ptrs" ELSE "check_ptrs")
  /\ UNCHANGED <<mpc, rpc, next_worker_id, written, n_built, globals, home, rng>>

NotifyPtrs(w) ==
  /\ wpc[w] = "notify_ptrs"
  /\ wpc' = [Released(wpc, "wait_ptrs", "check_ptrs") EXCEPT ![w] = "new"]
  /\ UNCHANGED <<mpc, rpc, barrier, globals, home, rng>>

CheckPtrs(w) ==
  /\ wpc[w] = "check_ptrs"
  /\ WGoto(w, IF AllPtrs THEN "new" ELSE "wait_ptrs")
  /\ UNCHANGED <<mpc, rpc, barrier, globals, home, rng>>

\* other_workers unwraps every pointer; Worker::new takes its seed from the clock.
NewWorker(w) ==
  /\ wpc[w] = "new"
  /\ WGoto(w, IF AllPtrs THEN "built" ELSE "fault")
  /\ written' = written \cup {w}
  /\ \E s \in Seeds : seed' = [seed EXCEPT ![w] = s] /\ seed0' = [seed0 EXCEPT ![w] = s]
  /\ UNCHANGED <<mpc, rpc, next_worker_id, worker_ptrs, n_built, globals, home>>

AllBuilt == n_built = N

IncBuilt(w) ==
  /\ wpc[w] = "built"
  /\ n_built' = n_built + 1
  /\ WGoto(w, IF n_built' = N THEN "notify_built" ELSE "check_built")
  /\ UNCHANGED <<mpc, rpc, next_worker_id, worker_ptrs, written, globals, home, rng>>

\* Mutant: the main thread is not told.
MainReleasedNot == mpc

\* The main thread waits on the same condition variable as the workers.
MainReleased == IF mpc = "wait_built" THEN "check_built" ELSE mpc

NotifyBuilt(w) ==
  /\ wpc[w] = "notify_built"
  /\ wpc' = [Released(wpc, "wait_built", "check_built") EXCEPT ![w] = "main_loop"]
  /\ mpc' = MainReleased
  /\ UNCHANGED <<rpc, barrier, globals, home, rng>>

\* Mutant: the worker starts as soon as the pointers are there.
CheckBuiltNot(w) ==
  /\ wpc[w] = "check_built"
  /\ WGoto(w, "main_loop")
  /\ UNCHANGED <<mpc, rpc, barrier, globals, home, rng>>

CheckBuilt(w) ==
  /\ wpc[w] = "check_built"
  /\ WGoto(w, IF AllBuilt THEN "main_loop" ELSE "wait_built")
  /\ UNCHANGED <<mpc, rpc, barrier, globals, home, rng>>

-----------------------------------------------------------------------------
(* run_with and GlobalData::build in the main thread.                      *)

\* Mutant: one worker too many.
MoreWorkersInclusive == next_worker_id <= N

MoreWorkers == next_worker_id < N

SpawnWorker ==
  /\ mpc = "spawn"
  /\ IF MoreWorkers
       THEN /\ next_worker_id' = next_worker_id + 1
            /\ WGoto(next_worker_id, "alloc")
            /\ UNCHANGED mpc
       ELSE mpc' = "check_built" /\ UNCHANGED <<next_worker_id, wpc>>
  /\ UNCHANGED <<rpc, worker_ptrs, written, n_built, globals, home, rng>>

\* WorkerManager::wait.
Wait ==
  /\ mpc = "check_built"
  /\ mpc' = IF AllBuilt THEN "set_global" ELSE "wait_built"
  /\ UNCHANGED <<wpc, rpc, barrier, globals, home, rng>>

SetGlobal ==
  /\ mpc = "set_global"
  /\ mpc' = IF AllPtrs THEN "on_start" ELSE "fault"
  /\ runtime_global' = AllPtrs
  /\ UNCHANGED <<wpc, rpc, barrier, ptrs, mio_global, home, rng>>

SpawnReactor(r) ==
  /\ mpc = "on_start"
  /\ rpc[r] = "none" /\ \A q \in Reactors : q < r => rpc[q] # "none"
  /\ RGoto(r, "build")
  /\ mpc' = IF r = R - 1 THEN "check_ptrs" ELSE "on_start"
  /\ UNCHANGED <<wpc, barrier, globals, home, rng>>

AllReactors == ptrs = Reactors

WaitReactors ==
  /\ mpc = "check_ptrs"
  /\ mpc' = IF AllReactors THEN "set_mio_global" ELSE "wait_ptrs"
  /\ UNCHANGED <<wpc, rpc, barrier, globals, home, rng>>

SetMioGlobal ==
  /\ mpc = "set_mio_global"
  /\ mpc' = "run"
  /\ mio_global' = TRUE
  /\ UNCHANGED <<wpc, rpc, barrier, ptrs, runtime_global, home, rng>>

\* WorkerGuard::run: async_main goes to the queue of worker 0.
Run ==
  /\ mpc = "run"
  /\ mpc' = "join"
  /\ home' = {0}
  /\ UNCHANGED <<wpc, rpc, barrier, globals, rng>>

-----------------------------------------------------------------------------
(* The reactor threads of GlobalData::build.                               *)

\* The store of the own pointer and the first test are one locked section.
SetReactor(r) ==
  /\ rpc[r] = "build"
  /\ ptrs' = ptrs \cup {r}
  /\ RGoto(r, IF ptrs' = Reactors THEN "notify" ELSE "wait")
  /\ UNCHANGED <<mpc, wpc, barrier, runtime_global, mio_global, home, rng>>

CheckReactors(r) ==
  /\ rpc[r] = "check"
  /\ RGoto(r, IF AllReactors THEN "notify" ELSE "wait")
  /\ UNCHANGED <<mpc, wpc, barrier, globals, home, rng>>

\* Every reactor that has passed notifies, the main thread included.
NotifyReactors(r) ==
  /\ rpc[r] = "notify"
  /\ rpc' = [Released(rpc, "wait", "check") EXCEPT ![r] = "batch_guard"]
  /\ mpc' = IF mpc = "wait_ptrs" THEN "check_ptrs" ELSE mpc
  /\ UNCHANGED <<wpc, barrier, globals, home, rng>>

\* RuntimeLocalData::new counts the workers in GLOBAL.
NewBatchGuard(r) ==
  /\ rpc[r] = "batch_guard"
  /\ RGoto(r, IF runtime_global THEN "poll" ELSE "fault")
  /\ UNCHANGED <<mpc, wpc, barrier, globals, home, rng>>

-----------------------------------------------------------------------------
(* What a worker does with its neighbours in main_loop.                    *)

\* other_workers[i] of worker w.
Other(w, i) == IF i < w THEN i ELSE i + 1

\* The seed moves on.  next_seed has a period of at most 8, so no bound is needed.
Draw(w) ==
  /\ seed' = [seed EXCEPT ![w] = next_seed(@)]
  /\ UNCHANGED seed0

\* try_steal: the seed moves on only when the victim's queue is empty.  A victim
\* whose memory is not written yet is undefined.
Victim(w, s) == Other(w, Mod(s, N - 1))
TrySteal(w) ==
  LET v == Victim(w, seed[w]) IN
  /\ wpc[w] = "main_loop" /\ N > 1
  /\ WGoto(w, IF v \notin written THEN "fault" ELSE IF v \in home THEN "poll" ELSE "main_loop")
  /\ home' = home \ {v}
  /\ IF v \in home THEN UNCHANGED rng ELSE Draw(w)
  /\ UNCHANGED <<mpc, rpc, barrier, globals>>

PopMain(w) ==
  /\ wpc[w] = "main_loop"
  /\ w \in home
  /\ home' = {}
  /\ WGoto(w, "poll")
  /\ UNCHANGED <<mpc, rpc, barrier, globals, rng>>

\* async_main spawns a task: index N - 1 stands for the worker itself.
Spawn(w) ==
  LET i == Mod(seed[w], N) IN
  /\ wpc[w] = "poll"
  /\ WGoto(w, IF i + 1 = N \/ Other(w, i) \in written THEN "poll" ELSE "fault")
  /\ Draw(w)
  /\ UNCHANGED <<mpc, rpc, barrier, globals, home>>

\* async_main opens a socket, which takes a reactor from GLOBAL of yaay_mio.
NewHandle(w) ==
  /\ wpc[w] = "poll"
  /\ WGoto(w, IF mio_global THEN "pending" ELSE "fault")
  /\ UNCHANGED <<mpc, rpc, barrier, globals, home, rng>>

-----------------------------------------------------------------------------
MainNext == SpawnWorker \/ Wait \/ SetGlobal \/ WaitReactors \/ SetMioGlobal \/ Run
              \/ \E r \in Reactors : SpawnReactor(r)
Build(w) == SetPtr(w) \/ NotifyPtrs(w) \/ CheckPtrs(w) \/ NewWorker(w) \/ IncBuilt(w)
              \/ NotifyBuilt(w) \/ CheckBuilt(w)
Reactor(r) == SetReactor(r) \/ CheckReactors(r) \/ NotifyReactors(r) \/ NewBatchGuard(r)

Next ==
  \/ MainNext
  \/ \E w \in Workers : Build(w) \/ TrySteal(w) \/ PopMain(w) \/ Spawn(w) \/ NewHandle(w)
  \/ \E r \in Reactors : Reactor(r)

Spec == Init /\ [][Next]_vars

(* Threads that are not blocked keep running; a worker looks into its own   *)
(* queue (module Worker) and async_main goes on.  Nothing is assumed of     *)
(* stealing.                                                                *)
Fairness ==
  /\ WF_vars(MainNext)
  /\ \A w \in Workers : WF_vars(Build(w)) /\ WF_vars(PopMain(w)) /\ WF_vars(NewHandle(w))
  /\ \A r \in Reactors : WF_vars(Reactor(r))

FairSpec == Spec /\ Fairness

(* The workers that find nothing keep stealing, too.                        *)
StealSpec == FairSpec /\ \A w \in Workers : WF_vars(TrySteal(w))

-----------------------------------------------------------------------------
(* Properties.                                                             *)

\* Every variable stays within its type, and no more threads are spawned or
\* counted as built than there are places in worker_ptrs.
TypeOK ==
  /\ next_worker_id \in 0 .. N
  /\ worker_ptrs \subseteq Workers /\ written \subseteq worker_ptrs
  /\ n_built \in 0 .. N
  /\ ptrs \subseteq Reactors
  /\ runtime_global \in BOOLEAN /\ mio_global \in BOOLEAN
  /\ home \subseteq Workers
  /\ seed \in [Workers -> U32] /\ seed0 \in [Workers -> U32]

\* "After return, the Worker::get() method would be safe to use" (build,
\* worker_manager.rs), and so is everything else that is set up while other
\* threads run: no thread unwraps a null pointer, follows a pointer to a worker
\* that is not written yet, or reads one of the two GLOBALs before it is stored.
InitializedBeforeUse ==
  /\ mpc # "fault"
  /\ \A w \in Workers : wpc[w] # "fault"
  /\ \A r \in Reactors : rpc[r] # "fault"

\* "Try steal a task from a random victim.  The victim is selected by the seed"
\* (try_steal, worker.rs): a worker that goes on stealing in main_loop comes to
\* every other worker again and again.
RandomVictim ==
  \A w \in Workers : \A v \in Workers \ {w} :
    []<>(wpc[w] # "main_loop" \/ Victim(w, seed[w]) = v)

\* What the code does instead: all shifts of next_seed go left, so the low five bits
\* of a seed are for ever those of the clock at its creation, and when the number of
\* other workers divides 32, the victim of try_steal is always the same worker.
VictimIsFixed ==
  N > 1 /\ 32 % (N - 1) = 0
    => \A w \in Workers : Victim(w, seed[w]) = Victim(w, seed0[w])

\* No notification of the three barriers is missed: every worker enters
\* main_loop, every reactor its event loop, and async_main gets its first poll.
StartupCompletes ==
  <>/\ \A w \in Workers : wpc[w] \in {"main_loop", "poll", "pending"}
    /\ \A r \in Reactors : rpc[r] = "poll"
    /\ \E w \in Workers : wpc[w] = "pending"

-----------------------------------------------------------------------------
(* The inductive invariant.                                                *)

CountedPCs == {"notify_built", "check_built", "wait_built", "main_loop", "poll", "pending"}
Counted == {w \in Workers : wpc[w] \in CountedPCs}

\* Where the threads can be; none of them is at a fault.
Positions ==
  /\ mpc \in {"spawn", "check_built", "wait_built", "set_global", "on_start", "check_ptrs",
              "wait_ptrs", "set_mio_global", "run", "join"}
  /\ wpc \in [Workers -> {"none", "alloc", "notify_ptrs", "check_ptrs", "wait_ptrs", "new",
                          "built"} \cup CountedPCs]
  /\ rpc \in [Reactors -> {"none", "build", "notify", "wait", "check", "batch_guard", "poll"}]

\* n_built counts the workers that have passed IncBuilt.
BuiltIsCounted == n_built = Cardinality(Counted)

\* Who is past the first barrier has seen all pointers, who is counted is written,
\* and who is past the second barrier has seen n_built at N.
Barriers ==
  /\ \A w \in Workers : w >= next_worker_id => wpc[w] = "none"
  /\ \A w \in Workers : wpc[w] \in {"notify_ptrs", "new", "built"} \cup CountedPCs => AllPtrs
  /\ \A w \in Workers : wpc[w] \in {"built"} \cup CountedPCs => w \in written
  /\ \A w \in Workers : wpc[w] \in CountedPCs \ {"check_built", "wait_built"} => AllBuilt
  /\ mpc \notin {"spawn", "check_built", "wait_built"} => AllBuilt

\* Reactors run after GLOBAL of the runtime, and async_main after that of yaay_mio.
Published ==
  /\ mpc \notin {"spawn", "check_built", "wait_built", "set_global"} => runtime_global
  /\ \A r \in Reactors : rpc[r] # "none" => runtime_global
  /\ mpc \in {"run", "join"} => mio_global
  /\ home # {} => mio_global
  /\ \A w \in Workers : wpc[w] \in {"poll", "pending"} => mio_global

\* The low bits of a seed are those of its first value.
SameLow == \A w \in Workers : seed[w] \cap Low = seed0[w] \cap Low

\* What the threads keep true between any two of their locked sections.
IInv == TypeOK /\ Positions /\ BuiltIsCounted /\ Barriers /\ Published /\ SameLow
=============================================================================
