-------------------------------- MODULE Mio ---------------------------------
(***************************************************************************)
(* The mio reactor of yaay-mio: the event loop of GlobalData::build, the   *)
(* slots of sockets and their deferred removal, and the Dispatcher through *)
(* which io_poll! waits for readiness (shared.rs, container.rs,            *)
(* dispatcher.rs, macros.rs, prelude.rs).                                  *)
(*                                                                         *)
(* A port is one direction of a socket; each port is used by one task,     *)
(* whose scheduling is the one module Task establishes: wake() of an idle  *)
(* task on the reactor puts it in the batch, wake() of a running one makes *)
(* it run again.  Sockets and epoll are the environment: readiness is      *)
(* edge-triggered.  A step is one atomic operation on a dispatcher's       *)
(* status, one locked section, or one system call.                         *)
(***************************************************************************)
EXTENDS Integers, FiniteSets

CONSTANTS
  Sockets,     \* the mio instances that are created
  Interests,   \* the directions each is registered for
  Keys,        \* keys of the slab: a bound on the sockets that exist at once
  BatchEvery   \* 128 in the code: events between two push_batch calls

Dirs  == {"readable", "writable"}
NoPort == <<"null", "null">>
NoKey == -1   \* before Insert and after the drop of the cell

ASSUME InterestsAssumption ==
  Interests \in [Sockets -> SUBSET Dirs] /\ \A s \in Sockets : Interests[s] # {}
ASSUME KeysAssumption == Keys \subseteq Nat
ASSUME BatchAssumption == BatchEvery \in Nat \ {0}

Ports == {p \in Sockets \X Dirs : p[2] \in Interests[p[1]]}
PortsOf(s) == {p \in Ports : p[1] = s}

VARIABLES
  avail, edge,       \* environment: port is ready; epoll has an edge to report
  cell,              \* life of the MIOCell of a socket
  key,               \* MIOCell.key
  handles,           \* ports whose MIOHandle exists
  used, slot,        \* the slab: keys in use, and their two dispatcher pointers
  deferred_remove,   \* keys whose slot is to be removed
  status,            \* DispatcherInner.status
  tpc,               \* where the task of a port is in io_poll!
  task, woken,       \* the task's scheduling, and its NOTIFIED bit while it runs
  rpc,               \* where the reactor is in its loop
  events,            \* events of this round that are still to be handled
  cur,               \* ports of the event that is being handled
  seen,              \* events handled in this round, modulo BatchEvery
  removing,          \* the key popped from deferred_remove
  shutdown           \* SHUTDOWN

env     == <<avail, edge>>
cells   == <<cell, key, handles>>
slab    == <<used, slot, deferred_remove>>
sched   == <<task, woken>>
reactor == <<rpc, events, cur, seen, removing>>
vars == <<env, cells, slab, status, tpc, sched, reactor, shutdown>>

IDLE     == 0
MUTED    == 1
NOTIFIED == 3   \* NOTIFIED | MUTED

CellPCs == {"none", "inserted", "live", "deregister", "defer", "gone"}
TaskPCs == {"none", "mio", "prepare", "io", "wait", "pend"}
TaskStates == {"run", "idle", "batched", "queued", "done"}
ReactorPCs == {"check", "poll", "lock", "events", "notify", "wake", "push_batch", "remove",
               "remove_slot", "last_remove", "last_slot", "exited"}

\* The reactor holds the mutex of `dispatchers` while it handles events.
Unlocked == rpc \notin {"events", "notify", "wake"}

Init ==
  /\ avail = [p \in Ports |-> FALSE]
  /\ edge = [p \in Ports |-> FALSE]
  /\ cell = [s \in Sockets |-> "none"]
  /\ key = [s \in Sockets |-> NoKey]
  /\ handles = {}
  /\ used = {}
  /\ slot = [k \in Keys |-> [d \in Dirs |-> NoPort]]
  /\ deferred_remove = {}
  /\ status = [p \in Ports |-> MUTED]
  /\ tpc = [p \in Ports |-> "none"]
  /\ task = [p \in Ports |-> "run"]
  /\ woken = [p \in Ports |-> FALSE]
  /\ rpc = "check"
  /\ events = {}
  /\ cur = {}
  /\ seen = 0
  /\ removing = NoKey
  /\ shutdown = FALSE

-----------------------------------------------------------------------------
(* Sockets and epoll.                                                      *)

\* The port becomes ready, or more data or room arrives.
Arrive(p) ==
  /\ cell[p[1]] # "gone"
  /\ avail' = [avail EXCEPT ![p] = TRUE]
  /\ edge' = [edge EXCEPT ![p] = cell[p[1]] \in {"live", "deregister"}]
  /\ UNCHANGED <<cells, slab, status, tpc, sched, reactor, shutdown>>

-----------------------------------------------------------------------------
(* MIOHandle and MIO.                                                      *)

\* MIOHandle::new_r, new_w, new_rw: a vacant key of the slab,
Insert(s, k) ==
  /\ ~shutdown
  /\ cell[s] = "none"
  /\ Unlocked /\ k \notin used
  /\ used' = used \cup {k}
  /\ slot' = [slot EXCEPT ![k] = [d \in Dirs |-> NoPort]]
  /\ key' = [key EXCEPT ![s] = k]
  /\ cell' = [cell EXCEPT ![s] = "inserted"]
  /\ UNCHANGED <<env, handles, deferred_remove, status, tpc, sched, reactor, shutdown>>

\* then the registration, which reports what is ready already.
Register(s) ==
  /\ cell[s] = "inserted"
  /\ cell' = [cell EXCEPT ![s] = "live"]
  /\ handles' = handles \cup PortsOf(s)
  /\ edge' = [p \in Ports |-> IF p \in PortsOf(s) THEN avail[p] ELSE edge[p]]
  /\ UNCHANGED <<avail, key, slab, status, tpc, sched, reactor, shutdown>>

Runs(p) == ~shutdown /\ task[p] = "run"

\* MIO::new_r, new_w: Dispatcher::new_from_waker fills the pointer of the slot.
NewMio(p) ==
  /\ Runs(p) /\ tpc[p] = "none" /\ p \in handles
  /\ Unlocked
  /\ status' = [status EXCEPT ![p] = MUTED]
  /\ slot' = [slot EXCEPT ![key[p[1]]][p[2]] = p]
  /\ tpc' = [tpc EXCEPT ![p] = "mio"]
  /\ UNCHANGED <<env, cells, used, deferred_remove, sched, reactor, shutdown>>

\* A future can drop its MIO between polls of an operation; the future of a task
\* that is left in a queue is dropped by WorkerGuard after the reactors are joined.
MayDrop(p) ==
  \/ Runs(p)
  \/ rpc = "exited" /\ task[p] = "queued"

\* Mutant: del() frees the dispatcher and leaves the pointer in the slot.
DropMioKeeps(p) ==
  /\ MayDrop(p) /\ Unlocked
  /\ tpc[p] \in IF Runs(p) THEN {"mio", "prepare"} ELSE {"pend"}
  /\ tpc' = [tpc EXCEPT ![p] = "none"]
  /\ status' = [status EXCEPT ![p] = MUTED]
  /\ UNCHANGED <<env, cells, slab, sched, reactor, shutdown>>

\* Drop of the MIO: Dispatcher::del.
DropMio(p) ==
  /\ MayDrop(p) /\ Unlocked
  /\ tpc[p] \in IF Runs(p) THEN {"mio", "prepare"} ELSE {"pend"}
  /\ slot' = [slot EXCEPT ![key[p[1]]][p[2]] = NoPort]
  /\ tpc' = [tpc EXCEPT ![p] = "none"]
  /\ status' = [status EXCEPT ![p] = MUTED]
  /\ UNCHANGED <<env, cells, used, deferred_remove, sched, reactor, shutdown>>

\* The last handle of a socket drops the MIOCell.
DropHandle(p) ==
  /\ MayDrop(p) /\ tpc[p] = "none" /\ p \in handles
  /\ handles' = handles \ {p}
  /\ cell' = [cell EXCEPT ![p[1]] = IF PortsOf(p[1]) \cap handles = {p} THEN "deregister"
                                                                     ELSE @]
  /\ UNCHANGED <<env, key, slab, status, tpc, sched, reactor, shutdown>>

\* MIOCell::drop: deregister, so that epoll reports no more edges,
Deregister(s) ==
  /\ cell[s] = "deregister"
  /\ cell' = [cell EXCEPT ![s] = "defer"]
  /\ edge' = [p \in Ports |-> IF p \in PortsOf(s) THEN FALSE ELSE edge[p]]
  /\ UNCHANGED <<avail, key, handles, slab, status, tpc, sched, reactor, shutdown>>

\* Mutant: the slot is removed at once.
RemoveAtOnce(s) ==
  /\ cell[s] = "defer"
  /\ Unlocked
  /\ used' = used \ {key[s]}
  /\ key' = [key EXCEPT ![s] = NoKey]
  /\ cell' = [cell EXCEPT ![s] = "gone"]
  /\ avail' = [p \in Ports |-> avail[p] /\ p[1] # s]
  /\ UNCHANGED <<edge, handles, slot, deferred_remove, status, tpc, sched, reactor, shutdown>>

\* then leave the removal of the slot to the reactor; the socket is closed.
DeferRemove(s) ==
  /\ cell[s] = "defer"
  /\ Unlocked
  /\ deferred_remove' = deferred_remove \cup {key[s]}
  /\ key' = [key EXCEPT ![s] = NoKey]
  /\ cell' = [cell EXCEPT ![s] = "gone"]
  /\ avail' = [p \in Ports |-> avail[p] /\ p[1] # s]
  /\ UNCHANGED <<edge, handles, used, slot, status, tpc, sched, reactor, shutdown>>

\* The future of the task has finished.
Finish(p) ==
  /\ Runs(p) /\ tpc[p] = "none" /\ p \notin handles
  /\ task' = [task EXCEPT ![p] = "done"]
  /\ UNCHANGED <<env, cells, slab, status, tpc, woken, reactor, shutdown>>

-----------------------------------------------------------------------------
(* io_poll!.                                                               *)

At(p, from, to) == Runs(p) /\ tpc[p] = from /\ tpc' = [tpc EXCEPT ![p] = to]

Begin(p) ==
  /\ At(p, "mio", "prepare")
  /\ UNCHANGED <<env, cells, slab, status, sched, reactor, shutdown>>

PrepareIo(p) ==
  /\ At(p, "prepare", "io")
  /\ status' = [status EXCEPT ![p] = MUTED]
  /\ UNCHANGED <<env, cells, slab, sched, reactor, shutdown>>

\* The call succeeds, with all or a part of what is there,
IoOk(p) ==
  /\ At(p, "io", "mio")
  /\ avail[p]
  /\ \E rest \in BOOLEAN : avail' = [avail EXCEPT ![p] = rest]
  /\ UNCHANGED <<edge, cells, slab, status, sched, reactor, shutdown>>

\* or fails,
IoErr(p) ==
  /\ At(p, "io", "mio")
  /\ UNCHANGED <<env, cells, slab, status, sched, reactor, shutdown>>

\* or, in read_exact and write_all, transfers a part and goes on,
IoPartial(p) ==
  /\ At(p, "io", "io")
  /\ avail[p]
  /\ avail' = [avail EXCEPT ![p] = FALSE]
  /\ UNCHANGED <<edge, cells, slab, status, sched, reactor, shutdown>>

\* or would block.
IoWouldBlock(p) ==
  /\ At(p, "io", "wait")
  /\ ~avail[p]
  /\ UNCHANGED <<env, cells, slab, status, sched, reactor, shutdown>>

\* Mutant: wait_io() stores 0 whatever the status is.
WaitIoStore(p) ==
  /\ At(p, "wait", "pend")
  /\ status' = [status EXCEPT ![p] = IDLE]
  /\ UNCHANGED <<env, cells, slab, sched, reactor, shutdown>>

\* The exchange of wait_io(): go to sleep, or try again if notified meanwhile.
WaitIo(p) ==
  /\ \/ At(p, "wait", "pend") /\ status[p] = MUTED /\ status' = [status EXCEPT ![p] = IDLE]
     \/ At(p, "wait", "prepare") /\ status[p] # MUTED /\ UNCHANGED status
  /\ UNCHANGED <<env, cells, slab, sched, reactor, shutdown>>

\* PendingOnce returns Pending: the task sleeps, or runs again if it was woken.
PollPending(p) ==
  /\ Runs(p) /\ tpc[p] = "pend"
  /\ IF woken[p]
       THEN /\ woken' = [woken EXCEPT ![p] = FALSE]
            /\ tpc' = [tpc EXCEPT ![p] = "prepare"]
            /\ UNCHANGED task
       ELSE /\ task' = [task EXCEPT ![p] = "idle"]
            /\ UNCHANGED <<woken, tpc>>
  /\ UNCHANGED <<env, cells, slab, status, reactor, shutdown>>

\* A worker polls the task again, and PendingOnce is ready.  The task may have
\* been queued by the reactor, or be woken by something else it waits for.
Repoll(p) ==
  /\ task' = [task EXCEPT ![p] = "run"]
  /\ tpc' = [tpc EXCEPT ![p] = "prepare"]
  /\ UNCHANGED <<env, cells, slab, status, woken, reactor, shutdown>>
Resume(p) == ~shutdown /\ task[p] = "queued" /\ Repoll(p)
OtherWake(p) == ~shutdown /\ task[p] = "idle" /\ Repoll(p)

-----------------------------------------------------------------------------
(* The reactor.                                                            *)

\* The head of the loop reads SHUTDOWN.
LoadShutdown ==
  /\ rpc = "check" /\ ~shutdown
  /\ rpc' = "poll"
  /\ UNCHANGED <<env, cells, slab, status, tpc, sched, events, cur, seen, removing, shutdown>>

\* The sockets with an edge, and which of their ports are ready.
Polled ==
  LET ready == {s \in Sockets : /\ \E p \in PortsOf(s) : edge[p]
                               /\ \E p \in PortsOf(s) : avail[p]}
  IN  {[sock |-> s, key |-> key[s],
        ready |-> {d \in Dirs : <<s, d>> \in Ports /\ avail[<<s, d>>]}] : s \in ready}

\* Mutant: poll() has no timeout.
PollNoTimeout ==
  /\ rpc = "poll" /\ Polled # {}
  /\ events' = Polled
  /\ edge' = [p \in Ports |-> FALSE]
  /\ rpc' = "lock"
  /\ UNCHANGED <<avail, cells, slab, status, tpc, sched, cur, seen, removing, shutdown>>

\* One poll(): it returns with events, or with none when it times out.
Poll ==
  /\ rpc = "poll"
  /\ events' = Polled
  /\ edge' = [p \in Ports |-> FALSE]
  /\ rpc' = "lock"
  /\ UNCHANGED <<avail, cells, slab, status, tpc, sched, cur, seen, removing, shutdown>>

LockDispatchers ==
  /\ rpc = "lock"
  /\ rpc' = "events"
  /\ UNCHANGED <<env, cells, slab, status, tpc, sched, events, cur, seen, removing, shutdown>>

\* push_batch: the tasks in the reactor's lists go to the workers' queues.
Flushed == [p \in Ports |-> IF task[p] = "batched" THEN "queued" ELSE task[p]]

\* The next event: its slot is looked up by the key alone.
NextEvent(e) ==
  /\ rpc = "events" /\ e \in events
  /\ events' = events \ {e}
  /\ seen' = (seen + 1) % BatchEvery
  /\ task' = IF seen + 1 = BatchEvery THEN Flushed ELSE task
  /\ cur' = {slot[e.key][d] : d \in e.ready} \ {NoPort}
  /\ rpc' = "notify"
  /\ UNCHANGED <<env, cells, slab, status, tpc, woken, removing, shutdown>>

\* The readable dispatcher comes first.
IsFirst(p) == p \in cur /\ (p[2] = "readable" \/ \A q \in cur : q = p)

\* Mutant: notify() wakes nobody.
NotifySilent(p) ==
  /\ rpc = "notify" /\ IsFirst(p)
  /\ status' = [status EXCEPT ![p] = NOTIFIED]
  /\ cur' = cur \ {p}
  /\ UNCHANGED <<env, cells, slab, tpc, sched, rpc, events, seen, removing, shutdown>>

\* Mutant: notify() stores NOTIFIED without MUTED.
NotifyUnmuted(p) ==
  /\ rpc = "notify" /\ IsFirst(p)
  /\ status' = [status EXCEPT ![p] = NOTIFIED - MUTED]
  /\ IF status[p] = IDLE THEN rpc' = "wake" /\ UNCHANGED cur
                         ELSE cur' = cur \ {p} /\ UNCHANGED rpc
  /\ UNCHANGED <<env, cells, slab, tpc, sched, events, seen, removing, shutdown>>

\* The swap of notify().
Notify(p) ==
  /\ rpc = "notify" /\ IsFirst(p)
  /\ status' = [status EXCEPT ![p] = NOTIFIED]
  /\ IF status[p] = IDLE THEN rpc' = "wake" /\ UNCHANGED cur
                         ELSE cur' = cur \ {p} /\ UNCHANGED rpc
  /\ UNCHANGED <<env, cells, slab, tpc, sched, events, seen, removing, shutdown>>

\* The wake_by_ref() of notify().
WakeTask(p) ==
  /\ rpc = "wake" /\ IsFirst(p)
  /\ task' = [task EXCEPT ![p] = IF @ = "idle" THEN "batched" ELSE @]
  /\ woken' = [woken EXCEPT ![p] = @ \/ task[p] = "run"]
  /\ cur' = cur \ {p}
  /\ rpc' = "notify"
  /\ UNCHANGED <<env, cells, slab, status, tpc, events, seen, removing, shutdown>>

EventDone ==
  /\ rpc = "notify" /\ cur = {}
  /\ rpc' = "events"
  /\ UNCHANGED <<env, cells, slab, status, tpc, sched, events, cur, seen, removing, shutdown>>

\* All events are handled: the mutex is released.
EventsDone ==
  /\ rpc = "events" /\ events = {}
  /\ rpc' = "push_batch"
  /\ seen' = 0
  /\ UNCHANGED <<env, cells, slab, status, tpc, sched, events, cur, removing, shutdown>>

PushBatch ==
  /\ rpc = "push_batch"
  /\ task' = Flushed
  /\ rpc' = "remove"
  /\ UNCHANGED <<env, cells, slab, status, tpc, woken, events, cur, seen, removing, shutdown>>

\* Mutant: the key is read and not popped.
PeekDeferred(k) ==
  /\ rpc \in {"remove", "last_remove"}
  /\ k \in deferred_remove
  /\ removing' = k
  /\ rpc' = IF rpc = "remove" THEN "remove_slot" ELSE "last_slot"
  /\ UNCHANGED <<env, cells, slab, status, tpc, sched, events, cur, seen, shutdown>>

\* One round of the loops that empty deferred_remove: pop a key,
PopDeferred(k) ==
  /\ rpc \in {"remove", "last_remove"}
  /\ k \in deferred_remove
  /\ deferred_remove' = deferred_remove \ {k}
  /\ removing' = k
  /\ rpc' = IF rpc = "remove" THEN "remove_slot" ELSE "last_slot"
  /\ UNCHANGED <<env, cells, used, slot, status, tpc, sched, events, cur, seen, shutdown>>

\* and remove its slot under the other mutex.
RemoveSlot ==
  /\ rpc \in {"remove_slot", "last_slot"}
  /\ used' = used \ {removing}
  /\ removing' = NoKey
  /\ rpc' = IF rpc = "remove_slot" THEN "remove" ELSE "last_remove"
  /\ UNCHANGED <<env, cells, slot, deferred_remove, status, tpc, sched, events, cur, seen,
                 shutdown>>

NoneDeferred ==
  /\ rpc = "remove" /\ deferred_remove = {}
  /\ rpc' = "check"
  /\ UNCHANGED <<env, cells, slab, status, tpc, sched, events, cur, seen, removing, shutdown>>

\* mio_shutdown() after the workers are joined: no poll is under way.
SetShutdown ==
  /\ ~shutdown
  /\ \A p \in Ports : task[p] # "run"
  /\ \A s \in Sockets : cell[s] \in {"none", "live", "gone"}
  /\ shutdown' = TRUE
  /\ UNCHANGED <<env, cells, slab, status, tpc, sched, reactor>>

\* The reactor sees the flag at the head of its loop,
SeeShutdown ==
  /\ rpc = "check" /\ shutdown
  /\ rpc' = "last_remove"
  /\ UNCHANGED <<env, cells, slab, status, tpc, sched, events, cur, seen, removing, shutdown>>

\* and leaves, dropping its BatchGuard.
ReactorExit ==
  /\ rpc = "last_remove" /\ deferred_remove = {}
  /\ task' = Flushed
  /\ rpc' = "exited"
  /\ UNCHANGED <<env, cells, slab, status, tpc, woken, events, cur, seen, removing, shutdown>>

-----------------------------------------------------------------------------
IoStep(p) ==
  \/ PrepareIo(p) \/ IoOk(p) \/ IoErr(p) \/ IoPartial(p) \/ IoWouldBlock(p)
  \/ WaitIo(p) \/ PollPending(p) \/ Resume(p)

PortNext(p) ==
  \/ Arrive(p) \/ NewMio(p) \/ DropMio(p) \/ DropHandle(p) \/ Finish(p)
  \/ Begin(p) \/ IoStep(p) \/ OtherWake(p)

SocketNext(s) ==
  \/ Register(s) \/ Deregister(s) \/ DeferRemove(s)
  \/ \E k \in Keys : Insert(s, k)

ReactorNext ==
  \/ LoadShutdown \/ Poll \/ LockDispatchers \/ EventDone \/ EventsDone \/ PushBatch \/ RemoveSlot
  \/ NoneDeferred \/ SeeShutdown \/ ReactorExit
  \/ \E e \in events : NextEvent(e)
  \/ \E p \in Ports : Notify(p) \/ WakeTask(p)
  \/ \E k \in Keys : PopDeferred(k)

Next ==
  \/ \E p \in Ports : PortNext(p)
  \/ \E s \in Sockets : SocketNext(s)
  \/ ReactorNext
  \/ SetShutdown

Spec == Init /\ [][Next]_vars

(* The reactor runs its loop, and a task that is being polled or is in a    *)
(* queue gets on.  Nothing is assumed of arrivals or of shutdown.           *)
Fairness ==
  /\ WF_vars(ReactorNext)
  /\ \A p \in Ports : WF_vars(IoStep(p))

FairSpec == Spec /\ Fairness

-----------------------------------------------------------------------------
(* Properties.                                                             *)

\* Every variable stays within its type.
TypeOK ==
  /\ avail \in [Ports -> BOOLEAN]
  /\ edge \in [Ports -> BOOLEAN]
  /\ cell \in [Sockets -> CellPCs]
  /\ key \in [Sockets -> Keys \cup {NoKey}]
  /\ handles \in SUBSET Ports
  /\ used \in SUBSET Keys
  /\ slot \in [Keys -> [Dirs -> Ports \cup {NoPort}]]
  /\ deferred_remove \in SUBSET Keys
  /\ status \in [Ports -> {IDLE, MUTED, NOTIFIED}]
  /\ tpc \in [Ports -> TaskPCs]
  /\ task \in [Ports -> TaskStates]
  /\ woken \in [Ports -> BOOLEAN]
  /\ rpc \in ReactorPCs
  /\ events \in SUBSET [sock : Sockets, key : Keys, ready : SUBSET Dirs]
  /\ cur \in SUBSET Ports
  /\ seen \in 0 .. BatchEvery - 1
  /\ removing \in Keys \cup {NoKey}
  /\ shutdown \in BOOLEAN

\* The event loop reads slots with get_unchecked: the slot of every event in hand
\* is still in the slab and still belongs to the socket the event came from,
\* even if that socket has been dropped since poll() returned.
EventsFindTheirSlot ==
  \A e \in events :
    /\ e.key \in used
    /\ \A s \in Sockets : key[s] = e.key => s = e.sock

\* notify() follows raw pointers: a dispatcher the reactor has found, or can find
\* in a slot in use, has not been freed by Dispatcher::del.
DispatcherAlive ==
  /\ \A p \in cur : tpc[p] # "none"
  /\ \A k \in used, d \in Dirs : slot[k][d] # NoPort => tpc[slot[k][d]] # "none"

\* slab.remove panics on a vacant key and MIOCell::drop on a pointer that is left:
\* a key waiting for its removal is in use, no open socket has it, and its slot
\* points to no dispatcher.
RemovalIsValid ==
  \A k \in deferred_remove \cup ({removing} \ {NoKey}) :
    /\ k \in used
    /\ \A s \in Sockets : key[s] # k
    /\ \A d \in Dirs : slot[k][d] = NoPort

\* A wake-up for port p is on its way.
OnItsWay(p) ==
  \/ edge[p]
  \/ \E e \in events : e.sock = p[1] /\ p[2] \in e.ready
  \/ p \in cur
  \/ woken[p]
  \/ task[p] \in {"batched", "queued"}

\* prepare_io, the call, wait_io and notify() together lose no edge: a task that
\* goes to sleep after WouldBlock, or sleeps, on a port that is ready has been
\* notified or will be, as long as the reactor runs.
NoLostReadiness ==
  \A p \in Ports :
    avail[p] /\ ~shutdown /\ tpc[p] \in {"wait", "pend"}
       => OnItsWay(p) \/ (tpc[p] = "wait" /\ status[p] = NOTIFIED)

\* A task that sleeps on a port that is ready is eventually polled again, unless
\* the reactors are shut down.
ReadinessIsServed ==
  \A p \in Ports : (tpc[p] = "pend" /\ avail[p]) ~> (tpc[p] # "pend" \/ shutdown)

\* mio_shutdown() joins the reactors: after the flag is set, the reactor leaves
\* its loop, although it may be in poll() with no event to come, and although
\* slots are left to remove.
ReactorStops == shutdown ~> rpc = "exited"
-----------------------------------------------------------------------------
(* The inductive invariant.                                                *)

\* A key belongs to one open socket, or waits for its removal, or is vacant.
KeysOwned ==
  /\ \A s \in Sockets : key[s] = NoKey <=> cell[s] \in {"none", "gone"}
  /\ \A s \in Sockets : key[s] # NoKey => /\ key[s] \in used \ deferred_remove
                                         /\ key[s] # removing
  /\ \A s, t \in Sockets : key[s] = key[t] /\ key[s] # NoKey => s = t
  /\ deferred_remove \subseteq used
  /\ removing # NoKey => removing \in used \ deferred_remove
  /\ removing # NoKey => rpc \in {"remove_slot", "last_slot"}

\* A dispatcher lives within its handle, a handle within its registered cell.
Nested ==
  /\ \A p \in Ports : tpc[p] # "none" => p \in handles
  /\ \A p \in handles : cell[p[1]] = "live"
  /\ \A p \in Ports : edge[p] => cell[p[1]] \in {"live", "deregister"}

\* The slots in use point to the dispatchers that exist, and to nothing else.
SlotsExact ==
  /\ \A p \in Ports : tpc[p] # "none" => slot[key[p[1]]][p[2]] = p
  /\ \A k \in used, d \in Dirs :
       LET p == slot[k][d] IN
       p # NoPort => p[2] = d /\ tpc[p] # "none" /\ key[p[1]] = k

\* What the reactor has in hand during a round is still there.
RoundValid ==
  /\ events # {} => rpc \in {"lock", "events", "notify", "wake"}
  /\ cur # {} => rpc \in {"notify", "wake"}
  /\ \A e \in events : /\ e.key \in used
                       /\ key[e.sock] \in {e.key, NoKey}
                       /\ cell[e.sock] \notin {"none", "inserted"}
                       /\ \A s \in Sockets : key[s] = e.key => s = e.sock
  /\ \A p \in cur : tpc[p] # "none"
  /\ \A p, q \in cur : p[2] = q[2] => p = q
  /\ rpc \in {"last_remove", "last_slot", "exited"} => shutdown

\* A task that does not run sleeps in PendingOnce or is finished.
Asleep ==
  \A p \in Ports :
    /\ task[p] \in {"idle", "batched", "queued"} /\ ~shutdown => tpc[p] = "pend"
    /\ task[p] = "done" => tpc[p] = "none"

\* wait_io() has left MUTED; a notify() that came afterwards is waking the task, or
\* has woken it.
Noticed ==
  \A p \in Ports :
    tpc[p] = "pend" =>
      /\ status[p] # MUTED
      /\ status[p] = NOTIFIED /\ ~shutdown =>
           \/ rpc = "wake" /\ IsFirst(p)
           \/ woken[p]
           \/ task[p] \in {"batched", "queued"}

\* What handles, tasks and the reactor keep true between any two of their steps.
IInv ==
  /\ TypeOK
  /\ KeysOwned
  /\ Nested
  /\ SlotsExact
  /\ RoundValid
  /\ Asleep
  /\ Noticed
  /\ NoLostReadiness
=============================================================================
