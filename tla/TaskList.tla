------------------------------ MODULE TaskList ------------------------------
(***************************************************************************)
(* The intrusive lists of yaay-mt-runtime/src/task_list.rs: SyncTaskLists  *)
(* (the workers' queues) that threads lock, and the private TaskList of    *)
(* each thread: one new or woken task, a popped one, the list a reactor    *)
(* collects in RuntimeLocalData, or `tasks` of WorkerGuard::drop.          *)
(*                                                                         *)
(* The next pointer is in the task.  Nothing clears it when the task       *)
(* leaves a list, and pop_front, which stops at tail, must never follow    *)
(* one that is out of date.  A step is one write to shared memory.         *)
(***************************************************************************)
EXTENDS Naturals, Sequences, FiniteSets

CONSTANTS
  Threads, Lists, Tasks,
  NULL       \* null_mut()

ASSUME NULLAssumption == NULL \notin Tasks \cup Threads
ASSUME TasksAssumption == IsFiniteSet(Tasks)

VARIABLES
  head, tail,   \* of each SyncTaskList
  next,         \* Task.next
  raw_mutex,    \* the thread that has locked the list, or NULL
  mine,         \* the private TaskList of each thread
  pc,           \* the operation a thread is in
  at            \* the list it has locked

vars == <<head, tail, next, raw_mutex, mine, pc, at>>

Ops == {"push_back_batch", "push_front_batch", "pop_front", "pop_all"}
PCs == Ops \cup {"idle", "set_tail", "set_head", "clear_tail"}
Ptrs == Tasks \cup {NULL}

EmptyList  == [head |-> NULL, tail |-> NULL]
JustOne(t) == [head |-> t, tail |-> t]

Init ==
  /\ head = [l \in Lists |-> NULL] /\ tail = [l \in Lists |-> NULL]
  /\ next = [t \in Tasks |-> NULL]
  /\ raw_mutex = [l \in Lists |-> NULL]
  /\ mine = [x \in Threads |-> EmptyList]
  /\ pc = [x \in Threads |-> "idle"]
  /\ at \in [Threads -> Lists]

-----------------------------------------------------------------------------
\* The tasks from each pointer to t along the pointers nx, after at most n hops.
Walks(nx, t) ==
  LET walk[n \in 0 .. Cardinality(Tasks)] ==
        [p \in Ptrs |-> IF p = NULL THEN <<>>
                        ELSE IF p = t \/ n = 0 THEN <<p>>
                        ELSE <<p>> \o walk[n - 1][nx[p]]]
  IN  walk

\* The tasks from h to t; a list whose head or tail is null is empty.
Path(nx, h, t) == IF h = NULL \/ t = NULL THEN <<>> ELSE Walks(nx, t)[Cardinality(Tasks)][h]

Contents(l) == Path(next, head[l], tail[l])
Hand(x) == Path(next, mine[x].head, mine[x].tail)

In(t, s) == \E i \in 1 .. Len(s) : s[i] = t

\* In no list, so with a new or idle future.
Free(t) == /\ \A l \in Lists : ~In(t, Contents(l))
           /\ \A x \in Threads : ~In(t, Hand(x))

-----------------------------------------------------------------------------
is_empty(l) == head[l] = NULL

\* Task::set_next.
set_next(p, q) == next' = [next EXCEPT ![p] = q]

\* push_back_batch on the private list of thread x: nobody else sees it.
AppendMine(x, list) ==
  LET old == mine[x] IN
  /\ mine' = [mine EXCEPT ![x] = [head |-> IF old.tail = NULL THEN list.head ELSE old.head,
                                  tail |-> list.tail]]
  /\ IF old.tail = NULL THEN UNCHANGED next ELSE set_next(old.tail, list.head)

\* Task::new, or a wake() that has claimed an idle task: the task goes to the back
\* of what the thread has in hand.
NewTask(x, t) ==
  /\ pc[x] = "idle"
  /\ Free(t)
  /\ AppendMine(x, JustOne(t))
  /\ UNCHANGED <<head, tail, raw_mutex, pc, at>>

\* Mutant: the end of the list is recognised by a null next pointer.
PopPtrsByNext(list) ==
  IF next[list.head] = NULL THEN EmptyList ELSE [list EXCEPT !.head = next[list.head]]

\* pop_front of a list that is not empty leaves these two pointers.
PopPtrs(list) ==
  IF list.head = list.tail THEN EmptyList ELSE [list EXCEPT !.head = next[list.head]]

\* The thread polls or drops the first task it has in hand, and is done with it.
NextMine(x) ==
  /\ pc[x] = "idle"
  /\ mine[x].head # NULL
  /\ mine' = [mine EXCEPT ![x] = PopPtrs(@)]
  /\ UNCHANGED <<head, tail, next, raw_mutex, pc, at>>

\* Mutant: the mutex is free for everyone.
MayLockAny(l) == TRUE

MayLock(l) == raw_mutex[l] = NULL

\* Only a batch that is not empty is pushed.  A worker pops one task at a time;
\* WorkerGuard::drop adds whole lists to its own.
Wanted(x, op) ==
  CASE op \in {"push_back_batch", "push_front_batch"} -> mine[x].head # NULL
    [] op = "pop_front" -> mine[x].head = NULL
    [] op = "pop_all" -> TRUE

Lock(x, l, op) ==
  /\ pc[x] = "idle"
  /\ Wanted(x, op)
  /\ MayLock(l)
  /\ raw_mutex' = [raw_mutex EXCEPT ![l] = x]
  /\ at' = [at EXCEPT ![x] = l]
  /\ pc' = [pc EXCEPT ![x] = op]
  /\ UNCHANGED <<head, tail, next, mine>>

\* The guard is dropped after the last write.
Unlock(x) ==
  /\ raw_mutex' = [raw_mutex EXCEPT ![at[x]] = NULL]
  /\ pc' = [pc EXCEPT ![x] = "idle"]
Goto(x, where) == pc' = [pc EXCEPT ![x] = where] /\ UNCHANGED raw_mutex

PushBackBatch(x) ==
  LET l == at[x] IN
  /\ pc[x] = "push_back_batch"
  /\ IF tail[l] = NULL
       THEN head' = [head EXCEPT ![l] = mine[x].head] /\ UNCHANGED next
       ELSE set_next(tail[l], mine[x].head) /\ UNCHANGED head
  /\ Goto(x, "set_tail")
  /\ UNCHANGED <<tail, mine, at>>

SetTail(x) ==
  /\ pc[x] = "set_tail"
  /\ tail' = [tail EXCEPT ![at[x]] = mine[x].tail]
  /\ mine' = [mine EXCEPT ![x] = EmptyList]
  /\ Unlock(x)
  /\ UNCHANGED <<head, next, at>>

\* Mutant: the first task of the batch, not its last, gets the old head.
LinkFirst(list) == list.head

\* The task of the batch that is linked to the old head.
LinkLast(list) == list.tail

PushFrontBatch(x) ==
  LET l == at[x] IN
  /\ pc[x] = "push_front_batch"
  /\ IF is_empty(l)
       THEN tail' = [tail EXCEPT ![l] = mine[x].tail] /\ UNCHANGED next
       ELSE set_next(LinkLast(mine[x]), head[l]) /\ UNCHANGED tail
  /\ Goto(x, "set_head")
  /\ UNCHANGED <<head, mine, at>>

SetHead(x) ==
  /\ pc[x] = "set_head"
  /\ head' = [head EXCEPT ![at[x]] = mine[x].head]
  /\ mine' = [mine EXCEPT ![x] = EmptyList]
  /\ Unlock(x)
  /\ UNCHANGED <<tail, next, at>>

\* None, or the head is moved on; of the last task the tail is cleared as well.
TakeFront(x) ==
  LET l == at[x]
      after == PopPtrs([head |-> head[l], tail |-> tail[l]])
  IN
  /\ pc[x] = "pop_front"
  /\ IF is_empty(l)
       THEN Unlock(x) /\ UNCHANGED <<head, mine>>
       ELSE /\ head' = [head EXCEPT ![l] = after.head]
            /\ mine' = [mine EXCEPT ![x] = JustOne(head[l])]
            /\ IF after = EmptyList THEN Goto(x, "clear_tail") ELSE Unlock(x)
  /\ UNCHANGED <<tail, next, at>>

\* `if !guard.is_empty() { tasks.push_back_batch(guard.pop_all()) }`.
TakeAll(x) ==
  LET l == at[x] IN
  /\ pc[x] = "pop_all"
  /\ IF is_empty(l)
       THEN Unlock(x) /\ UNCHANGED <<head, mine, next>>
       ELSE /\ head' = [head EXCEPT ![l] = NULL]
            /\ AppendMine(x, [head |-> head[l], tail |-> tail[l]])
            /\ Goto(x, "clear_tail")
  /\ UNCHANGED <<tail, at>>

ClearTail(x) ==
  /\ pc[x] = "clear_tail"
  /\ tail' = [tail EXCEPT ![at[x]] = NULL]
  /\ Unlock(x)
  /\ UNCHANGED <<head, next, mine, at>>

Next ==
  \E x \in Threads :
    \/ \E t \in Tasks : NewTask(x, t)
    \/ \E l \in Lists, op \in Ops : Lock(x, l, op)
    \/ NextMine(x) \/ PushBackBatch(x) \/ SetTail(x) \/ PushFrontBatch(x) \/ SetHead(x)
    \/ TakeFront(x) \/ TakeAll(x) \/ ClearTail(x)

Spec == Init /\ [][Next]_vars

-----------------------------------------------------------------------------
(* Properties.                                                             *)

\* Every variable stays within its type, and a mutex belongs to the one thread
\* that is between lock() and the drop of its guard.
TypeOK ==
  /\ head \in [Lists -> Ptrs] /\ tail \in [Lists -> Ptrs]
  /\ next \in [Tasks -> Ptrs]
  /\ raw_mutex \in [Lists -> Threads \cup {NULL}]
  /\ mine \in [Threads -> [head : Ptrs, tail : Ptrs]]
  /\ pc \in [Threads -> PCs] /\ at \in [Threads -> Lists]
  /\ \A x \in Threads, l \in Lists : raw_mutex[l] = x <=> pc[x] # "idle" /\ at[x] = l

\* s leads from h to t along the pointers nx and meets no task twice.
IsWalk(nx, s, h, t) ==
  /\ s \in Seq(Tasks) /\ s # <<>>
  /\ s[1] = h /\ s[Len(s)] = t
  /\ \A i \in 1 .. Len(s) - 1 : nx[s[i]] = s[i + 1]
  /\ \A i, j \in 1 .. Len(s) : s[i] = s[j] => i = j

Linked(nx, h, t) == h # NULL /\ t # NULL => IsWalk(nx, Path(nx, h, t), h, t)
AllLinked == /\ \A l \in Lists : Linked(next, head[l], tail[l])
             /\ \A x \in Threads : Linked(next, mine[x].head, mine[x].tail)

Apart(s, u) == \A t \in Tasks : ~(In(t, s) /\ In(t, u))
AllApart == /\ \A l \in Lists, x \in Threads : Apart(Contents(l), Hand(x))
            /\ \A l, m \in Lists : l # m => Apart(Contents(l), Contents(m))
            /\ \A x, y \in Threads : x # y => Apart(Hand(x), Hand(y))

\* However tasks move between lists with the pointers of their former
\* neighbours still in them: the walk from a head ends at the tail of the same
\* list without meeting a task twice, and no task is on the walks of two lists,
\* shared or private, locked or not.
WellLinked ==
  /\ \A l \in Lists : raw_mutex[l] = NULL => (head[l] = NULL <=> tail[l] = NULL)
  /\ AllLinked /\ AllApart

AllContents == [l \in Lists |-> Contents(l)]
AllHands == [x \in Threads |-> Hand(x)]

Queues == INSTANCE TaskQueue WITH queue <- AllContents, hand <- AllHands

\* Each operation of a SyncTaskList takes effect at one of its writes, as the
\* operation on a sequence that its comment describes: no task is lost, copied or
\* put at the wrong end.
QueueSpec == Queues!Spec
-----------------------------------------------------------------------------
(* The inductive invariant.                                                *)

Paired(h, t) == h = NULL <=> t = NULL

\* What an operation has written so far.
Halfway(x) ==
  LET h == head[at[x]]
      t == tail[at[x]]
  IN
  /\ Paired(mine[x].head, mine[x].tail)
  /\ pc[x] \in Ops => Paired(h, t)
  /\ pc[x] = "pop_front" => mine[x].head = NULL
  /\ pc[x] \in {"push_back_batch", "push_front_batch", "set_tail", "set_head"}
       => mine[x].head # NULL
  /\ pc[x] = "set_tail" => \/ t = NULL /\ h = mine[x].head
                           \/ t # NULL /\ h # NULL /\ next[t] = mine[x].head
  /\ pc[x] = "set_head" => \/ h = NULL /\ t = mine[x].tail
                           \/ h # NULL /\ t # NULL /\ next[mine[x].tail] = h
  /\ pc[x] = "clear_tail" => h = NULL

\* Each thread in the middle of an operation has written just the pointers that its
\* next write completes.
InBetween == \A x \in Threads : Halfway(x)

\* What the threads keep true between any two writes to a list.
IInv == TypeOK /\ WellLinked /\ InBetween
=============================================================================
