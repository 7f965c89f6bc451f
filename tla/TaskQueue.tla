----------------------------- MODULE TaskQueue ------------------------------
(***************************************************************************)
(* What the task lists of yaay-mt-runtime/src/task_list.rs promise: double *)
(* ended sequences that threads fill from, and empty into, the tasks they  *)
(* have in hand, each operation at one instant.  Module TaskList           *)
(* implements this specification.                                          *)
(***************************************************************************)
EXTENDS Sequences

CONSTANTS Threads, Lists, Tasks

VARIABLES
  queue,   \* the tasks of each shared list, front first
  hand     \* the tasks that each thread has for itself

Init ==
  /\ queue = [l \in Lists |-> <<>>]
  /\ hand = [x \in Threads |-> <<>>]

\* List l and the hand of thread x change to the given sequences.
Become(x, l, q, h) ==
  /\ queue' = [queue EXCEPT ![l] = q]
  /\ hand' = [hand EXCEPT ![x] = h]

push_back_batch(x, l)  == hand[x] # <<>> /\ Become(x, l, queue[l] \o hand[x], <<>>)
push_front_batch(x, l) == hand[x] # <<>> /\ Become(x, l, hand[x] \o queue[l], <<>>)

pop_front(x, l) ==
  /\ hand[x] = <<>> /\ queue[l] # <<>>
  /\ Become(x, l, Tail(queue[l]), <<Head(queue[l])>>)

pop_all(x, l) == queue[l] # <<>> /\ Become(x, l, <<>>, hand[x] \o queue[l])

\* The thread comes by a task that is in no list, or is done with its first one.
push_back(x, t) == hand' = [hand EXCEPT ![x] = Append(@, t)] /\ UNCHANGED queue
into_iter(x) ==
  /\ hand[x] # <<>>
  /\ hand' = [hand EXCEPT ![x] = Tail(@)]
  /\ UNCHANGED queue

Next ==
  \E x \in Threads :
    \/ \E l \in Lists : \/ push_back_batch(x, l) \/ push_front_batch(x, l)
                        \/ pop_front(x, l) \/ pop_all(x, l)
    \/ \E t \in Tasks : push_back(x, t)
    \/ into_iter(x)

Spec == Init /\ [][Next]_<<queue, hand>>
=============================================================================
