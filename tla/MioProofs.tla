----------------------------- MODULE MioProofs ------------------------------
(***************************************************************************)
(* Proofs about module Mio, for any number of sockets, keys and ports.     *)
(***************************************************************************)
EXTENDS Mio, TLAPS

USE DEF env, cells, slab, sched, reactor

\* A port is a socket and one of its directions.
LEMMA PortFacts ==
  /\ \A p \in Ports : p[1] \in Sockets /\ p[2] \in Dirs /\ p # NoPort
  /\ \A p, q \in Ports : p[1] = q[1] /\ p[2] = q[2] => p = q
  /\ NoKey \notin Keys
BY KeysAssumption DEF Ports, Dirs, NoPort, NoKey

\* notify() handles one dispatcher at a time.
LEMMA OneIsFirst ==
  ASSUME RoundValid, cur \subseteq Ports, NEW p \in Ports, NEW q \in Ports, IsFirst(p), IsFirst(q)
  PROVE  p = q
BY DEF RoundValid, IsFirst

\* wake_by_ref() leaves a task that has not finished running and woken, or queued.
LEMMA WokenByWake ==
  ASSUME IInv, NEW p \in Ports, WakeTask(p)
  PROVE  woken'[p] \/ task'[p] \in {"batched", "queued"}
<1>1. task[p] \in {"run", "idle", "batched", "queued"}
  BY DEF IInv, TypeOK, TaskStates, Asleep, RoundValid, WakeTask, IsFirst
<1>2. CASE task[p] = "run"  BY <1>2 DEF WakeTask, IInv, TypeOK
<1>3. CASE task[p] # "run"  BY <1>1, <1>3 DEF WakeTask, IInv, TypeOK
<1> QED BY <1>2, <1>3

\* Keys move from a socket to deferred_remove, to the reactor and back to the slab; a
\* vacant one is taken only from outside all of these.
LEMMA KeysStep ==
  ASSUME IInv, [Next]_vars
  PROVE  KeysOwned'
<1> USE PortFacts DEF IInv, TypeOK, KeysOwned
<1>1. ASSUME NEW p \in Ports, PortNext(p) PROVE  KeysOwned'
  <2>1. CASE Arrive(p)  BY <2>1 DEF Arrive
  <2>2. CASE NewMio(p)  BY <2>2 DEF NewMio
  <2>3. CASE DropMio(p)  BY <2>3 DEF DropMio, MayDrop
  <2>4. CASE DropHandle(p)  BY <2>4 DEF DropHandle, MayDrop, Nested
  <2>5. CASE Finish(p)  BY <2>5 DEF Finish
  <2>6. CASE Begin(p)  BY <2>6 DEF Begin, At
  <2>7. CASE PrepareIo(p)  BY <2>7 DEF PrepareIo, At
  <2>8. CASE IoOk(p)  BY <2>8 DEF IoOk, At
  <2>9. CASE IoErr(p)  BY <2>9 DEF IoErr, At
  <2>10. CASE IoPartial(p)  BY <2>10 DEF IoPartial, At
  <2>11. CASE IoWouldBlock(p)  BY <2>11 DEF IoWouldBlock, At
  <2>12. CASE WaitIo(p)  BY <2>12 DEF WaitIo, At
  <2>13. CASE PollPending(p)  BY <2>13 DEF PollPending
  <2>14. CASE Resume(p)  BY <2>14 DEF Resume, Repoll
  <2>15. CASE OtherWake(p)  BY <2>15 DEF OtherWake, Repoll
  <2> QED BY <1>1, <2>1, <2>2, <2>3, <2>4, <2>5, <2>6, <2>7, <2>8, <2>9, <2>10, <2>11, <2>12,
           <2>13, <2>14, <2>15 DEF PortNext, IoStep
<1>2. ASSUME NEW s \in Sockets, SocketNext(s) PROVE  KeysOwned'
  <2>1. CASE Register(s)  BY <2>1 DEF Register
  <2>2. CASE Deregister(s)  BY <2>2 DEF Deregister
  <2>3. CASE DeferRemove(s)  BY <2>3 DEF DeferRemove
  <2>4. ASSUME NEW k \in Keys, Insert(s, k) PROVE  KeysOwned'  BY <2>4 DEF Insert
  <2> QED BY <1>2, <2>1, <2>2, <2>3, <2>4 DEF SocketNext
<1>3. ASSUME ReactorNext PROVE  KeysOwned'
  <2>1. CASE LoadShutdown  BY <2>1 DEF LoadShutdown
  <2>2. CASE Poll  BY <2>2 DEF Poll, Polled
  <2>3. CASE LockDispatchers  BY <2>3 DEF LockDispatchers
  <2>4. CASE EventDone  BY <2>4 DEF EventDone
  <2>5. CASE EventsDone  BY <2>5 DEF EventsDone
  <2>6. CASE PushBatch  BY <2>6 DEF PushBatch, Flushed
  <2>7. CASE RemoveSlot  BY <2>7 DEF RemoveSlot
  <2>8. CASE NoneDeferred  BY <2>8 DEF NoneDeferred
  <2>9. CASE SeeShutdown  BY <2>9 DEF SeeShutdown
  <2>10. CASE ReactorExit  BY <2>10 DEF ReactorExit, Flushed
  <2>11. ASSUME NEW e \in events, NextEvent(e) PROVE  KeysOwned'  BY <2>11 DEF NextEvent, Flushed
  <2>12. ASSUME NEW p \in Ports, Notify(p) PROVE  KeysOwned'  BY <2>12 DEF Notify
  <2>13. ASSUME NEW p \in Ports, WakeTask(p) PROVE  KeysOwned'  BY <2>13 DEF WakeTask
  <2>14. ASSUME NEW k \in Keys, PopDeferred(k) PROVE  KeysOwned'  BY <2>14 DEF PopDeferred
  <2> QED BY <1>3, <2>1, <2>2, <2>3, <2>4, <2>5, <2>6, <2>7, <2>8, <2>9, <2>10, <2>11, <2>12,
           <2>13, <2>14 DEF ReactorNext
<1>4. CASE SetShutdown  BY <1>4 DEF SetShutdown
<1>5. CASE UNCHANGED vars  BY <1>5 DEF vars
<1> QED BY <1>1, <1>2, <1>3, <1>4, <1>5 DEF Next

\* An MIO is created with its handle and dropped before it, the last handle takes the
\* cell with it, and a deregistered cell gets no edge.
LEMMA NestedStep ==
  ASSUME IInv, [Next]_vars
  PROVE  Nested'
<1> USE PortFacts DEF IInv, TypeOK, Nested, PortsOf, Runs
<1>1. ASSUME NEW p \in Ports, PortNext(p) PROVE  Nested'
  <2>1. CASE Arrive(p)  BY <2>1 DEF Arrive
  <2>2. CASE NewMio(p)  BY <2>2 DEF NewMio
  <2>3. CASE DropMio(p)  BY <2>3 DEF DropMio, MayDrop
  <2>4. CASE DropHandle(p)  BY <2>4 DEF DropHandle, MayDrop
  <2>5. CASE Finish(p)  BY <2>5 DEF Finish
  <2>6. CASE Begin(p)  BY <2>6 DEF Begin, At
  <2>7. CASE PrepareIo(p)  BY <2>7 DEF PrepareIo, At
  <2>8. CASE IoOk(p)  BY <2>8 DEF IoOk, At
  <2>9. CASE IoErr(p)  BY <2>9 DEF IoErr, At
  <2>10. CASE IoPartial(p)  BY <2>10 DEF IoPartial, At
  <2>11. CASE IoWouldBlock(p)  BY <2>11 DEF IoWouldBlock, At
  <2>12. CASE WaitIo(p)  BY <2>12 DEF WaitIo, At
  <2>13. CASE PollPending(p)  BY <2>13 DEF PollPending
  <2>14. CASE Resume(p)  BY <2>14 DEF Resume, Repoll, Asleep
  <2>15. CASE OtherWake(p)  BY <2>15 DEF OtherWake, Repoll, Asleep
  <2> QED BY <1>1, <2>1, <2>2, <2>3, <2>4, <2>5, <2>6, <2>7, <2>8, <2>9, <2>10, <2>11, <2>12,
           <2>13, <2>14, <2>15 DEF PortNext, IoStep
<1>2. ASSUME NEW s \in Sockets, SocketNext(s) PROVE  Nested'
  <2>1. CASE Register(s)  BY <2>1 DEF Register
  <2>2. CASE Deregister(s)  BY <2>2 DEF Deregister
  <2>3. CASE DeferRemove(s)  BY <2>3 DEF DeferRemove
  <2>4. ASSUME NEW k \in Keys, Insert(s, k) PROVE  Nested'  BY <2>4 DEF Insert
  <2> QED BY <1>2, <2>1, <2>2, <2>3, <2>4 DEF SocketNext
<1>3. ASSUME ReactorNext PROVE  Nested'
  <2>1. CASE LoadShutdown  BY <2>1 DEF LoadShutdown
  <2>2. CASE Poll  BY <2>2 DEF Poll, Polled
  <2>3. CASE LockDispatchers  BY <2>3 DEF LockDispatchers
  <2>4. CASE EventDone  BY <2>4 DEF EventDone
  <2>5. CASE EventsDone  BY <2>5 DEF EventsDone
  <2>6. CASE PushBatch  BY <2>6 DEF PushBatch, Flushed
  <2>7. CASE RemoveSlot  BY <2>7 DEF RemoveSlot
  <2>8. CASE NoneDeferred  BY <2>8 DEF NoneDeferred
  <2>9. CASE SeeShutdown  BY <2>9 DEF SeeShutdown
  <2>10. CASE ReactorExit  BY <2>10 DEF ReactorExit, Flushed
  <2>11. ASSUME NEW e \in events, NextEvent(e) PROVE  Nested'  BY <2>11 DEF NextEvent, Flushed
  <2>12. ASSUME NEW p \in Ports, Notify(p) PROVE  Nested'  BY <2>12 DEF Notify
  <2>13. ASSUME NEW p \in Ports, WakeTask(p) PROVE  Nested'  BY <2>13 DEF WakeTask
  <2>14. ASSUME NEW k \in Keys, PopDeferred(k) PROVE  Nested'  BY <2>14 DEF PopDeferred
  <2> QED BY <1>3, <2>1, <2>2, <2>3, <2>4, <2>5, <2>6, <2>7, <2>8, <2>9, <2>10, <2>11, <2>12,
           <2>13, <2>14 DEF ReactorNext
<1>4. CASE SetShutdown  BY <1>4 DEF SetShutdown
<1>5. CASE UNCHANGED vars  BY <1>5 DEF vars
<1> QED BY <1>1, <1>2, <1>3, <1>4, <1>5 DEF Next

\* Only new_from_waker and del write pointers, each to the slot of its own socket,
\* and a key that changes hands has an empty slot.
LEMMA SlotsStep ==
  ASSUME IInv, [Next]_vars
  PROVE  SlotsExact'
<1> USE PortFacts DEF IInv, TypeOK, SlotsExact, Unlocked, Runs
<1>1. ASSUME NEW p \in Ports, PortNext(p) PROVE  SlotsExact'
  <2>1. CASE Arrive(p)  BY <2>1 DEF Arrive
  <2>2. CASE NewMio(p)
    <3> DEFINE k == key[p[1]]
    <3>1. p \in handles /\ tpc[p] = "none" /\ slot' = [slot EXCEPT ![k][p[2]] = p]
          /\ tpc' = [tpc EXCEPT ![p] = "mio"] /\ UNCHANGED <<key, used>>
      BY <2>2 DEF NewMio
    <3>2. k \in used /\ k \in Keys  BY <3>1 DEF Nested, KeysOwned
    <3>3. \A j \in Keys, d \in Dirs : slot'[j][d] = IF j = k /\ d = p[2] THEN p ELSE slot[j][d]
      BY <3>1, <3>2
    <3>4. ASSUME NEW q \in Ports, tpc'[q] # "none" PROVE  slot'[key'[q[1]]][q[2]] = q
      <4>1. CASE q = p  BY <3>1, <3>2, <3>3, <4>1
      <4>2. CASE q # p
        <5>1. tpc[q] # "none"  BY <3>1, <3>4, <4>2
        <5>2. key[q[1]] \in Keys /\ key[q[1]] # NoKey  BY <5>1 DEF Nested, KeysOwned
        <5>3. ~(key[q[1]] = k /\ q[2] = p[2])  BY <4>2, <5>2 DEF KeysOwned
        <5> QED BY <3>1, <3>3, <5>1, <5>2, <5>3
      <4> QED BY <4>1, <4>2
    <3>5. ASSUME NEW j \in used', NEW d \in Dirs, slot'[j][d] # NoPort
          PROVE  /\ slot'[j][d][2] = d
                 /\ tpc'[slot'[j][d]] # "none"
                 /\ key'[slot'[j][d][1]] = j
      <4>1. j \in used /\ j \in Keys  BY <3>1
      <4>2. CASE j = k /\ d = p[2]  BY <3>1, <3>3, <4>1, <4>2
      <4>3. CASE ~(j = k /\ d = p[2])
        <5>1. slot'[j][d] = slot[j][d] /\ slot[j][d] \in Ports  BY <3>3, <3>5, <4>1, <4>3
        <5> QED BY <3>1, <3>5, <4>1, <5>1
      <4> QED BY <4>2, <4>3
    <3> QED BY <3>4, <3>5
  <2>3. CASE DropMio(p)  BY <2>3 DEF DropMio, MayDrop
  <2>4. CASE DropHandle(p)  BY <2>4 DEF DropHandle, MayDrop
  <2>5. CASE Finish(p)  BY <2>5 DEF Finish
  <2>6. CASE Begin(p)  BY <2>6 DEF Begin, At
  <2>7. CASE PrepareIo(p)  BY <2>7 DEF PrepareIo, At
  <2>8. CASE IoOk(p)  BY <2>8 DEF IoOk, At
  <2>9. CASE IoErr(p)  BY <2>9 DEF IoErr, At
  <2>10. CASE IoPartial(p)  BY <2>10 DEF IoPartial, At
  <2>11. CASE IoWouldBlock(p)  BY <2>11 DEF IoWouldBlock, At
  <2>12. CASE WaitIo(p)  BY <2>12 DEF WaitIo, At
  <2>13. CASE PollPending(p)  BY <2>13 DEF PollPending
  <2>14. CASE Resume(p)  BY <2>14 DEF Resume, Repoll, Asleep
  <2>15. CASE OtherWake(p)  BY <2>15 DEF OtherWake, Repoll, Asleep
  <2> QED BY <1>1, <2>1, <2>2, <2>3, <2>4, <2>5, <2>6, <2>7, <2>8, <2>9, <2>10, <2>11, <2>12,
           <2>13, <2>14, <2>15 DEF PortNext, IoStep
<1>2. ASSUME NEW s \in Sockets, SocketNext(s) PROVE  SlotsExact'
  <2>1. CASE Register(s)  BY <2>1 DEF Register
  <2>2. CASE Deregister(s)  BY <2>2 DEF Deregister
  <2>3. CASE DeferRemove(s)  BY <2>3 DEF DeferRemove, Nested, KeysOwned
  <2>4. ASSUME NEW k \in Keys, Insert(s, k) PROVE  SlotsExact'
    BY <2>4 DEF Insert, Nested, KeysOwned
  <2> QED BY <1>2, <2>1, <2>2, <2>3, <2>4 DEF SocketNext
<1>3. ASSUME ReactorNext PROVE  SlotsExact'
  <2>1. CASE LoadShutdown  BY <2>1 DEF LoadShutdown
  <2>2. CASE Poll  BY <2>2 DEF Poll, Polled
  <2>3. CASE LockDispatchers  BY <2>3 DEF LockDispatchers
  <2>4. CASE EventDone  BY <2>4 DEF EventDone
  <2>5. CASE EventsDone  BY <2>5 DEF EventsDone
  <2>6. CASE PushBatch  BY <2>6 DEF PushBatch, Flushed
  <2>7. CASE RemoveSlot  BY <2>7 DEF RemoveSlot
  <2>8. CASE NoneDeferred  BY <2>8 DEF NoneDeferred
  <2>9. CASE SeeShutdown  BY <2>9 DEF SeeShutdown
  <2>10. CASE ReactorExit  BY <2>10 DEF ReactorExit, Flushed
  <2>11. ASSUME NEW e \in events, NextEvent(e) PROVE  SlotsExact'  BY <2>11 DEF NextEvent, Flushed
  <2>12. ASSUME NEW p \in Ports, Notify(p) PROVE  SlotsExact'  BY <2>12 DEF Notify
  <2>13. ASSUME NEW p \in Ports, WakeTask(p) PROVE  SlotsExact'  BY <2>13 DEF WakeTask
  <2>14. ASSUME NEW k \in Keys, PopDeferred(k) PROVE  SlotsExact'  BY <2>14 DEF PopDeferred
  <2> QED BY <1>3, <2>1, <2>2, <2>3, <2>4, <2>5, <2>6, <2>7, <2>8, <2>9, <2>10, <2>11, <2>12,
           <2>13, <2>14 DEF ReactorNext
<1>4. CASE SetShutdown  BY <1>4 DEF SetShutdown
<1>5. CASE UNCHANGED vars  BY <1>5 DEF vars
<1> QED BY <1>1, <1>2, <1>3, <1>4, <1>5 DEF Next

\* A task leaves io_poll! for sleep in PendingOnce only.
LEMMA AsleepStep ==
  ASSUME IInv, [Next]_vars
  PROVE  Asleep'
<1> USE PortFacts DEF IInv, TypeOK, Asleep, Runs
<1>1. ASSUME NEW p \in Ports, PortNext(p) PROVE  Asleep'
  <2>1. CASE Arrive(p)  BY <2>1 DEF Arrive
  <2>2. CASE NewMio(p)  BY <2>2 DEF NewMio
  <2>3. CASE DropMio(p)  BY <2>3 DEF DropMio, MayDrop, RoundValid
  <2>4. CASE DropHandle(p)  BY <2>4 DEF DropHandle, MayDrop
  <2>5. CASE Finish(p)  BY <2>5 DEF Finish
  <2>6. CASE Begin(p)  BY <2>6 DEF Begin, At
  <2>7. CASE PrepareIo(p)  BY <2>7 DEF PrepareIo, At
  <2>8. CASE IoOk(p)  BY <2>8 DEF IoOk, At
  <2>9. CASE IoErr(p)  BY <2>9 DEF IoErr, At
  <2>10. CASE IoPartial(p)  BY <2>10 DEF IoPartial, At
  <2>11. CASE IoWouldBlock(p)  BY <2>11 DEF IoWouldBlock, At
  <2>12. CASE WaitIo(p)  BY <2>12 DEF WaitIo, At
  <2>13. CASE PollPending(p)  BY <2>13 DEF PollPending
  <2>14. CASE Resume(p)  BY <2>14 DEF Resume, Repoll
  <2>15. CASE OtherWake(p)  BY <2>15 DEF OtherWake, Repoll
  <2> QED BY <1>1, <2>1, <2>2, <2>3, <2>4, <2>5, <2>6, <2>7, <2>8, <2>9, <2>10, <2>11, <2>12,
           <2>13, <2>14, <2>15 DEF PortNext, IoStep
<1>2. ASSUME NEW s \in Sockets, SocketNext(s) PROVE  Asleep'
  <2>1. CASE Register(s)  BY <2>1 DEF Register
  <2>2. CASE Deregister(s)  BY <2>2 DEF Deregister
  <2>3. CASE DeferRemove(s)  BY <2>3 DEF DeferRemove
  <2>4. ASSUME NEW k \in Keys, Insert(s, k) PROVE  Asleep'  BY <2>4 DEF Insert
  <2> QED BY <1>2, <2>1, <2>2, <2>3, <2>4 DEF SocketNext
<1>3. ASSUME ReactorNext PROVE  Asleep'
  <2>1. CASE LoadShutdown  BY <2>1 DEF LoadShutdown
  <2>2. CASE Poll  BY <2>2 DEF Poll, Polled
  <2>3. CASE LockDispatchers  BY <2>3 DEF LockDispatchers
  <2>4. CASE EventDone  BY <2>4 DEF EventDone
  <2>5. CASE EventsDone  BY <2>5 DEF EventsDone
  <2>6. CASE PushBatch  BY <2>6 DEF PushBatch, Flushed
  <2>7. CASE RemoveSlot  BY <2>7 DEF RemoveSlot
  <2>8. CASE NoneDeferred  BY <2>8 DEF NoneDeferred
  <2>9. CASE SeeShutdown  BY <2>9 DEF SeeShutdown
  <2>10. CASE ReactorExit  BY <2>10 DEF ReactorExit, Flushed
  <2>11. ASSUME NEW e \in events, NextEvent(e) PROVE  Asleep'  BY <2>11 DEF NextEvent, Flushed
  <2>12. ASSUME NEW p \in Ports, Notify(p) PROVE  Asleep'  BY <2>12 DEF Notify
  <2>13. ASSUME NEW p \in Ports, WakeTask(p) PROVE  Asleep'  BY <2>13 DEF WakeTask
  <2>14. ASSUME NEW k \in Keys, PopDeferred(k) PROVE  Asleep'  BY <2>14 DEF PopDeferred
  <2> QED BY <1>3, <2>1, <2>2, <2>3, <2>4, <2>5, <2>6, <2>7, <2>8, <2>9, <2>10, <2>11, <2>12,
           <2>13, <2>14 DEF ReactorNext
<1>4. CASE SetShutdown  BY <1>4 DEF SetShutdown
<1>5. CASE UNCHANGED vars  BY <1>5 DEF vars
<1> QED BY <1>1, <1>2, <1>3, <1>4, <1>5 DEF Next

\* Every step keeps the types; the events of poll() carry keys because only registered
\* sockets have edges.
LEMMA TypeStep ==
  ASSUME IInv, [Next]_vars
  PROVE  TypeOK'
<1> USE PortFacts DEF IInv, TypeOK, CellPCs, TaskPCs, TaskStates, ReactorPCs
<1>1. ASSUME NEW p \in Ports, PortNext(p) PROVE  TypeOK'
  <2>1. CASE Arrive(p)  BY <2>1 DEF Arrive
  <2>2. CASE NewMio(p)  BY <2>2 DEF NewMio
  <2>3. CASE DropMio(p)  BY <2>3 DEF DropMio, MayDrop
  <2>4. CASE DropHandle(p)  BY <2>4 DEF DropHandle, MayDrop
  <2>5. CASE Finish(p)  BY <2>5 DEF Finish
  <2>6. CASE Begin(p)  BY <2>6 DEF Begin, At
  <2>7. CASE PrepareIo(p)  BY <2>7 DEF PrepareIo, At
  <2>8. CASE IoOk(p)  BY <2>8 DEF IoOk, At
  <2>9. CASE IoErr(p)  BY <2>9 DEF IoErr, At
  <2>10. CASE IoPartial(p)  BY <2>10 DEF IoPartial, At
  <2>11. CASE IoWouldBlock(p)  BY <2>11 DEF IoWouldBlock, At
  <2>12. CASE WaitIo(p)  BY <2>12 DEF WaitIo, At
  <2>13. CASE PollPending(p)  BY <2>13 DEF PollPending
  <2>14. CASE Resume(p)  BY <2>14 DEF Resume, Repoll
  <2>15. CASE OtherWake(p)  BY <2>15 DEF OtherWake, Repoll
  <2> QED BY <1>1, <2>1, <2>2, <2>3, <2>4, <2>5, <2>6, <2>7, <2>8, <2>9, <2>10, <2>11, <2>12,
           <2>13, <2>14, <2>15 DEF PortNext, IoStep
<1>2. ASSUME NEW s \in Sockets, SocketNext(s) PROVE  TypeOK'
  <2>1. CASE Register(s)
    <3>1. edge' \in [Ports -> BOOLEAN]  BY <2>1, Zenon DEF Register
    <3>2. handles' \subseteq Ports  BY <2>1 DEF Register, PortsOf
    <3> QED BY <2>1, <3>1, <3>2 DEF Register
  <2>2. CASE Deregister(s)  BY <2>2 DEF Deregister
  <2>3. CASE DeferRemove(s)
    <3>1. avail' \in [Ports -> BOOLEAN]  BY <2>3 DEF DeferRemove
    <3>2. key[s] \in Keys  BY <2>3 DEF DeferRemove, KeysOwned
    <3> QED BY <2>3, <3>1, <3>2 DEF DeferRemove
  <2>4. ASSUME NEW k \in Keys, Insert(s, k) PROVE  TypeOK'  BY <2>4 DEF Insert
  <2> QED BY <1>2, <2>1, <2>2, <2>3, <2>4 DEF SocketNext
<1>3. ASSUME ReactorNext PROVE  TypeOK'
  <2>1. CASE LoadShutdown  BY <2>1 DEF LoadShutdown
  <2>2. CASE Poll
    <3>1. Polled \subseteq [sock : Sockets, key : Keys, ready : SUBSET Dirs]
      <4>1. ASSUME NEW t \in Sockets, \E p \in PortsOf(t) : edge[p] PROVE  key[t] \in Keys
        BY <4>1 DEF Nested, KeysOwned, PortsOf
      <4>2. ASSUME NEW e \in Polled
            PROVE  e \in [sock : Sockets, key : Keys, ready : SUBSET Dirs]
        <5>1. PICK t \in Sockets :
                /\ \E p \in PortsOf(t) : edge[p]
                /\ e = [sock |-> t, key |-> key[t],
                        ready |-> {d \in Dirs : <<t, d>> \in Ports /\ avail[<<t, d>>]}]
          BY DEF Polled
        <5> QED BY <4>1, <5>1
      <4> QED BY <4>2
    <3>2. edge' \in [Ports -> BOOLEAN]  BY <2>2 DEF Poll
    <3> QED BY <2>2, <3>1, <3>2 DEF Poll
  <2>3. CASE LockDispatchers  BY <2>3 DEF LockDispatchers
  <2>4. CASE EventDone  BY <2>4 DEF EventDone
  <2>5. CASE EventsDone  BY <2>5, BatchAssumption DEF EventsDone
  <2>6. CASE PushBatch  BY <2>6 DEF PushBatch, Flushed
  <2>7. CASE RemoveSlot  BY <2>7 DEF RemoveSlot
  <2>8. CASE NoneDeferred  BY <2>8 DEF NoneDeferred
  <2>9. CASE SeeShutdown  BY <2>9 DEF SeeShutdown
  <2>10. CASE ReactorExit  BY <2>10 DEF ReactorExit, Flushed
  <2>11. ASSUME NEW e \in events, NextEvent(e) PROVE  TypeOK'
    <3>1. seen' \in 0 .. BatchEvery - 1  BY <2>11, BatchAssumption DEF NextEvent
    <3>2. cur' \subseteq Ports
      <4>1. \A d \in e.ready : slot[e.key][d] \in Ports \cup {NoPort}  OBVIOUS
      <4> QED BY <2>11, <4>1 DEF NextEvent
    <3>3. task' \in [Ports -> TaskStates]  BY <2>11 DEF NextEvent, Flushed
    <3> QED BY <2>11, <3>1, <3>2, <3>3 DEF NextEvent
  <2>12. ASSUME NEW p \in Ports, Notify(p) PROVE  TypeOK'  BY <2>12 DEF Notify
  <2>13. ASSUME NEW p \in Ports, WakeTask(p) PROVE  TypeOK'  BY <2>13 DEF WakeTask
  <2>14. ASSUME NEW k \in Keys, PopDeferred(k) PROVE  TypeOK'  BY <2>14 DEF PopDeferred
  <2> QED BY <1>3, <2>1, <2>2, <2>3, <2>4, <2>5, <2>6, <2>7, <2>8, <2>9, <2>10, <2>11, <2>12,
           <2>13, <2>14 DEF ReactorNext
<1>4. CASE SetShutdown  BY <1>4 DEF SetShutdown
<1>5. CASE UNCHANGED vars  BY <1>5 DEF vars
<1> QED BY <1>1, <1>2, <1>3, <1>4, <1>5 DEF Next

\* While the reactor holds the mutex no dispatcher is freed, and while it has events
\* no slot is removed.
LEMMA RoundStep ==
  ASSUME IInv, [Next]_vars
  PROVE  RoundValid'
<1> USE PortFacts DEF IInv, TypeOK, RoundValid, Unlocked, Runs
<1>1. ASSUME NEW p \in Ports, PortNext(p) PROVE  RoundValid'
  <2>1. CASE Arrive(p)  BY <2>1 DEF Arrive
  <2>2. CASE NewMio(p)  BY <2>2 DEF NewMio
  <2>3. CASE DropMio(p)  BY <2>3 DEF DropMio, MayDrop
  <2>4. CASE DropHandle(p)  BY <2>4 DEF DropHandle, MayDrop
  <2>5. CASE Finish(p)  BY <2>5 DEF Finish
  <2>6. CASE Begin(p)  BY <2>6 DEF Begin, At
  <2>7. CASE PrepareIo(p)  BY <2>7 DEF PrepareIo, At
  <2>8. CASE IoOk(p)  BY <2>8 DEF IoOk, At
  <2>9. CASE IoErr(p)  BY <2>9 DEF IoErr, At
  <2>10. CASE IoPartial(p)  BY <2>10 DEF IoPartial, At
  <2>11. CASE IoWouldBlock(p)  BY <2>11 DEF IoWouldBlock, At
  <2>12. CASE WaitIo(p)  BY <2>12 DEF WaitIo, At
  <2>13. CASE PollPending(p)  BY <2>13 DEF PollPending
  <2>14. CASE Resume(p)  BY <2>14 DEF Resume, Repoll, Asleep
  <2>15. CASE OtherWake(p)  BY <2>15 DEF OtherWake, Repoll, Asleep
  <2> QED BY <1>1, <2>1, <2>2, <2>3, <2>4, <2>5, <2>6, <2>7, <2>8, <2>9, <2>10, <2>11, <2>12,
           <2>13, <2>14, <2>15 DEF PortNext, IoStep
<1>2. ASSUME NEW s \in Sockets, SocketNext(s) PROVE  RoundValid'
  <2>1. CASE Register(s)  BY <2>1 DEF Register
  <2>2. CASE Deregister(s)  BY <2>2 DEF Deregister
  <2>3. CASE DeferRemove(s)  BY <2>3 DEF DeferRemove, KeysOwned
  <2>4. ASSUME NEW k \in Keys, Insert(s, k) PROVE  RoundValid'  BY <2>4 DEF Insert, KeysOwned
  <2> QED BY <1>2, <2>1, <2>2, <2>3, <2>4 DEF SocketNext
<1>3. ASSUME ReactorNext PROVE  RoundValid'
  <2>1. CASE LoadShutdown  BY <2>1 DEF LoadShutdown
  <2>2. CASE Poll  BY <2>2 DEF Poll, Polled, KeysOwned, Nested, PortsOf
  <2>3. CASE LockDispatchers  BY <2>3 DEF LockDispatchers
  <2>4. CASE EventDone  BY <2>4 DEF EventDone
  <2>5. CASE EventsDone  BY <2>5 DEF EventsDone
  <2>6. CASE PushBatch  BY <2>6 DEF PushBatch, Flushed
  <2>7. CASE RemoveSlot  BY <2>7 DEF RemoveSlot, KeysOwned
  <2>8. CASE NoneDeferred  BY <2>8 DEF NoneDeferred
  <2>9. CASE SeeShutdown  BY <2>9 DEF SeeShutdown
  <2>10. CASE ReactorExit  BY <2>10 DEF ReactorExit, Flushed
  <2>11. ASSUME NEW e \in events, NextEvent(e) PROVE  RoundValid'
    BY <2>11 DEF NextEvent, Flushed, SlotsExact
  <2>12. ASSUME NEW p \in Ports, Notify(p) PROVE  RoundValid'  BY <2>12 DEF Notify
  <2>13. ASSUME NEW p \in Ports, WakeTask(p) PROVE  RoundValid'  BY <2>13 DEF WakeTask
  <2>14. ASSUME NEW k \in Keys, PopDeferred(k) PROVE  RoundValid'  BY <2>14 DEF PopDeferred
  <2> QED BY <1>3, <2>1, <2>2, <2>3, <2>4, <2>5, <2>6, <2>7, <2>8, <2>9, <2>10, <2>11, <2>12,
           <2>13, <2>14 DEF ReactorNext
<1>4. CASE SetShutdown  BY <1>4 DEF SetShutdown
<1>5. CASE UNCHANGED vars  BY <1>5 DEF vars
<1> QED BY <1>1, <1>2, <1>3, <1>4, <1>5 DEF Next

\* notify() after wait_io() is followed by the wake of the task.
LEMMA NoticedStep ==
  ASSUME IInv, [Next]_vars
  PROVE  Noticed'
<1> USE PortFacts DEF IInv, TypeOK, Noticed, Runs, IsFirst, IDLE, MUTED, NOTIFIED
<1>1. ASSUME NEW p \in Ports, PortNext(p) PROVE  Noticed'
  <2>1. CASE Arrive(p)  BY <2>1 DEF Arrive
  <2>2. CASE NewMio(p)  BY <2>2 DEF NewMio
  <2>3. CASE DropMio(p)  BY <2>3 DEF DropMio, MayDrop
  <2>4. CASE DropHandle(p)  BY <2>4 DEF DropHandle, MayDrop
  <2>5. CASE Finish(p)  BY <2>5 DEF Finish
  <2>6. CASE Begin(p)  BY <2>6 DEF Begin, At
  <2>7. CASE PrepareIo(p)  BY <2>7 DEF PrepareIo, At
  <2>8. CASE IoOk(p)  BY <2>8 DEF IoOk, At
  <2>9. CASE IoErr(p)  BY <2>9 DEF IoErr, At
  <2>10. CASE IoPartial(p)  BY <2>10 DEF IoPartial, At
  <2>11. CASE IoWouldBlock(p)  BY <2>11 DEF IoWouldBlock, At
  <2>12. CASE WaitIo(p)  BY <2>12 DEF WaitIo, At
  <2>13. CASE PollPending(p)  BY <2>13 DEF PollPending
  <2>14. CASE Resume(p)  BY <2>14 DEF Resume, Repoll
  <2>15. CASE OtherWake(p)  BY <2>15 DEF OtherWake, Repoll
  <2> QED BY <1>1, <2>1, <2>2, <2>3, <2>4, <2>5, <2>6, <2>7, <2>8, <2>9, <2>10, <2>11, <2>12,
           <2>13, <2>14, <2>15 DEF PortNext, IoStep
<1>2. ASSUME NEW s \in Sockets, SocketNext(s) PROVE  Noticed'
  <2>1. CASE Register(s)  BY <2>1 DEF Register
  <2>2. CASE Deregister(s)  BY <2>2 DEF Deregister
  <2>3. CASE DeferRemove(s)  BY <2>3 DEF DeferRemove
  <2>4. ASSUME NEW k \in Keys, Insert(s, k) PROVE  Noticed'  BY <2>4 DEF Insert
  <2> QED BY <1>2, <2>1, <2>2, <2>3, <2>4 DEF SocketNext
<1>3. ASSUME ReactorNext PROVE  Noticed'
  <2>1. CASE LoadShutdown  BY <2>1 DEF LoadShutdown
  <2>2. CASE Poll  BY <2>2 DEF Poll, Polled
  <2>3. CASE LockDispatchers  BY <2>3 DEF LockDispatchers
  <2>4. CASE EventDone  BY <2>4 DEF EventDone
  <2>5. CASE EventsDone  BY <2>5 DEF EventsDone
  <2>6. CASE PushBatch  BY <2>6 DEF PushBatch, Flushed
  <2>7. CASE RemoveSlot  BY <2>7 DEF RemoveSlot
  <2>8. CASE NoneDeferred  BY <2>8 DEF NoneDeferred
  <2>9. CASE SeeShutdown  BY <2>9 DEF SeeShutdown
  <2>10. CASE ReactorExit  BY <2>10 DEF ReactorExit, Flushed
  <2>11. ASSUME NEW e \in events, NextEvent(e) PROVE  Noticed'  BY <2>11 DEF NextEvent, Flushed
  <2>12. ASSUME NEW p \in Ports, Notify(p) PROVE  Noticed'  BY <2>12 DEF Notify
  <2>13. ASSUME NEW p \in Ports, WakeTask(p) PROVE  Noticed'
    <3> SUFFICES ASSUME NEW q \in Ports, tpc'[q] = "pend"
                 PROVE  /\ status'[q] # MUTED
                        /\ status'[q] = NOTIFIED /\ ~shutdown' =>
                             woken'[q] \/ task'[q] \in {"batched", "queued"}
      OBVIOUS
    <3>1. CASE q = p  BY <2>13, <3>1, WokenByWake DEF WakeTask
    <3>2. CASE q # p
      <4>1. ~IsFirst(q)  BY <2>13, <3>2, OneIsFirst DEF WakeTask
      <4>2. woken'[q] = woken[q] /\ task'[q] = task[q]  BY <2>13, <3>2 DEF WakeTask
      <4> QED BY <2>13, <4>1, <4>2 DEF WakeTask
    <3> QED BY <3>1, <3>2
  <2>14. ASSUME NEW k \in Keys, PopDeferred(k) PROVE  Noticed'  BY <2>14 DEF PopDeferred
  <2> QED BY <1>3, <2>1, <2>2, <2>3, <2>4, <2>5, <2>6, <2>7, <2>8, <2>9, <2>10, <2>11, <2>12,
           <2>13, <2>14 DEF ReactorNext
<1>4. CASE SetShutdown  BY <1>4 DEF SetShutdown
<1>5. CASE UNCHANGED vars  BY <1>5 DEF vars
<1> QED BY <1>1, <1>2, <1>3, <1>4, <1>5 DEF Next

\* An edge is handed on from epoll to the event, to the dispatcher and to the task,
\* and an I/O call that would block comes after prepare_io().
LEMMA ReadyStep ==
  ASSUME IInv, [Next]_vars
  PROVE  NoLostReadiness'
<1> USE PortFacts DEF IInv, TypeOK, NoLostReadiness, OnItsWay, Runs, IDLE, MUTED, NOTIFIED
<1>1. ASSUME NEW p \in Ports, PortNext(p) PROVE  NoLostReadiness'
  <2>1. CASE Arrive(p)  BY <2>1 DEF Arrive, Nested
  <2>2. CASE NewMio(p)  BY <2>2 DEF NewMio
  <2>3. CASE DropMio(p)  BY <2>3 DEF DropMio, MayDrop
  <2>4. CASE DropHandle(p)  BY <2>4 DEF DropHandle, MayDrop
  <2>5. CASE Finish(p)  BY <2>5 DEF Finish
  <2>6. CASE Begin(p)  BY <2>6 DEF Begin, At
  <2>7. CASE PrepareIo(p)  BY <2>7 DEF PrepareIo, At
  <2>8. CASE IoOk(p)  BY <2>8 DEF IoOk, At
  <2>9. CASE IoErr(p)  BY <2>9 DEF IoErr, At
  <2>10. CASE IoPartial(p)  BY <2>10 DEF IoPartial, At
  <2>11. CASE IoWouldBlock(p)  BY <2>11 DEF IoWouldBlock, At
  <2>12. CASE WaitIo(p)  BY <2>12 DEF WaitIo, At
  <2>13. CASE PollPending(p)  BY <2>13 DEF PollPending
  <2>14. CASE Resume(p)  BY <2>14 DEF Resume, Repoll
  <2>15. CASE OtherWake(p)  BY <2>15 DEF OtherWake, Repoll
  <2> QED BY <1>1, <2>1, <2>2, <2>3, <2>4, <2>5, <2>6, <2>7, <2>8, <2>9, <2>10, <2>11, <2>12,
           <2>13, <2>14, <2>15 DEF PortNext, IoStep
<1>2. ASSUME NEW s \in Sockets, SocketNext(s) PROVE  NoLostReadiness'
  <2>1. CASE Register(s)  BY <2>1 DEF Register, Nested, PortsOf
  <2>2. CASE Deregister(s)  BY <2>2 DEF Deregister, Nested, PortsOf
  <2>3. CASE DeferRemove(s)  BY <2>3 DEF DeferRemove
  <2>4. ASSUME NEW k \in Keys, Insert(s, k) PROVE  NoLostReadiness'  BY <2>4 DEF Insert
  <2> QED BY <1>2, <2>1, <2>2, <2>3, <2>4 DEF SocketNext
<1>3. ASSUME ReactorNext PROVE  NoLostReadiness'
  <2>1. CASE LoadShutdown  BY <2>1 DEF LoadShutdown
  <2>2. CASE Poll
    <3> SUFFICES ASSUME NEW p \in Ports, avail'[p], ~shutdown', tpc'[p] \in {"wait", "pend"},
                        edge[p]
                 PROVE  \E e \in events' : e.sock = p[1] /\ p[2] \in e.ready
      BY <2>2 DEF Poll, RoundValid
    <3> DEFINE e == [sock |-> p[1], key |-> key[p[1]],
                     ready |-> {d \in Dirs : <<p[1], d>> \in Ports /\ avail[<<p[1], d>>]}]
    <3>1. p = <<p[1], p[2]>>  BY DEF Ports
    <3>2. p[2] \in e.ready  BY <2>2, <3>1 DEF Poll
    <3>3. e \in Polled  BY <2>2 DEF Poll, Polled, PortsOf
    <3> QED BY <2>2, <3>2, <3>3 DEF Poll
  <2>3. CASE LockDispatchers  BY <2>3 DEF LockDispatchers
  <2>4. CASE EventDone  BY <2>4 DEF EventDone
  <2>5. CASE EventsDone  BY <2>5 DEF EventsDone
  <2>6. CASE PushBatch  BY <2>6 DEF PushBatch, Flushed
  <2>7. CASE RemoveSlot  BY <2>7 DEF RemoveSlot
  <2>8. CASE NoneDeferred  BY <2>8 DEF NoneDeferred
  <2>9. CASE SeeShutdown  BY <2>9 DEF SeeShutdown
  <2>10. CASE ReactorExit  BY <2>10 DEF ReactorExit, Flushed
  <2>11. ASSUME NEW e \in events, NextEvent(e) PROVE  NoLostReadiness'
    BY <2>11 DEF NextEvent, Flushed, Nested, KeysOwned, SlotsExact, RoundValid
  <2>12. ASSUME NEW p \in Ports, Notify(p) PROVE  NoLostReadiness'  BY <2>12 DEF Notify, Noticed
  <2>13. ASSUME NEW p \in Ports, WakeTask(p) PROVE  NoLostReadiness'
    <3> SUFFICES ASSUME NEW q \in Ports, avail'[q], ~shutdown', tpc'[q] \in {"wait", "pend"}
                 PROVE  OnItsWay(q)' \/ (tpc'[q] = "wait" /\ status'[q] = NOTIFIED)
      OBVIOUS
    <3>1. CASE q = p  BY <2>13, <3>1, WokenByWake
    <3>2. CASE q # p  BY <2>13, <3>2 DEF WakeTask
    <3> QED BY <3>1, <3>2
  <2>14. ASSUME NEW k \in Keys, PopDeferred(k) PROVE  NoLostReadiness'  BY <2>14 DEF PopDeferred
  <2> QED BY <1>3, <2>1, <2>2, <2>3, <2>4, <2>5, <2>6, <2>7, <2>8, <2>9, <2>10, <2>11, <2>12,
           <2>13, <2>14 DEF ReactorNext
<1>4. CASE SetShutdown  BY <1>4 DEF SetShutdown
<1>5. CASE UNCHANGED vars  BY <1>5 DEF vars
<1> QED BY <1>1, <1>2, <1>3, <1>4, <1>5 DEF Next

LEMMA InitInv == Init => IInv
<1> SUFFICES ASSUME Init PROVE  IInv  OBVIOUS
<1> USE DEF Init
<1>1. TypeOK
  <2>1. slot \in [Keys -> [Dirs -> Ports \cup {NoPort}]]  OBVIOUS
  <2>2. seen \in 0 .. BatchEvery - 1  BY BatchAssumption
  <2>3. cell \in [Sockets -> CellPCs] /\ rpc \in ReactorPCs  BY DEF CellPCs, ReactorPCs
  <2>4. tpc \in [Ports -> TaskPCs] /\ task \in [Ports -> TaskStates]
    BY DEF TaskPCs, TaskStates
  <2>5. avail \in [Ports -> BOOLEAN] /\ edge \in [Ports -> BOOLEAN]
        /\ woken \in [Ports -> BOOLEAN]
    OBVIOUS
  <2>6. shutdown \in BOOLEAN  OBVIOUS
  <2> QED BY <2>1, <2>2, <2>3, <2>4, <2>5, <2>6 DEF TypeOK
<1>2. KeysOwned /\ Nested  BY DEF KeysOwned, Nested
<1>3. SlotsExact /\ RoundValid  BY DEF SlotsExact, RoundValid
<1>4. Asleep /\ Noticed /\ NoLostReadiness  BY DEF Asleep, Noticed, NoLostReadiness
<1> QED BY <1>1, <1>2, <1>3, <1>4 DEF IInv

\* The inductive invariant holds for any number of sockets, directions and keys,
\* whenever handles, MIOs and cells are created and dropped.
THEOREM Invariance == Spec => []IInv
<1>1. IInv /\ [Next]_vars => IInv'
  BY TypeStep, KeysStep, NestedStep, SlotsStep, RoundStep, AsleepStep, NoticedStep,
     ReadyStep DEF IInv
<1> QED BY InitInv, <1>1, PTL DEF Spec

\* Type correctness.
THEOREM TypeCorrect == Spec => []TypeOK
<1>1. IInv => TypeOK  BY DEF IInv
<1> QED BY Invariance, <1>1, PTL

\* get_unchecked of the event loop finds the slot of the event's own socket.
THEOREM EventSlots == Spec => []EventsFindTheirSlot
<1>1. IInv => EventsFindTheirSlot  BY DEF IInv, RoundValid, EventsFindTheirSlot
<1> QED BY Invariance, <1>1, PTL

\* notify() never follows a pointer to a dispatcher that del() has freed.
THEOREM DispatchersAlive == Spec => []DispatcherAlive
<1>1. IInv => DispatcherAlive  BY DEF IInv, RoundValid, SlotsExact, DispatcherAlive
<1> QED BY Invariance, <1>1, PTL

\* Every slab.remove of the reactor finds its key in use, no socket's, and empty.
THEOREM RemovalsValid == Spec => []RemovalIsValid
<1>1. ASSUME IInv, NEW k \in deferred_remove \cup ({removing} \ {NoKey})
      PROVE  /\ k \in used
             /\ \A s \in Sockets : key[s] # k
             /\ \A d \in Dirs : slot[k][d] = NoPort
  <2>1. k \in used /\ k # NoKey  BY <1>1, PortFacts DEF IInv, TypeOK, KeysOwned
  <2>2. \A s \in Sockets : key[s] # k  BY <1>1, <2>1 DEF IInv, KeysOwned
  <2>3. ASSUME NEW d \in Dirs, slot[k][d] # NoPort PROVE  FALSE
    <3>1. slot[k][d] \in Ports  BY <1>1, <2>1, <2>3 DEF IInv, TypeOK
    <3> QED BY <1>1, <2>1, <2>2, <2>3, <3>1, PortFacts DEF IInv, SlotsExact
  <2> QED BY <2>1, <2>2, <2>3
<1>2. IInv => RemovalIsValid  BY <1>1 DEF RemovalIsValid
<1> QED BY Invariance, <1>2, PTL

\* No order of arrivals, I/O calls, wait_io() and notify() loses an edge.
THEOREM ReadinessIsKept == Spec => []NoLostReadiness
<1>1. IInv => NoLostReadiness  BY DEF IInv
<1> QED BY Invariance, <1>1, PTL
=============================================================================
