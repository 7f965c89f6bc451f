---------------------------- MODULE WorkerProofs ----------------------------
(***************************************************************************)
(* Proofs about module Worker: the lemmas that the comment of epoch.rs     *)
(* argues for informally, for any number of workers and producers.         *)
(***************************************************************************)
EXTENDS Worker, TLAPS, FiniteSetTheorems, SequenceTheorems

USE NAssumption, EpochModAssumption, BoundsAssumption
USE DEF epochVars, oldVars, stealVars, notify, taskVars

\* The workers that count as active are finitely many, and no more than N.
LEMMA ActiveCard ==
  ASSUME IInv
  PROVE  /\ IsFiniteSet(ActiveWorkers)
         /\ active = Cardinality(ActiveWorkers)
         /\ \A w \in Workers : pc[w] \in ActivePCs => active >= 1
         /\ \A w \in Workers : pc[w] \notin ActivePCs => active < N
<1>1. IsFiniteSet(Workers) /\ Cardinality(Workers) = N
  BY FS_Interval DEF Workers
<1>2. ActiveWorkers \subseteq Workers  BY DEF ActiveWorkers
<1>3. IsFiniteSet(ActiveWorkers)  BY <1>1, <1>2, FS_Subset
<1>4. active = Cardinality(ActiveWorkers) /\ active \in Nat
  BY <1>3, FS_CardinalityType DEF IInv, ActiveExact, ActiveWorkers
<1>5. ASSUME NEW w \in Workers, pc[w] \in ActivePCs PROVE active >= 1
  <2>1. ActiveWorkers # {}  BY <1>5 DEF ActiveWorkers
  <2> QED BY <1>3, <1>4, <2>1, FS_EmptySet
<1>6. ASSUME NEW w \in Workers, pc[w] \notin ActivePCs PROVE active < N
  <2>1. ActiveWorkers \subseteq Workers /\ ActiveWorkers # Workers  BY <1>6 DEF
        ActiveWorkers
  <2> QED BY <1>1, <1>4, <2>1, FS_Subset
<1> QED BY <1>3, <1>4, <1>5, <1>6

\* Lemma A: only set_active() takes the count from 0, and it calls unpark_all().
LEMMA LemmaAStep ==
  ASSUME IInv, [Next]_vars
  PROVE  LemmaA'
<1>0. /\ Workers \subseteq Threads
      /\ pc \in [Workers -> WorkerPCs]
      /\ npc \in [Threads -> NotifyPCs]
      /\ active \in 0 .. N
      /\ LemmaA
      /\ Quiet
      /\ OldStatus
  BY DEF IInv, TypeOK, Threads
<1> USE <1>0 DEF LemmaA, Quiet, OldStatus
<1>1. ASSUME NEW w \in Workers, LoopStep(w) PROVE  LemmaA'
  <2>1. CASE Drain(w)  BY <2>1 DEF Drain, Take, NoneLeft, Goto
  <2>2. CASE SetInactive(w)
    <3>1. active >= 1  BY <2>2, ActiveCard DEF SetInactive, ActivePCs
    <3> QED BY <2>2, <3>1 DEF SetInactive, Goto, StealOrRecheck
  <2>3. CASE StealPop(w)  BY <2>3 DEF StealPop, Take, StealFailed, Goto
  <2>4. CASE Recheck(w)  BY <2>4 DEF Recheck, Take, NoneLeft, Goto
  <2>5. CASE WaitNextEpoch(w)  BY <2>5 DEF WaitNextEpoch, Goto, Current
  <2>6. CASE Park(w)  BY <2>6 DEF Park, MayPark, Goto, Current
  <2>7. CASE UpdateStatus(w)  BY <2>7 DEF UpdateStatus, Remember, Goto, StealOrRecheck
  <2>8. CASE Repop(w)  BY <2>8 DEF Repop, Take, NoneLeft, Goto, StealOrRecheck
  <2>9. CASE SetActive(w)  BY <2>9 DEF SetActive, Remember, Goto
  <2>10. CASE PollShutdown(w)  BY <2>10 DEF PollShutdown, Polling
  <2>11. CASE PollReturns(w)  BY <2>11 DEF PollReturns, Polling, Goto
  <2>12. ASSUME NEW v \in Workers, StealHint(w, v) PROVE  LemmaA'
    BY <2>12 DEF StealHint, StealFailed, Goto
  <2> QED BY <1>1, <2>1, <2>2, <2>3, <2>4, <2>5, <2>6, <2>7, <2>8, <2>9, <2>10, <2>11,
        <2>12 DEF LoopStep
<1>2. ASSUME NEW w \in Workers, PollOp(w) PROVE  LemmaA'
  <2>1. CASE ShutdownAsync(w)  BY <2>1 DEF ShutdownAsync, Polling
  <2>2. ASSUME NEW t \in Tasks, SpawnSelf(w, t) PROVE  LemmaA'
    BY <2>2 DEF SpawnSelf, Polling, NewTask
  <2>3. ASSUME NEW t \in Tasks, NEW v \in Workers, SpawnOther(w, t, v) PROVE  LemmaA'
    BY <2>3 DEF SpawnOther, Polling, NewTask
  <2>4. CASE PollPanics(w)  BY <2>4 DEF PollPanics, Polling, Goto
  <2> QED BY <1>2, <2>1, <2>2, <2>3, <2>4 DEF PollOp
<1>3. ASSUME NEW x \in Threads, NotifyStep(x) PROVE  LemmaA'
  <2>1. CASE NextEpoch(x)  BY <2>1 DEF NextEpoch, Since
  <2>2. CASE UnparkAll(x)  BY <2>2 DEF UnparkAll
  <2>3. ASSUME NEW v \in Workers, Push(x, v) PROVE  LemmaA'
    BY <2>3 DEF Push, IsNext, AfterTarget
  <2>4. ASSUME NEW v \in Workers, LoadFlag(x, v) PROVE  LemmaA'
    BY <2>4 DEF LoadFlag, IsNext, AfterTarget
  <2> QED BY <1>3, <2>1, <2>2, <2>3, <2>4 DEF NotifyStep
<1>4. ASSUME NEW p \in Producers, NEW t \in Tasks, Wake(p, t) PROVE  LemmaA'
  BY <1>4 DEF Wake
<1>5. CASE UNCHANGED vars  BY <1>5 DEF vars
<1> QED BY <1>1, <1>2, <1>3, <1>4, <1>5 DEF Next

\* Lemma D.  A worker parks only on the status it read before its recheck.  If a
\* task has come since, its next_epoch() is still due, or has changed the epoch:
\* the counter returns to its old value only after EpochMod calls, when validate
\* no longer lets the worker park.
LEMMA NoLostStep ==
  ASSUME IInv, [Next]_vars
  PROVE  NoLostWakeup'
<1>0. /\ Workers \subseteq Threads
      /\ pc \in [Workers -> WorkerPCs]
      /\ npc \in [Threads -> NotifyPCs]
      /\ queue \in [Workers -> Seq(Items)]
      /\ since \in [Workers -> 0 .. EpochMod]
      /\ old_epoch \in [Workers -> 0 .. EpochMod - 1]
      /\ epoch \in 0 .. EpochMod - 1
      /\ LemmaA
      /\ Quiet
      /\ OldStatus
      /\ Watched
      /\ NoLostWakeup
  BY DEF IInv, TypeOK, Threads
<1> USE <1>0 DEF LemmaA, Quiet, Watched, NoLostWakeup
<1>1. ASSUME NEW w \in Workers, LoopStep(w) PROVE  NoLostWakeup'
  <2>1. CASE Drain(w)  BY <2>1 DEF Drain, Take, NoneLeft, Goto
  <2>2. CASE SetInactive(w)  BY <2>2 DEF SetInactive, Remember, Goto, StealOrRecheck
  <2>3. CASE StealPop(w)  BY <2>3 DEF StealPop, Take, StealFailed, Goto
  <2>4. CASE Recheck(w)  BY <2>4 DEF Recheck, Take, NoneLeft, Goto
  <2>5. CASE WaitNextEpoch(w)  BY <2>5 DEF WaitNextEpoch, Goto, Current
  <2>6. CASE Park(w)
    <3>1. CASE MayPark(w)
      <4>1. since[w] = 0  BY <2>6, <3>1 DEF Park, MayPark, Current, OldStatus, Advance,
            WaitPCs
      <4>2. queue[w] # <<>> => \E x \in Threads : npc[x] \in {"check", "push", "epoch"}
        BY <2>6, <4>1 DEF Park
      <4> QED BY <2>6, <4>2 DEF Park, Goto
    <3>2. CASE ~MayPark(w)  BY <2>6, <3>2 DEF Park, Goto
    <3> QED BY <3>1, <3>2
  <2>7. CASE UpdateStatus(w)  BY <2>7 DEF UpdateStatus, Remember, Goto, StealOrRecheck
  <2>8. CASE Repop(w)  BY <2>8 DEF Repop, Take, NoneLeft, Goto, StealOrRecheck
  <2>9. CASE SetActive(w)  BY <2>9 DEF SetActive, Remember, Goto
  <2>10. CASE PollShutdown(w)  BY <2>10 DEF PollShutdown, Polling
  <2>11. CASE PollReturns(w)  BY <2>11 DEF PollReturns, Polling, Goto
  <2>12. ASSUME NEW v \in Workers, StealHint(w, v) PROVE  NoLostWakeup'
    BY <2>12 DEF StealHint, StealFailed, Goto
  <2> QED BY <1>1, <2>1, <2>2, <2>3, <2>4, <2>5, <2>6, <2>7, <2>8, <2>9, <2>10, <2>11,
        <2>12 DEF LoopStep
<1>2. ASSUME NEW w \in Workers, PollOp(w) PROVE  NoLostWakeup'
  <2>1. CASE ShutdownAsync(w)  BY <2>1 DEF ShutdownAsync, Polling
  <2>2. ASSUME NEW t \in Tasks, SpawnSelf(w, t) PROVE  NoLostWakeup'
    BY <2>2 DEF SpawnSelf, Polling, NewTask
  <2>3. ASSUME NEW t \in Tasks, NEW v \in Workers, SpawnOther(w, t, v) PROVE  NoLostWakeup'
    BY <2>3 DEF SpawnOther, Polling, NewTask
  <2>4. CASE PollPanics(w)  BY <2>4 DEF PollPanics, Polling, Goto
  <2> QED BY <1>2, <2>1, <2>2, <2>3, <2>4 DEF PollOp
<1>3. ASSUME NEW x \in Threads, NotifyStep(x) PROVE  NoLostWakeup'
  <2>1. CASE NextEpoch(x)  BY <2>1 DEF NextEpoch, Since
  <2>2. CASE UnparkAll(x)  BY <2>2 DEF UnparkAll
  <2>3. ASSUME NEW v \in Workers, Push(x, v) PROVE  NoLostWakeup'
    BY <2>3 DEF Push, IsNext, AfterTarget
  <2>4. ASSUME NEW v \in Workers, LoadFlag(x, v) PROVE  NoLostWakeup'
    BY <2>4 DEF LoadFlag, IsNext, AfterTarget
  <2> QED BY <1>3, <2>1, <2>2, <2>3, <2>4 DEF NotifyStep
<1>4. ASSUME NEW p \in Producers, NEW t \in Tasks, Wake(p, t) PROVE  NoLostWakeup'
  BY <1>4 DEF Wake
<1>5. CASE UNCHANGED vars  BY <1>5 DEF vars
<1> QED BY <1>1, <1>2, <1>3, <1>4, <1>5 DEF Next

\* A push that follows the recheck is followed by a next_epoch().
LEMMA WatchedStep ==
  ASSUME IInv, [Next]_vars
  PROVE  Watched'
<1>0. /\ Workers \subseteq Threads
      /\ pc \in [Workers -> WorkerPCs]
      /\ npc \in [Threads -> NotifyPCs]
      /\ queue \in [Workers -> Seq(Items)]
      /\ since \in [Workers -> 0 .. EpochMod]
      /\ Quiet
      /\ Watched
  BY DEF IInv, TypeOK, Threads
<1> USE <1>0 DEF Quiet, Watched, WaitPCs
<1>1. ASSUME NEW w \in Workers, LoopStep(w) PROVE  Watched'
  <2>1. CASE Drain(w)  BY <2>1 DEF Drain, Take, NoneLeft, Goto
  <2>2. CASE SetInactive(w)  BY <2>2 DEF SetInactive, Remember, Goto, StealOrRecheck
  <2>3. CASE StealPop(w)  BY <2>3 DEF StealPop, Take, StealFailed, Goto
  <2>4. CASE Recheck(w)  BY <2>4 DEF Recheck, Take, NoneLeft, Goto
  <2>5. CASE WaitNextEpoch(w)  BY <2>5 DEF WaitNextEpoch, Goto, Current
  <2>6. CASE Park(w)  BY <2>6 DEF Park, MayPark, Goto, Current
  <2>7. CASE UpdateStatus(w)  BY <2>7 DEF UpdateStatus, Remember, Goto, StealOrRecheck
  <2>8. CASE Repop(w)  BY <2>8 DEF Repop, Take, NoneLeft, Goto, StealOrRecheck
  <2>9. CASE SetActive(w)  BY <2>9 DEF SetActive, Remember, Goto
  <2>10. CASE PollShutdown(w)  BY <2>10 DEF PollShutdown, Polling
  <2>11. CASE PollReturns(w)  BY <2>11 DEF PollReturns, Polling, Goto
  <2>12. ASSUME NEW v \in Workers, StealHint(w, v) PROVE  Watched'
    BY <2>12 DEF StealHint, StealFailed, Goto
  <2> QED BY <1>1, <2>1, <2>2, <2>3, <2>4, <2>5, <2>6, <2>7, <2>8, <2>9, <2>10, <2>11,
        <2>12 DEF LoopStep
<1>2. ASSUME NEW w \in Workers, PollOp(w) PROVE  Watched'
  <2>1. CASE ShutdownAsync(w)  BY <2>1 DEF ShutdownAsync, Polling
  <2>2. ASSUME NEW t \in Tasks, SpawnSelf(w, t) PROVE  Watched'
    BY <2>2 DEF SpawnSelf, Polling, NewTask
  <2>3. ASSUME NEW t \in Tasks, NEW v \in Workers, SpawnOther(w, t, v) PROVE  Watched'
    BY <2>3 DEF SpawnOther, Polling, NewTask
  <2>4. CASE PollPanics(w)  BY <2>4 DEF PollPanics, Polling, Goto
  <2> QED BY <1>2, <2>1, <2>2, <2>3, <2>4 DEF PollOp
<1>3. ASSUME NEW x \in Threads, NotifyStep(x) PROVE  Watched'
  <2>1. CASE NextEpoch(x)  BY <2>1 DEF NextEpoch, Since
  <2>2. CASE UnparkAll(x)  BY <2>2 DEF UnparkAll
  <2>3. ASSUME NEW v \in Workers, Push(x, v) PROVE  Watched'
    BY <2>3 DEF Push, IsNext, AfterTarget
  <2>4. ASSUME NEW v \in Workers, LoadFlag(x, v) PROVE  Watched'
    BY <2>4 DEF LoadFlag, IsNext, AfterTarget
  <2> QED BY <1>3, <2>1, <2>2, <2>3, <2>4 DEF NotifyStep
<1>4. ASSUME NEW p \in Producers, NEW t \in Tasks, Wake(p, t) PROVE  Watched'
  BY <1>4 DEF Wake
<1>5. CASE UNCHANGED vars  BY <1>5 DEF vars
<1> QED BY <1>1, <1>2, <1>3, <1>4, <1>5 DEF Next

\* Push loops end before next_epoch(), and only polls push.
LEMMA QuietStep ==
  ASSUME IInv, [Next]_vars
  PROVE  Quiet'
<1>0. /\ Workers \subseteq Threads
      /\ pc \in [Workers -> WorkerPCs]
      /\ npc \in [Threads -> NotifyPCs]
      /\ todo \in [Threads -> [Workers -> Seq(Items)]]
      /\ Quiet
  BY DEF IInv, TypeOK, Threads
<1> USE <1>0 DEF Quiet
<1>1. ASSUME NEW w \in Workers, LoopStep(w) PROVE  Quiet'
  <2>1. CASE Drain(w)  BY <2>1 DEF Drain, Take, NoneLeft, Goto
  <2>2. CASE SetInactive(w)  BY <2>2 DEF SetInactive, Remember, Goto, StealOrRecheck
  <2>3. CASE StealPop(w)  BY <2>3 DEF StealPop, Take, StealFailed, Goto
  <2>4. CASE Recheck(w)  BY <2>4 DEF Recheck, Take, NoneLeft, Goto
  <2>5. CASE WaitNextEpoch(w)  BY <2>5 DEF WaitNextEpoch, Goto, Current
  <2>6. CASE Park(w)  BY <2>6 DEF Park, MayPark, Goto, Current
  <2>7. CASE UpdateStatus(w)  BY <2>7 DEF UpdateStatus, Remember, Goto, StealOrRecheck
  <2>8. CASE Repop(w)  BY <2>8 DEF Repop, Take, NoneLeft, Goto, StealOrRecheck
  <2>9. CASE SetActive(w)  BY <2>9 DEF SetActive, Remember, Goto
  <2>10. CASE PollShutdown(w)
    <3>1. N = 1 => \A v \in Workers : v = w  BY DEF Workers
    <3> QED BY <2>10, <3>1 DEF PollShutdown, Polling
  <2>11. CASE PollReturns(w)  BY <2>11 DEF PollReturns, Polling, Goto
  <2>12. ASSUME NEW v \in Workers, StealHint(w, v) PROVE  Quiet'
    BY <2>12 DEF StealHint, StealFailed, Goto
  <2> QED BY <1>1, <2>1, <2>2, <2>3, <2>4, <2>5, <2>6, <2>7, <2>8, <2>9, <2>10, <2>11,
        <2>12 DEF LoopStep
<1>2. ASSUME NEW w \in Workers, PollOp(w) PROVE  Quiet'
  <2>1. CASE ShutdownAsync(w)  BY <2>1 DEF ShutdownAsync, Polling
  <2>2. ASSUME NEW t \in Tasks, SpawnSelf(w, t) PROVE  Quiet'
    BY <2>2 DEF SpawnSelf, Polling, NewTask
  <2>3. ASSUME NEW t \in Tasks, NEW v \in Workers, SpawnOther(w, t, v) PROVE  Quiet'
    BY <2>3 DEF SpawnOther, Polling, NewTask
  <2>4. CASE PollPanics(w)  BY <2>4 DEF PollPanics, Polling, Goto
  <2> QED BY <1>2, <2>1, <2>2, <2>3, <2>4 DEF PollOp
<1>3. ASSUME NEW x \in Threads, NotifyStep(x) PROVE  Quiet'
  <2>1. CASE NextEpoch(x)  BY <2>1 DEF NextEpoch, Since
  <2>2. CASE UnparkAll(x)  BY <2>2 DEF UnparkAll
  <2>3. ASSUME NEW v \in Workers, Push(x, v) PROVE  Quiet'
    BY <2>3 DEF Push, IsNext, AfterTarget
  <2>4. ASSUME NEW v \in Workers, LoadFlag(x, v) PROVE  Quiet'
    <3>1. CASE shutdown[v]
      <4>1. /\ npc' = [npc EXCEPT ![x] = AfterTarget(x, v)]
            /\ todo' = [todo EXCEPT ![x][v] = <<>>]
            /\ npc[x] = "check"
            /\ pc' = pc
        BY <2>4, <3>1 DEF LoadFlag
      <4>2. \/ AfterTarget(x, v) \in {"check", "push"}
            \/ /\ AfterTarget(x, v) = "epoch"
               /\ \A u \in Workers \ {v} : todo[x][u] = <<>>
        BY DEF AfterTarget
      <4> QED BY <4>1, <4>2
    <3>2. CASE ~shutdown[v]
      <4>1. npc' = [npc EXCEPT ![x] = "push"] /\ npc[x] = "check" /\ UNCHANGED <<todo, pc>>
        BY <2>4, <3>2 DEF LoadFlag
      <4> QED BY <4>1
    <3> QED BY <3>1, <3>2
  <2> QED BY <1>3, <2>1, <2>2, <2>3, <2>4 DEF NotifyStep
<1>4. ASSUME NEW p \in Producers, NEW t \in Tasks, Wake(p, t) PROVE  Quiet'  
  <2>1. p \notin Workers /\ p \in Threads  BY ThreadsAssumption DEF Threads
  <2> QED BY <1>4, <2>1 DEF Wake
<1>5. CASE UNCHANGED vars  BY <1>5 DEF vars
<1> QED BY <1>1, <1>2, <1>3, <1>4, <1>5 DEF Next

\* The local old_status stays a true record of an earlier status.
LEMMA OldStatusStep ==
  ASSUME IInv, [Next]_vars
  PROVE  OldStatus'
<1>0. /\ pc \in [Workers -> WorkerPCs]
      /\ since \in [Workers -> 0 .. EpochMod]
      /\ old_epoch \in [Workers -> 0 .. EpochMod - 1]
      /\ old_active \in [Workers -> 0 .. N]
      /\ epoch \in 0 .. EpochMod - 1
      /\ active \in 0 .. N
      /\ tries \in [Workers -> 0 .. StealAttempts]
      /\ OldStatus
  BY DEF IInv, TypeOK
<1> USE <1>0 DEF OldStatus, Advance, WaitPCs
<1>1. ASSUME NEW w \in Workers, LoopStep(w) PROVE  OldStatus'
  <2>1. CASE Drain(w)  BY <2>1 DEF Drain, Take, NoneLeft, Goto
  <2>2. CASE SetInactive(w)  BY <2>2 DEF SetInactive, Remember, Goto, StealOrRecheck
  <2>3. CASE StealPop(w)  BY <2>3 DEF StealPop, Take, StealFailed, Goto
  <2>4. CASE Recheck(w)  BY <2>4 DEF Recheck, Take, NoneLeft, Goto
  <2>5. CASE WaitNextEpoch(w)  BY <2>5 DEF WaitNextEpoch, Goto, Current
  <2>6. CASE Park(w)  BY <2>6 DEF Park, MayPark, Goto, Current
  <2>7. CASE UpdateStatus(w)  BY <2>7 DEF UpdateStatus, Remember, Goto, StealOrRecheck
  <2>8. CASE Repop(w)  BY <2>8 DEF Repop, Take, NoneLeft, Goto, StealOrRecheck
  <2>9. CASE SetActive(w)  BY <2>9 DEF SetActive, Remember, Goto
  <2>10. CASE PollShutdown(w)  BY <2>10 DEF PollShutdown, Polling
  <2>11. CASE PollReturns(w)  BY <2>11 DEF PollReturns, Polling, Goto
  <2>12. ASSUME NEW v \in Workers, StealHint(w, v) PROVE  OldStatus'
    <3>1. pc[w] = "steal" /\ UNCHANGED <<epochVars, oldVars>>  BY <2>12 DEF StealHint
    <3>2. \/ pc' = [pc EXCEPT ![w] = "stealing"] /\ tries' = tries
          \/ pc' = [pc EXCEPT ![w] = "update"] /\ tries' = [tries EXCEPT ![w] = @ - 1]
          \/ /\ tries[w] # 1 /\ pc' = [pc EXCEPT ![w] = "steal"]
             /\ tries' = [tries EXCEPT ![w] = @ - 1]
      BY <2>12 DEF StealHint, StealFailed, Goto
    <3> QED BY <3>1, <3>2
  <2> QED BY <1>1, <2>1, <2>2, <2>3, <2>4, <2>5, <2>6, <2>7, <2>8, <2>9, <2>10, <2>11,
        <2>12 DEF LoopStep
<1>2. ASSUME NEW w \in Workers, PollOp(w) PROVE  OldStatus'
  <2>1. CASE ShutdownAsync(w)  BY <2>1 DEF ShutdownAsync, Polling
  <2>2. ASSUME NEW t \in Tasks, SpawnSelf(w, t) PROVE  OldStatus'
    BY <2>2 DEF SpawnSelf, Polling, NewTask
  <2>3. ASSUME NEW t \in Tasks, NEW v \in Workers, SpawnOther(w, t, v) PROVE  OldStatus'
    BY <2>3 DEF SpawnOther, Polling, NewTask
  <2>4. CASE PollPanics(w)  BY <2>4 DEF PollPanics, Polling, Goto
  <2> QED BY <1>2, <2>1, <2>2, <2>3, <2>4 DEF PollOp
<1>3. ASSUME NEW x \in Threads, NotifyStep(x) PROVE  OldStatus'
  <2>1. CASE NextEpoch(x)  BY <2>1 DEF NextEpoch, Since
  <2>2. CASE UnparkAll(x)  BY <2>2 DEF UnparkAll
  <2>3. ASSUME NEW v \in Workers, Push(x, v) PROVE  OldStatus'
    BY <2>3 DEF Push, IsNext, AfterTarget
  <2>4. ASSUME NEW v \in Workers, LoadFlag(x, v) PROVE  OldStatus'
    BY <2>4 DEF LoadFlag, IsNext, AfterTarget
  <2> QED BY <1>3, <2>1, <2>2, <2>3, <2>4 DEF NotifyStep
<1>4. ASSUME NEW p \in Producers, NEW t \in Tasks, Wake(p, t) PROVE  OldStatus'
  BY <1>4 DEF Wake
<1>5. CASE UNCHANGED vars  BY <1>5 DEF vars
<1> QED BY <1>1, <1>2, <1>3, <1>4, <1>5 DEF Next

\* set_inactive() is called by an active worker, set_active() by an inactive one.
LEMMA ActiveStep ==
  ASSUME IInv, [Next]_vars
  PROVE  ActiveExact'
<1>0. /\ pc \in [Workers -> WorkerPCs]
      /\ ActiveExact
  BY DEF IInv, TypeOK
<1> USE <1>0 DEF ActiveExact, ActivePCs
<1>1. ASSUME NEW w \in Workers, LoopStep(w) PROVE  ActiveExact'
  <2>1. CASE Drain(w)  BY <2>1 DEF Drain, Take, NoneLeft, Goto
  <2>2. CASE SetInactive(w)
    <3>1. w \in ActiveWorkers  BY <2>2 DEF SetInactive, ActiveWorkers
    <3>2. ActiveWorkers' = ActiveWorkers \ {w}
      BY <2>2 DEF SetInactive, Goto, StealOrRecheck, ActiveWorkers
    <3>3. Cardinality(ActiveWorkers') = Cardinality(ActiveWorkers) - 1
      BY <3>1, <3>2, ActiveCard, FS_RemoveElement
    <3> QED BY <2>2, <3>3, ActiveCard DEF SetInactive, ActiveWorkers
  <2>3. CASE StealPop(w)  BY <2>3 DEF StealPop, Take, StealFailed, Goto
  <2>4. CASE Recheck(w)  BY <2>4 DEF Recheck, Take, NoneLeft, Goto
  <2>5. CASE WaitNextEpoch(w)  BY <2>5 DEF WaitNextEpoch, Goto, Current
  <2>6. CASE Park(w)  BY <2>6 DEF Park, MayPark, Goto, Current
  <2>7. CASE UpdateStatus(w)  BY <2>7 DEF UpdateStatus, Remember, Goto, StealOrRecheck
  <2>8. CASE Repop(w)  BY <2>8 DEF Repop, Take, NoneLeft, Goto, StealOrRecheck
  <2>9. CASE SetActive(w)
    <3>1. w \notin ActiveWorkers  BY <2>9 DEF SetActive, ActiveWorkers
    <3>2. ActiveWorkers' = ActiveWorkers \cup {w}
      BY <2>9 DEF SetActive, Goto, ActiveWorkers
    <3>3. Cardinality(ActiveWorkers') = Cardinality(ActiveWorkers) + 1
      BY <3>1, <3>2, ActiveCard, FS_AddElement
    <3> QED BY <2>9, <3>3, ActiveCard DEF SetActive, ActiveWorkers
  <2>10. CASE PollShutdown(w)  BY <2>10 DEF PollShutdown, Polling
  <2>11. CASE PollReturns(w)  BY <2>11 DEF PollReturns, Polling, Goto
  <2>12. ASSUME NEW v \in Workers, StealHint(w, v) PROVE  ActiveExact'
    BY <2>12 DEF StealHint, StealFailed, Goto
  <2> QED BY <1>1, <2>1, <2>2, <2>3, <2>4, <2>5, <2>6, <2>7, <2>8, <2>9, <2>10, <2>11,
        <2>12 DEF LoopStep
<1>2. ASSUME NEW w \in Workers, PollOp(w) PROVE  ActiveExact'
  <2>1. CASE ShutdownAsync(w)  BY <2>1 DEF ShutdownAsync, Polling
  <2>2. ASSUME NEW t \in Tasks, SpawnSelf(w, t) PROVE  ActiveExact'
    BY <2>2 DEF SpawnSelf, Polling, NewTask
  <2>3. ASSUME NEW t \in Tasks, NEW v \in Workers, SpawnOther(w, t, v) PROVE  ActiveExact'
    BY <2>3 DEF SpawnOther, Polling, NewTask
  <2>4. CASE PollPanics(w)  BY <2>4 DEF PollPanics, Polling, Goto
  <2> QED BY <1>2, <2>1, <2>2, <2>3, <2>4 DEF PollOp
<1>3. ASSUME NEW x \in Threads, NotifyStep(x) PROVE  ActiveExact'
  <2>1. CASE NextEpoch(x)  BY <2>1 DEF NextEpoch, Since
  <2>2. CASE UnparkAll(x)  BY <2>2 DEF UnparkAll
  <2>3. ASSUME NEW v \in Workers, Push(x, v) PROVE  ActiveExact'
    BY <2>3 DEF Push, IsNext, AfterTarget
  <2>4. ASSUME NEW v \in Workers, LoadFlag(x, v) PROVE  ActiveExact'
    BY <2>4 DEF LoadFlag, IsNext, AfterTarget
  <2> QED BY <1>3, <2>1, <2>2, <2>3, <2>4 DEF NotifyStep
<1>4. ASSUME NEW p \in Producers, NEW t \in Tasks, Wake(p, t) PROVE  ActiveExact'
  BY <1>4 DEF Wake
<1>5. CASE UNCHANGED vars  BY <1>5 DEF vars
<1> QED BY <1>1, <1>2, <1>3, <1>4, <1>5 DEF Next

\* old_status never counts the worker that remembers it.
LEMMA StealStep ==
  ASSUME IInv, [Next]_vars
  PROVE  OthersActive'
<1>0. /\ old_active \in [Workers -> 0 .. N]
      /\ active \in 0 .. N
      /\ pc \in [Workers -> WorkerPCs]
      /\ OthersActive
  BY DEF IInv, TypeOK
<1> USE <1>0 DEF OthersActive
<1>1. ASSUME NEW w \in Workers, LoopStep(w) PROVE  OthersActive'
  <2>1. CASE Drain(w)  BY <2>1 DEF Drain, Take, NoneLeft, Goto
  <2>2. CASE SetInactive(w)
    <3>1. active >= 1  BY <2>2, ActiveCard DEF SetInactive, ActivePCs
    <3> QED BY <2>2, <3>1 DEF SetInactive, Remember
  <2>3. CASE StealPop(w)  BY <2>3 DEF StealPop, Take, StealFailed, Goto
  <2>4. CASE Recheck(w)  BY <2>4 DEF Recheck, Take, NoneLeft, Goto
  <2>5. CASE WaitNextEpoch(w)  BY <2>5 DEF WaitNextEpoch, Goto, Current
  <2>6. CASE Park(w)  BY <2>6 DEF Park, MayPark, Goto, Current
  <2>7. CASE UpdateStatus(w)
    <3>1. active < N  BY <2>7, ActiveCard DEF UpdateStatus, ActivePCs
    <3> QED BY <2>7, <3>1 DEF UpdateStatus, Remember
  <2>8. CASE Repop(w)  BY <2>8 DEF Repop, Take, NoneLeft, Goto, StealOrRecheck
  <2>9. CASE SetActive(w)  BY <2>9 DEF SetActive, Remember, Goto
  <2>10. CASE PollShutdown(w)  BY <2>10 DEF PollShutdown, Polling
  <2>11. CASE PollReturns(w)  BY <2>11 DEF PollReturns, Polling, Goto
  <2>12. ASSUME NEW v \in Workers, StealHint(w, v) PROVE  OthersActive'
    BY <2>12 DEF StealHint, StealFailed, Goto
  <2> QED BY <1>1, <2>1, <2>2, <2>3, <2>4, <2>5, <2>6, <2>7, <2>8, <2>9, <2>10, <2>11,
        <2>12 DEF LoopStep
<1>2. ASSUME NEW w \in Workers, PollOp(w) PROVE  OthersActive'
  <2>1. CASE ShutdownAsync(w)  BY <2>1 DEF ShutdownAsync, Polling
  <2>2. ASSUME NEW t \in Tasks, SpawnSelf(w, t) PROVE  OthersActive'
    BY <2>2 DEF SpawnSelf, Polling, NewTask
  <2>3. ASSUME NEW t \in Tasks, NEW v \in Workers, SpawnOther(w, t, v) PROVE  OthersActive'
    BY <2>3 DEF SpawnOther, Polling, NewTask
  <2>4. CASE PollPanics(w)  BY <2>4 DEF PollPanics, Polling, Goto
  <2> QED BY <1>2, <2>1, <2>2, <2>3, <2>4 DEF PollOp
<1>3. ASSUME NEW x \in Threads, NotifyStep(x) PROVE  OthersActive'
  <2>1. CASE NextEpoch(x)  BY <2>1 DEF NextEpoch, Since
  <2>2. CASE UnparkAll(x)  BY <2>2 DEF UnparkAll
  <2>3. ASSUME NEW v \in Workers, Push(x, v) PROVE  OthersActive'
    BY <2>3 DEF Push, IsNext, AfterTarget
  <2>4. ASSUME NEW v \in Workers, LoadFlag(x, v) PROVE  OthersActive'
    BY <2>4 DEF LoadFlag, IsNext, AfterTarget
  <2> QED BY <1>3, <2>1, <2>2, <2>3, <2>4 DEF NotifyStep
<1>4. ASSUME NEW p \in Producers, NEW t \in Tasks, Wake(p, t) PROVE  OthersActive'
  BY <1>4 DEF Wake
<1>5. CASE UNCHANGED vars  BY <1>5 DEF vars
<1> QED BY <1>1, <1>2, <1>3, <1>4, <1>5 DEF Next

\* pop_front keeps the types.
LEMMA TakeType ==
  ASSUME TypeOK, NEW w \in Workers, NEW v \in Workers, NEW next \in WorkerPCs, Take(w, v,
        next)
  PROVE  /\ queue' \in [Workers -> Seq(Items)]
         /\ held' \in [Workers -> Items \cup {NoTask}]
         /\ pc' \in [Workers -> WorkerPCs]
<1>1. queue[v] \in Seq(Items) /\ queue[v] # <<>>  BY DEF TypeOK, Take
<1>2. Head(queue[v]) \in Items /\ Tail(queue[v]) \in Seq(Items)  BY <1>1
<1> QED BY <1>2 DEF TypeOK, Take, Goto

\* Task::new starts with worker_id 0, which is a worker.
LEMMA NewTaskType ==
  ASSUME TypeOK, NEW t \in Tasks, NewTask(t)
  PROVE  worker_id' \in [Tasks -> Workers] /\ unborn' \in SUBSET Tasks
<1>1. 0 \in Workers  BY DEF Workers
<1>2. worker_id' \in [Tasks -> Workers]  BY <1>1 DEF TypeOK, NewTask
<1>3. unborn' \in SUBSET Tasks  BY DEF TypeOK, NewTask
<1> QED BY <1>2, <1>3

\* A steal attempt is only made while attempts are left.
LEMMA TriesLeft ==
  ASSUME IInv, NEW w \in Workers, pc[w] \in {"steal", "stealing"}
  PROVE  tries[w] - 1 \in 0 .. StealAttempts
<1>1. tries[w] \in 0 .. StealAttempts  BY DEF IInv, TypeOK
<1>2. tries[w] > 0  BY DEF IInv, OldStatus
<1> QED BY <1>1, <1>2

\* Every step keeps the types: the active count stays between 0 and N because it
\* counts workers, the epoch wraps within its bits.
LEMMA TypeStep ==
  ASSUME IInv, [Next]_vars
  PROVE  TypeOK'
<1>0. /\ TypeOK
      /\ Workers \subseteq Threads
  BY DEF IInv, TypeOK, Threads
<1> USE <1>0 DEF TypeOK, WorkerPCs, ActivePCs, WaitPCs, NotifyPCs
<1>1. ASSUME NEW w \in Workers, LoopStep(w) PROVE  TypeOK'
  <2>1. CASE Drain(w)
    <3>1. CASE Take(w, w, "poll")  BY <2>1, <3>1, TakeType DEF Drain
    <3>2. CASE NoneLeft(w, "inactive")  BY <2>1, <3>2 DEF Drain, NoneLeft, Goto
    <3> QED BY <2>1, <3>1, <3>2 DEF Drain
  <2>2. CASE SetInactive(w)
    <3>1. active - 1 \in 0 .. N  BY <2>2, ActiveCard DEF SetInactive
    <3> QED BY <2>2, <3>1 DEF SetInactive, Remember, Goto, StealOrRecheck
  <2>3. CASE StealPop(w)
    <3>1. 0 \in Workers  BY DEF Workers
    <3>2. CASE Take(w, victim[w], "active")
      <4>1. worker_id' \in [Tasks -> Workers]  BY <2>3 DEF StealPop
      <4> QED BY <2>3, <3>1, <3>2, <4>1, TakeType DEF StealPop, Take
    <3>3. CASE StealFailed(w)
      <4>1. tries[w] - 1 \in 0 .. StealAttempts  BY <2>3, TriesLeft DEF StealPop
      <4>2. worker_id' \in [Tasks -> Workers]  BY <2>3 DEF StealPop
      <4> QED BY <2>3, <3>1, <3>3, <4>1, <4>2 DEF StealPop, StealFailed, Goto
    <3> QED BY <2>3, <3>2, <3>3 DEF StealPop
  <2>4. CASE Recheck(w)
    <3>1. CASE Take(w, w, "active")  BY <2>4, <3>1, TakeType DEF Recheck
    <3>2. CASE NoneLeft(w, "wait")  BY <2>4, <3>2 DEF Recheck, NoneLeft, Goto
    <3> QED BY <2>4, <3>1, <3>2 DEF Recheck
  <2>5. CASE WaitNextEpoch(w)  BY <2>5 DEF WaitNextEpoch, Goto, Current
  <2>6. CASE Park(w)
    <3>1. pc' \in [Workers -> WorkerPCs]  BY <2>6 DEF Park, Goto
    <3>2. since' \in [Workers -> 0 .. EpochMod]  BY <2>6 DEF Park
    <3> QED BY <2>6, <3>1, <3>2 DEF Park
  <2>7. CASE UpdateStatus(w)  BY <2>7 DEF UpdateStatus, Remember, Goto, StealOrRecheck
  <2>8. CASE Repop(w)
    <3>1. CASE Take(w, w, "active")  BY <2>8, <3>1, TakeType DEF Repop
    <3>2. CASE NoneLeft(w, StealOrRecheck(old_active[w]))  BY <2>8, <3>2 DEF Repop,
          NoneLeft, Goto, StealOrRecheck
    <3> QED BY <2>8, <3>1, <3>2 DEF Repop
  <2>9. CASE SetActive(w)
    <3>0. active < N  BY <2>9, ActiveCard DEF SetActive
    <3>1. active + 1 \in 0 .. N  BY <3>0
    <3>2. npc' \in [Threads -> NotifyPCs]  BY <2>9 DEF SetActive
    <3> QED BY <2>9, <3>1, <3>2 DEF SetActive, Remember, Goto
  <2>10. CASE PollShutdown(w)
    <3>0. <<>> \in Seq(Items) /\ <<Shutdown>> \in Seq(Items)  BY DEF Items
    <3>1. [v \in Workers |-> IF v = w THEN <<>> ELSE <<Shutdown>>] \in [Workers ->
          Seq(Items)]
      BY <3>0
    <3>2. todo' \in [Threads -> [Workers -> Seq(Items)]]  BY <2>10, <3>1 DEF PollShutdown
    <3>3. npc' \in [Threads -> NotifyPCs]  BY <2>10 DEF PollShutdown
    <3> QED BY <2>10, <3>2, <3>3 DEF PollShutdown
  <2>11. CASE PollReturns(w)  BY <2>11 DEF PollReturns, Polling, Goto
  <2>12. ASSUME NEW v \in Workers, StealHint(w, v) PROVE  TypeOK'
    <3>1. pc[w] = "steal"  BY <2>12 DEF StealHint
    <3>3. tries[w] - 1 \in 0 .. StealAttempts  BY <3>1, TriesLeft
    <3>4. CASE StealFailed(w) /\ UNCHANGED victim
      <4>1. tries' \in [Workers -> 0 .. StealAttempts]  BY <3>3, <3>4 DEF StealFailed
      <4>2. pc' \in [Workers -> WorkerPCs]  BY <3>4 DEF StealFailed, Goto
      <4> QED BY <2>12, <3>4, <4>1, <4>2 DEF StealHint, StealFailed
    <3>5. CASE Goto(w, "stealing") /\ victim' = [victim EXCEPT ![w] = v]
                /\ UNCHANGED <<queue, held, tries>>
      BY <2>12, <3>5 DEF StealHint, Goto
    <3> QED BY <2>12, <3>4, <3>5 DEF StealHint
  <2> QED BY <1>1, <2>1, <2>2, <2>3, <2>4, <2>5, <2>6, <2>7, <2>8, <2>9, <2>10, <2>11,
        <2>12 DEF LoopStep
<1>2. ASSUME NEW w \in Workers, PollOp(w) PROVE  TypeOK'
  <2>1. CASE ShutdownAsync(w)
    <3>1. [v \in Workers |-> <<Shutdown>>] \in [Workers -> Seq(Items)]  BY DEF Items
    <3>2. todo' \in [Threads -> [Workers -> Seq(Items)]]  BY <2>1, <3>1 DEF ShutdownAsync
    <3>3. npc' \in [Threads -> NotifyPCs] /\ shutdowns' \in 0 .. MaxShutdowns
      BY <2>1 DEF ShutdownAsync
    <3> QED BY <2>1, <3>2, <3>3 DEF ShutdownAsync
  <2>2. ASSUME NEW t \in Tasks, SpawnSelf(w, t) PROVE  TypeOK'
    <3>1. t \in Items /\ queue[w] \in Seq(Items)  BY DEF Items
    <3>2. Append(queue[w], t) \in Seq(Items) /\ <<t>> \o queue[w] \in Seq(Items)  BY <3>1
    <3>3. queue' \in [Workers -> Seq(Items)]  BY <2>2, <3>2 DEF SpawnSelf
    <3>4. NewTask(t) /\ UNCHANGED <<epochVars, shutdown, pc, held, oldVars, stealVars, notify,
                                    idle, wakes, shutdowns, panics>>
      BY <2>2 DEF SpawnSelf
    <3> QED BY <3>3, <3>4, NewTaskType
  <2>3. ASSUME NEW t \in Tasks, NEW v \in Workers, SpawnOther(w, t, v) PROVE  TypeOK'
    <3>1. t \in Items /\ queue[v] \in Seq(Items)  BY DEF Items
    <3>2. Append(queue[v], t) \in Seq(Items)  BY <3>1
    <3>3. queue' \in [Workers -> Seq(Items)]  BY <2>3, <3>2 DEF SpawnOther
    <3>4. NewTask(t)  BY <2>3 DEF SpawnOther
    <3>5. npc' \in [Threads -> NotifyPCs]  BY <2>3 DEF SpawnOther
    <3>6. UNCHANGED <<epochVars, shutdown, pc, held, oldVars, stealVars, todo, idle, wakes,
                      shutdowns, panics>>
      BY <2>3 DEF SpawnOther
    <3> QED BY <3>3, <3>4, <3>5, <3>6, NewTaskType
  <2>4. CASE PollPanics(w)
    <3>1. panics' \in 0 .. MaxPanics
      <4>1. panics \in 0 .. MaxPanics /\ panics < MaxPanics /\ panics' = panics + 1
        BY <2>4 DEF PollPanics
      <4> QED BY <4>1
    <3>2. held' \in [Workers -> Items \cup {NoTask}]  BY <2>4 DEF PollPanics
    <3>3. pc' \in [Workers -> WorkerPCs]  BY <2>4 DEF PollPanics, Goto
    <3> QED BY <2>4, <3>1, <3>2, <3>3 DEF PollPanics
  <2> QED BY <1>2, <2>1, <2>2, <2>3, <2>4 DEF PollOp
<1>3. ASSUME NEW x \in Threads, NotifyStep(x) PROVE  TypeOK'
  <2>1. CASE NextEpoch(x)  BY <2>1 DEF NextEpoch, Since
  <2>2. CASE UnparkAll(x)  BY <2>2 DEF UnparkAll
  <2>3. ASSUME NEW v \in Workers, Push(x, v) PROVE  TypeOK'
    <3>1. todo[x][v] \in Seq(Items) /\ queue[v] \in Seq(Items) /\ <<>> \in Seq(Items)
          OBVIOUS
    <3>2. todo[x][v] \o queue[v] \in Seq(Items) /\ queue[v] \o todo[x][v] \in Seq(Items)
      BY <3>1
    <3>3. queue' \in [Workers -> Seq(Items)]  BY <2>3, <3>2 DEF Push
    <3>4. todo' \in [Threads -> [Workers -> Seq(Items)]]  BY <2>3, <3>1 DEF Push
    <3>5. npc' \in [Threads -> NotifyPCs]  BY <2>3 DEF Push, AfterTarget
    <3> QED BY <2>3, <3>3, <3>4, <3>5 DEF Push
  <2>4. ASSUME NEW v \in Workers, LoadFlag(x, v) PROVE  TypeOK'
    <3>1. <<>> \in Seq(Items) /\ AfterTarget(x, v) \in NotifyPCs  BY DEF AfterTarget
    <3>2. CASE shutdown[v]
      <4>0. todo' = [todo EXCEPT ![x][v] = <<>>]  BY <2>4, <3>2 DEF LoadFlag
      <4>1. todo' \in [Threads -> [Workers -> Seq(Items)]]  BY <3>1, <4>0
      <4>2. npc' \in [Threads -> NotifyPCs]
        <5>1. npc' = [npc EXCEPT ![x] = AfterTarget(x, v)]  BY <2>4, <3>2 DEF LoadFlag
        <5> QED BY <3>1, <5>1
      <4> QED BY <2>4, <4>1, <4>2 DEF LoadFlag
    <3>3. CASE ~shutdown[v]
      <4>1. npc' \in [Threads -> NotifyPCs]  BY <2>4, <3>3 DEF LoadFlag
      <4> QED BY <2>4, <3>3, <4>1 DEF LoadFlag
    <3> QED BY <3>2, <3>3
  <2> QED BY <1>3, <2>1, <2>2, <2>3, <2>4 DEF NotifyStep
<1>4. ASSUME NEW p \in Producers, NEW t \in Tasks, Wake(p, t) PROVE  TypeOK'
  <2>1. p \in Threads /\ worker_id[t] \in Workers  BY DEF Threads
  <2>2. Append(todo[p][worker_id[t]], t) \in Seq(Items)  BY <2>1 DEF Items
  <2>3. todo' \in [Threads -> [Workers -> Seq(Items)]]  BY <1>4, <2>1, <2>2 DEF Wake
  <2> QED BY <1>4, <2>3 DEF Wake
<1>5. CASE UNCHANGED vars  BY <1>5 DEF vars
<1> QED BY <1>1, <1>2, <1>3, <1>4, <1>5 DEF Next

\* A worker has a Shutdown task only between its pop and the end of its poll, and a
\* worker whose flag is set finishes its poll and leaves.
LEMMA ShutdownStageStep ==
  ASSUME IInv, [Next]_vars
  PROVE  ShutdownStage'
<1>0. /\ pc \in [Workers -> WorkerPCs]
      /\ held \in [Workers -> Items \cup {NoTask}]
      /\ shutdown \in [Workers -> BOOLEAN]
      /\ ShutdownStage
  BY DEF IInv, TypeOK
<1> USE <1>0 DEF ShutdownStage
<1>1. ASSUME NEW w \in Workers, LoopStep(w) PROVE  ShutdownStage'
  <2>1. CASE Drain(w)  BY <2>1 DEF Drain, Take, NoneLeft, Goto
  <2>2. CASE SetInactive(w)  BY <2>2 DEF SetInactive, Goto
  <2>3. CASE StealPop(w)  BY <2>3 DEF StealPop, Take, StealFailed, Goto
  <2>4. CASE Recheck(w)  BY <2>4 DEF Recheck, Take, NoneLeft, Goto
  <2>5. CASE WaitNextEpoch(w)  BY <2>5 DEF WaitNextEpoch, Goto
  <2>6. CASE Park(w)  BY <2>6 DEF Park, Goto
  <2>7. CASE UpdateStatus(w)  BY <2>7 DEF UpdateStatus, Goto
  <2>8. CASE Repop(w)  BY <2>8 DEF Repop, Take, NoneLeft, Goto
  <2>9. CASE SetActive(w)  BY <2>9 DEF SetActive, Goto
  <2>10. CASE PollShutdown(w)  BY <2>10 DEF PollShutdown, Polling
  <2>11. CASE PollReturns(w)  BY <2>11 DEF PollReturns, Polling, Goto, NoTask, Shutdown
  <2>12. ASSUME NEW v \in Workers, StealHint(w, v) PROVE  ShutdownStage'
    BY <2>12 DEF StealHint, StealFailed, Goto
  <2> QED BY <1>1, <2>1, <2>2, <2>3, <2>4, <2>5, <2>6, <2>7, <2>8, <2>9, <2>10, <2>11,
        <2>12 DEF LoopStep
<1>2. ASSUME NEW w \in Workers, PollOp(w) PROVE  ShutdownStage'
  <2>1. CASE ShutdownAsync(w)  BY <2>1 DEF ShutdownAsync
  <2>2. ASSUME NEW t \in Tasks, SpawnSelf(w, t) PROVE  ShutdownStage'
    BY <2>2 DEF SpawnSelf
  <2>3. ASSUME NEW t \in Tasks, NEW v \in Workers, SpawnOther(w, t, v) PROVE  ShutdownStage'
    BY <2>3 DEF SpawnOther
  <2>4. CASE PollPanics(w)  BY <2>4 DEF PollPanics, Polling, Goto, NoTask, Shutdown
  <2> QED BY <1>2, <2>1, <2>2, <2>3, <2>4 DEF PollOp
<1>3. ASSUME NEW x \in Threads, NotifyStep(x) PROVE  ShutdownStage'
  <2>1. CASE NextEpoch(x)  BY <2>1 DEF NextEpoch
  <2>2. CASE UnparkAll(x)  BY <2>2 DEF UnparkAll
  <2>3. ASSUME NEW v \in Workers, Push(x, v) PROVE  ShutdownStage'  BY <2>3 DEF Push
  <2>4. ASSUME NEW v \in Workers, LoadFlag(x, v) PROVE  ShutdownStage'  BY <2>4 DEF LoadFlag
  <2> QED BY <1>3, <2>1, <2>2, <2>3, <2>4 DEF NotifyStep
<1>4. ASSUME NEW p \in Producers, NEW t \in Tasks, Wake(p, t) PROVE  ShutdownStage'
  BY <1>4 DEF Wake
<1>5. CASE UNCHANGED vars  BY <1>5 DEF vars
<1> QED BY <1>1, <1>2, <1>3, <1>4, <1>5 DEF Next

\* What is in a queue is still there after pop_front, or is what was popped.
LEMMA TailKeeps ==
  ASSUME NEW s \in Seq(Items), s # <<>>, NEW i \in 1 .. Len(s), s[i] # Head(s)
  PROVE  \E j \in 1 .. Len(Tail(s)) : Tail(s)[j] = s[i]
<1>1. i # 1  OBVIOUS
<1>2. i - 1 \in 1 .. Len(Tail(s)) /\ Tail(s)[i - 1] = s[i]  BY <1>1
<1> QED BY <1>2

\* What is in a queue is still there after a push to either end.
LEMMA PushKeeps ==
  ASSUME queue \in [Workers -> Seq(Items)], NEW u \in Workers, NEW s \in Seq(Items),
         queue' \in {[queue EXCEPT ![u] = @ \o s], [queue EXCEPT ![u] = s \o @]},
         NEW v \in Workers, InQueue(Shutdown, v)
  PROVE  InQueue(Shutdown, v)'
<1>1. PICK i \in 1 .. Len(queue[v]) : queue[v][i] = Shutdown  BY DEF InQueue
<1>2. queue[v] \in Seq(Items)  OBVIOUS
<1>3. CASE queue'[v] = queue[v]  BY <1>1, <1>3 DEF InQueue
<1>4. CASE queue'[v] = queue[v] \o s
  <2>1. i \in 1 .. Len(queue'[v]) /\ queue'[v][i] = queue[v][i]  BY <1>1, <1>2, <1>4
  <2> QED BY <1>1, <2>1 DEF InQueue
<1>5. CASE queue'[v] = s \o queue[v]
  <2>1. Len(s) + i \in 1 .. Len(queue'[v]) /\ queue'[v][Len(s) + i] = queue[v][i]
    BY <1>1, <1>2, <1>5
  <2> QED BY <1>1, <2>1 DEF InQueue
<1> QED BY <1>3, <1>4, <1>5

\* A pop takes no Shutdown task away from its worker without becoming its poll.
LEMMA TakeKeepsShutdown ==
  ASSUME IInv, NEW w \in Workers, NEW u \in Workers, NEW next, Take(w, u, next),
         pc[w] \notin {"active", "poll", "exited"}, UNCHANGED <<todo, shutdown>>,
         NEW v \in Workers, ShutdownAhead(v)
  PROVE  ShutdownAhead(v)'
<1>0. /\ held \in [Workers -> Items \cup {NoTask}]
      /\ queue \in [Workers -> Seq(Items)]
      /\ held[w] # Shutdown /\ ~shutdown[w]
  BY DEF IInv, TypeOK, ShutdownStage
<1>1. CASE \E x \in Workers : todo[x][v] = <<Shutdown>>  BY <1>1 DEF ShutdownAhead
<1>2. CASE \E x \in Workers : held[x] = Shutdown /\ ~shutdown[x]
  BY <1>0, <1>2 DEF ShutdownAhead, Take
<1>3. CASE InQueue(Shutdown, v)
  <2>1. PICK i \in 1 .. Len(queue[v]) : queue[v][i] = Shutdown  BY <1>3 DEF InQueue
  <2>2. CASE u # v  BY <1>0, <2>1, <2>2 DEF Take, ShutdownAhead, InQueue
  <2>3. CASE u = v /\ Head(queue[v]) = Shutdown
    BY <1>0, <2>3 DEF Take, ShutdownAhead
  <2>4. CASE u = v /\ Head(queue[v]) # Shutdown
    <3>1. queue'[v] = Tail(queue[v])  BY <1>0, <2>4 DEF Take
    <3>2. \E j \in 1 .. Len(Tail(queue[v])) : Tail(queue[v])[j] = queue[v][i]
      BY <1>0, <2>1, <2>4, TailKeeps DEF Take
    <3> QED BY <2>1, <3>1, <3>2 DEF ShutdownAhead, InQueue
  <2> QED BY <2>2, <2>3, <2>4
<1> QED BY <1>1, <1>2, <1>3 DEF ShutdownAhead

\* A request to shut down is not lost to a thief, nor to the flags read before.
LEMMA ShutdownStep ==
  ASSUME IInv, [Next]_vars
  PROVE  ShutdownNotLost'
<1>0. /\ held \in [Workers -> Items \cup {NoTask}]
      /\ queue \in [Workers -> Seq(Items)]
      /\ shutdown \in [Workers -> BOOLEAN]
      /\ todo \in [Threads -> [Workers -> Seq(Items)]]
      /\ npc \in [Threads -> NotifyPCs]
      /\ Workers \subseteq Threads
      /\ ShutdownNotLost /\ Quiet
  BY DEF IInv, TypeOK, Threads
<1> USE <1>0
<1>a. ASSUME NEW w \in Workers, NEW u \in Workers, NEW next, Take(w, u, next),
             pc[w] \notin {"active", "poll", "exited"},
             UNCHANGED <<todo, shutdown, shutdowns>>
      PROVE  ShutdownNotLost'
  BY <1>a, TakeKeepsShutdown DEF ShutdownNotLost
<1>b. ASSUME UNCHANGED <<queue, held, todo, shutdown, shutdowns>>
      PROVE  ShutdownNotLost'
  BY <1>b DEF ShutdownNotLost, ShutdownAhead, InQueue
<1>1. ASSUME NEW w \in Workers, LoopStep(w) PROVE  ShutdownNotLost'
  <2>1. CASE Drain(w)  BY <2>1, <1>a, <1>b DEF Drain, NoneLeft
  <2>2. CASE SetInactive(w)  BY <2>2, <1>b DEF SetInactive
  <2>3. CASE StealPop(w)
    <3>1. victim[w] \in Workers  BY DEF IInv, TypeOK
    <3> QED BY <2>3, <3>1, <1>a, <1>b DEF StealPop, StealFailed
  <2>4. CASE Recheck(w)  BY <2>4, <1>a, <1>b DEF Recheck, NoneLeft
  <2>5. CASE WaitNextEpoch(w)  BY <2>5, <1>b DEF WaitNextEpoch
  <2>6. CASE Park(w)  BY <2>6, <1>b DEF Park
  <2>7. CASE UpdateStatus(w)  BY <2>7, <1>b DEF UpdateStatus
  <2>8. CASE Repop(w)  BY <2>8, <1>a, <1>b DEF Repop, NoneLeft
  <2>9. CASE SetActive(w)  BY <2>9, <1>b DEF SetActive
  <2>10. CASE PollShutdown(w)
    <3> SUFFICES ASSUME NEW v \in Workers PROVE shutdown'[v] \/ ShutdownAhead(v)'
      BY DEF ShutdownNotLost
    <3>1. CASE v = w  BY <2>10, <3>1 DEF PollShutdown
    <3>2. CASE v # w
      <4>1. todo'[w][v] = <<Shutdown>>  BY <2>10, <3>2 DEF PollShutdown
      <4> QED BY <4>1 DEF ShutdownAhead
    <3> QED BY <3>1, <3>2
  <2>11. CASE PollReturns(w)
    <3>1. UNCHANGED <<queue, todo, shutdown, shutdowns>>  BY <2>11 DEF PollReturns
    <3>2. \A x \in Workers : held[x] = Shutdown /\ ~shutdown[x] => held'[x] = Shutdown
      BY <2>11 DEF PollReturns
    <3> QED BY <3>1, <3>2 DEF ShutdownNotLost, ShutdownAhead, InQueue
  <2>12. ASSUME NEW v \in Workers, StealHint(w, v) PROVE  ShutdownNotLost'
    BY <2>12, <1>b DEF StealHint, StealFailed
  <2> QED BY <1>1, <2>1, <2>2, <2>3, <2>4, <2>5, <2>6, <2>7, <2>8, <2>9, <2>10, <2>11,
        <2>12 DEF LoopStep
<1>c. ASSUME NEW u \in Workers, NEW s \in Seq(Items),
             queue' \in {[queue EXCEPT ![u] = @ \o s], [queue EXCEPT ![u] = s \o @]},
             UNCHANGED <<held, todo, shutdown, shutdowns>>
      PROVE  ShutdownNotLost'
  <2>1. ASSUME NEW v \in Workers, InQueue(Shutdown, v) PROVE InQueue(Shutdown, v)'
    BY <1>c, <2>1, PushKeeps
  <2> QED BY <1>c, <2>1 DEF ShutdownNotLost, ShutdownAhead
<1>2. ASSUME NEW w \in Workers, PollOp(w) PROVE  ShutdownNotLost'
  <2>1. CASE ShutdownAsync(w)
    <3>1. \A v \in Workers : todo'[w][v] = <<Shutdown>>  BY <2>1 DEF ShutdownAsync
    <3> QED BY <3>1 DEF ShutdownNotLost, ShutdownAhead
  <2>2. ASSUME NEW t \in Tasks, SpawnSelf(w, t) PROVE  ShutdownNotLost'
    <3>1. <<t>> \in Seq(Items) /\ Append(queue[w], t) = queue[w] \o <<t>>  BY DEF Items
    <3> QED BY <2>2, <3>1, <1>c DEF SpawnSelf
  <2>3. ASSUME NEW t \in Tasks, NEW v \in Workers, SpawnOther(w, t, v) PROVE  ShutdownNotLost'
    <3>1. <<t>> \in Seq(Items) /\ Append(queue[v], t) = queue[v] \o <<t>>  BY DEF Items
    <3> QED BY <2>3, <3>1, <1>c DEF SpawnOther
  <2>4. CASE PollPanics(w)
    <3>1. UNCHANGED <<queue, todo, shutdown, shutdowns>>  BY <2>4 DEF PollPanics
    <3>2. \A x \in Workers : held[x] = Shutdown => held'[x] = Shutdown
      BY <2>4, TasksAssumption DEF PollPanics
    <3> QED BY <3>1, <3>2 DEF ShutdownNotLost, ShutdownAhead, InQueue
  <2> QED BY <1>2, <2>1, <2>2, <2>3, <2>4 DEF PollOp
<1>3. ASSUME NEW x \in Threads, NotifyStep(x) PROVE  ShutdownNotLost'
  <2>1. CASE NextEpoch(x)  BY <2>1, <1>b DEF NextEpoch
  <2>2. CASE UnparkAll(x)  BY <2>2, <1>b DEF UnparkAll
  <2>3. ASSUME NEW u \in Workers, Push(x, u) PROVE  ShutdownNotLost'
    <3> SUFFICES ASSUME shutdowns' > 0, NEW v \in Workers
                 PROVE  shutdown'[v] \/ ShutdownAhead(v)'
      BY DEF ShutdownNotLost
    <3>1. shutdown[v] \/ ShutdownAhead(v)  BY <2>3 DEF Push, ShutdownNotLost
    <3>2. todo[x][u] \in Seq(Items) /\ queue[u] \in Seq(Items)  OBVIOUS
    <3>3. queue' \in {[queue EXCEPT ![u] = @ \o todo[x][u]],
                      [queue EXCEPT ![u] = todo[x][u] \o @]}
      BY <2>3 DEF Push
    <3>4. CASE shutdown[v]  BY <2>3, <3>4 DEF Push
    <3>5. CASE InQueue(Shutdown, v)
      <4>1. InQueue(Shutdown, v)'  BY <3>2, <3>3, <3>5, PushKeeps
      <4> QED BY <4>1 DEF ShutdownAhead
    <3>6. CASE \E w \in Workers : held[w] = Shutdown /\ ~shutdown[w]
      BY <2>3, <3>6 DEF Push, ShutdownAhead
    <3>7. CASE \E w \in Workers : todo[w][v] = <<Shutdown>>
      <4>1. PICK w \in Workers : todo[w][v] = <<Shutdown>>  BY <3>7
      <4>2. CASE w = x /\ v = u
        <5>1. queue'[v] = <<Shutdown>> \o queue[v]  BY <2>3, <4>1, <4>2 DEF Push
        <5>2. 1 \in 1 .. Len(queue'[v]) /\ queue'[v][1] = Shutdown  BY <5>1, <3>2, <4>2
        <5> QED BY <5>2 DEF ShutdownAhead, InQueue
      <4>3. CASE ~(w = x /\ v = u)
        <5>1. todo'[w][v] = <<Shutdown>>  BY <2>3, <4>1, <4>3 DEF Push
        <5> QED BY <5>1 DEF ShutdownAhead
      <4> QED BY <4>2, <4>3
    <3> QED BY <3>1, <3>4, <3>5, <3>6, <3>7 DEF ShutdownAhead
  <2>4. ASSUME NEW u \in Workers, LoadFlag(x, u) PROVE  ShutdownNotLost'
    <3>1. UNCHANGED <<queue, held, shutdown, shutdowns>>  BY <2>4 DEF LoadFlag
    <3>2. \A w, v \in Workers : todo[w][v] = <<Shutdown>> /\ ~shutdown[v]
             => todo'[w][v] = <<Shutdown>>
      <4>1. CASE UNCHANGED todo  BY <4>1
      <4>2. CASE shutdown[u] /\ todo' = [todo EXCEPT ![x][u] = <<>>]  BY <4>2
      <4> QED BY <2>4, <4>1, <4>2 DEF LoadFlag
    <3> QED BY <3>1, <3>2 DEF ShutdownNotLost, ShutdownAhead, InQueue
  <2> QED BY <1>3, <2>1, <2>2, <2>3, <2>4 DEF NotifyStep
<1>4. ASSUME NEW p \in Producers, NEW t \in Tasks, Wake(p, t) PROVE  ShutdownNotLost'
  <2>1. UNCHANGED <<queue, held, shutdown, shutdowns>>  BY <1>4 DEF Wake
  <2>2. \A w, v \in Workers : todo'[w][v] = todo[w][v]  BY <1>4, ThreadsAssumption DEF Wake
  <2> QED BY <2>1, <2>2 DEF ShutdownNotLost, ShutdownAhead, InQueue
<1>5. CASE UNCHANGED vars  BY <1>5, <1>b DEF vars
<1> QED BY <1>1, <1>2, <1>3, <1>4, <1>5 DEF Next

\* All workers active, all queues empty, async_main about to be pushed.
LEMMA InitInv == Init => IInv
<1> SUFFICES ASSUME Init PROVE IInv  OBVIOUS
<1> USE DEF Init, EmptyTodo
<1>0. 0 \in Workers /\ Workers \subseteq Threads  BY DEF Workers, Threads
<1>1. TypeOK
  <2>1. <<>> \in Seq(Items) /\ <<FirstTask>> \in Seq(Items)  BY TasksAssumption DEF Items
  <2>2. [EmptyTodo EXCEPT ![0] = <<FirstTask>>] \in [Workers -> Seq(Items)]  BY <1>0, <2>1
  <2>3. todo \in [Threads -> [Workers -> Seq(Items)]]  BY <2>1, <2>2
  <2>4. queue \in [Workers -> Seq(Items)]  BY <2>1
  <2> QED BY <1>0, <2>3, <2>4, TasksAssumption
          DEF TypeOK, WorkerPCs, ActivePCs, NotifyPCs
<1>2. ActiveExact
  <2>1. {w \in Workers : pc[w] \in ActivePCs} = Workers  BY DEF ActivePCs
  <2>2. Cardinality(Workers) = N  BY FS_Interval DEF Workers
  <2> QED BY <2>1, <2>2 DEF ActiveExact
<1>3. OldStatus /\ LemmaA /\ Watched /\ NoLostWakeup /\ OthersActive
  BY DEF OldStatus, LemmaA, Watched, NoLostWakeup, OthersActive, WaitPCs
<1>4. Quiet  BY <1>0, ThreadsAssumption DEF Quiet
<1>5. ShutdownStage /\ ShutdownNotLost
  BY DEF ShutdownStage, ShutdownNotLost, NoTask, Shutdown
<1> QED BY <1>1, <1>2, <1>3, <1>4, <1>5 DEF IInv

\* The inductive invariant holds for any number of workers, tasks and producers,
\* any width of the epoch counter and any number of wakes.
THEOREM Invariance == Spec => []IInv
<1>1. IInv /\ [Next]_vars => IInv'
  BY TypeStep, ActiveStep, OldStatusStep, QuietStep, LemmaAStep, WatchedStep, NoLostStep,
     StealStep, ShutdownStageStep, ShutdownStep DEF IInv
<1> QED BY InitInv, <1>1, PTL DEF Spec

\* Type correctness; the counters packed in the Epoch word stay within their bits.
THEOREM TypeCorrect == Spec => []TypeOK
<1>1. IInv => TypeOK  BY DEF IInv
<1> QED BY <1>1, Invariance, PTL

\* Lemma A of epoch.rs: a worker parked while another is active is about to be
\* unparked.
THEOREM BlockedAreUnparked == Spec => []LemmaA
<1>1. IInv => LemmaA  BY DEF IInv
<1> QED BY <1>1, Invariance, PTL

\* Lemma D of epoch.rs: no task waits behind a parked worker unless a thread is
\* still about to notify.
THEOREM NoTaskLeftBehind == Spec => []NoLostWakeup
<1>1. IInv => NoLostWakeup  BY DEF IInv
<1> QED BY <1>1, Invariance, PTL

\* The termination-detecting count is exact.
THEOREM ActiveCountExact == Spec => []ActiveExact
<1>1. IInv => ActiveExact  BY DEF IInv
<1> QED BY <1>1, Invariance, PTL

\* try_steal computes seed % (n_workers - 1): it is reached only with a count between
\* 1 and n_workers - 1, so the division is never by zero.
THEOREM StealingHasVictims == Spec => []StealNeedsOthers
<1>1. IInv => StealNeedsOthers
  BY DEF IInv, TypeOK, OldStatus, OthersActive, StealNeedsOthers
<1> QED BY <1>1, Invariance, PTL

\* After shutdown_async() no worker is forgotten: its flag is set, or a Shutdown task
\* is on its way to it or to a worker that passes the request on.
THEOREM ShutdownReachesAll == Spec => []ShutdownNotLost
<1>1. IInv => ShutdownNotLost  BY DEF IInv
<1> QED BY <1>1, Invariance, PTL

-----------------------------------------------------------------------------
(* The packed word.                                                        *)

LEMMA DivMod ==
  ASSUME NEW m \in Nat \ {0}, NEW q \in Nat, NEW r \in Nat, r < m
  PROVE  (q * m + r) % m = r
BY Z3

LEMMA PackedBound ==
  ASSUME NEW m \in Nat \ {0}, NEW e \in 0 .. EpochMod - 1, NEW r \in Nat, r < m
  PROVE  e * m + r < m * EpochMod
BY Z3

\* The steps that touch the counters, and when they do.
LEMMA CounterStep ==
  ASSUME IInv, [Next]_vars
  PROVE  \/ epoch' = epoch /\ active' = active
         \/ active < N /\ epoch' = epoch /\ active' = active + 1
         \/ active > 0 /\ epoch' = epoch /\ active' = active - 1
         \/ epoch' = (IF epoch + 1 = EpochMod THEN 0 ELSE epoch + 1) /\ active' = active
<1> DEFINE Goal == \/ epoch' = epoch /\ active' = active
                   \/ active < N /\ epoch' = epoch /\ active' = active + 1
                   \/ active > 0 /\ epoch' = epoch /\ active' = active - 1
                   \/ /\ epoch' = (IF epoch + 1 = EpochMod THEN 0 ELSE epoch + 1)
                      /\ active' = active
<1>0. active \in Nat  BY DEF IInv, TypeOK
<1>1. ASSUME NEW w \in Workers, LoopStep(w) PROVE Goal
  <2>1. CASE SetInactive(w)
    <3>1. pc[w] \in ActivePCs  BY <2>1 DEF SetInactive, ActivePCs
    <3> QED BY <1>0, <2>1, <3>1, ActiveCard DEF SetInactive
  <2>2. CASE SetActive(w)
    <3>1. pc[w] \notin ActivePCs  BY <2>2 DEF SetActive, ActivePCs
    <3> QED BY <2>2, <3>1, ActiveCard DEF SetActive
  <2>3. CASE ~SetInactive(w) /\ ~SetActive(w)
    BY <1>1, <2>3 DEF LoopStep, Drain, StealPop, Recheck, WaitNextEpoch, Park,
       UpdateStatus, Repop, PollShutdown, PollReturns, StealHint
  <2> QED BY <2>1, <2>2, <2>3
<1>2. ASSUME NEW w \in Workers, PollOp(w) PROVE Goal
  BY <1>2 DEF PollOp, ShutdownAsync, PollPanics, SpawnSelf, SpawnOther
<1>3. ASSUME NEW x \in Threads, NotifyStep(x) PROVE Goal
  BY <1>3 DEF NotifyStep, NextEpoch, UnparkAll, LoadFlag, Push
<1>4. ASSUME NEW p \in Producers, NEW t \in Tasks, Wake(p, t) PROVE Goal
  BY <1>4 DEF Wake
<1>5. CASE UNCHANGED vars  BY <1>5 DEF vars
<1> QED BY <1>1, <1>2, <1>3, <1>4, <1>5 DEF Next

\* For every number of workers that fits its bits, and every width of the epoch:
\* the pair of counters is the wrapping word of epoch.rs, and neither counter ever
\* carries into the other.
THEOREM PackedInOneWord == Spec => WordSpec
<1> USE EPOCHAssumption
<1> DEFINE s == epoch * EPOCH + active
           M == EPOCH * EpochMod
<1>1. Init => Packed!Init
  BY DEF Init, Packed!Init
<1>2. ASSUME IInv, [Next]_vars
      PROVE  [Packed!Next]_(epoch * EPOCH + active)
  <2>0. /\ epoch \in 0 .. EpochMod - 1 /\ active \in 0 .. N
        /\ EPOCH \in Nat \ {0} /\ active \in Nat /\ active < EPOCH
    BY <1>2 DEF IInv, TypeOK
  <2>1. s % EPOCH = active  BY <2>0, DivMod
  <2>2. s \in Nat /\ M \in Nat \ {0}  BY <2>0
  <2>3. \A r \in Nat : r < M => r % M = r  BY <2>2
  <2>4. CASE epoch' = epoch /\ active' = active
    BY <2>4
  <2>5. CASE active < N /\ epoch' = epoch /\ active' = active + 1
    <3>1. s' = s + 1 /\ s + 1 \in Nat  BY <2>0, <2>5
    <3>2. s + 1 < M  BY <2>0, <2>5, <3>1, PackedBound
    <3>3. Packed!set_active
      BY <2>1, <2>3, <2>5, <3>1, <3>2 DEF Packed!set_active, Packed!active_count, Packed!Word
    <3> QED BY <3>3 DEF Packed!Next
  <2>6. CASE active > 0 /\ epoch' = epoch /\ active' = active - 1
    <3>1. s' = s - 1 /\ s - 1 \in Nat  BY <2>0, <2>6
    <3>2. s - 1 < M  BY <2>0, <2>2, <3>1, PackedBound
    <3>3. Packed!set_inactive
      BY <2>1, <2>3, <2>6, <3>1, <3>2 DEF Packed!set_inactive, Packed!active_count, Packed!Word
    <3> QED BY <3>3 DEF Packed!Next
  <2>7. CASE epoch' = (IF epoch + 1 = EpochMod THEN 0 ELSE epoch + 1) /\ active' = active
    <3>1. s' = (s + EPOCH) % M
      <4>1. CASE epoch + 1 = EpochMod
        <5>1. s' = active /\ s + EPOCH = 1 * M + active  BY <2>0, <2>7, <4>1
        <5>2. active < M  BY <2>0, PackedBound
        <5> QED BY <2>0, <2>2, <5>1, <5>2, DivMod
      <4>2. CASE epoch + 1 # EpochMod
        <5>1. s' = s + EPOCH /\ s + EPOCH \in Nat  BY <2>0, <2>7, <4>2
        <5>2. epoch + 1 \in 0 .. EpochMod - 1  BY <2>0, <4>2
        <5>3. s + EPOCH < M  BY <2>0, <5>2, PackedBound
        <5> QED BY <2>3, <5>1, <5>3
      <4> QED BY <4>1, <4>2
    <3>2. Packed!next_epoch  BY <3>1 DEF Packed!next_epoch, Packed!Word
    <3> QED BY <3>2 DEF Packed!Next
  <2> QED BY <1>2, <2>4, <2>5, <2>6, <2>7, CounterStep
<1> QED BY <1>1, <1>2, Invariance, PTL DEF Spec, WordSpec, Packed!Spec
=============================================================================
