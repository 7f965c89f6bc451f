----------------------------- MODULE TaskProofs -----------------------------
(***************************************************************************)
(* Proofs about module Task.  The invariant Inv of Task is inductive; its  *)
(* conjuncts are taken one lemma at a time, with one case for every action *)
(* of every thread.  The safety properties follow from it.                 *)
(***************************************************************************)
EXTENDS Task, TLAPS, FiniteSetTheorems

USE DEF queues, memory, guard, MUTED, NOTIFIED, DROPPED

\* The Wakers of a task are finitely many, so rc is a natural number.
LEMMA ReferringCard ==
  ASSUME TypeOK
  PROVE  IsFiniteSet(Referring) /\ Cardinality(Referring) \in Nat
<1>1. Referring \subseteq Handles  BY DEF Referring
<1>2. IsFiniteSet(Referring)  BY <1>1, FS_Subset, HandlesAssumption
<1> QED BY <1>2, FS_CardinalityType

\* Whoever holds a reference keeps the count positive.
LEMMA RefPositive ==
  ASSUME Inv
  PROVE  /\ runtime_ref => rc >= 1
         /\ \A h \in Referring : rc >= 1
<1> USE DEF Inv
<1>1. IsFiniteSet(Referring) /\ Cardinality(Referring) \in Nat  BY ReferringCard
<1>2. runtime_ref => rc >= 1  BY <1>1 DEF References
<1>3. ASSUME NEW h \in Referring PROVE rc >= 1
  <2>1. Cardinality(Referring) # 0  BY <1>1, FS_EmptySet
  <2> QED BY <1>1, <2>1 DEF References
<1> QED BY <1>2, <1>3

\* The owner of the task holds the runtime's reference.
LEMMA OwnerRefers ==
  ASSUME Inv
  PROVE  /\ \A w \in Workers : wpc[w] \in PollPCs => rc >= 1
         /\ mpc \in {"drop", "release"} => rc >= 1
BY RefPositive DEF Inv, OwnerMuted, Owned, InPoll, GuardHolds

\* In the 'cas loop the status is one of the two values that the code expects.
LEMMA CasStatus ==
  ASSUME Inv, NEW w \in Workers, wpc[w] = "cas"
  PROVE  status \in {{MUTED}, {MUTED, NOTIFIED}}
<1>1. MUTED \in status /\ DROPPED \notin status
  BY DEF Inv, OwnerMuted, Stages, Owned, InPoll, PollPCs
<1>2. status \subseteq {MUTED, NOTIFIED}  BY <1>1 DEF Inv, TypeOK, Bits
<1> QED BY <1>1, <1>2

\* Every step of every thread keeps the types; a release of a reference finds rc
\* positive, because whoever releases one holds one.
LEMMA TypeStep ==
  ASSUME Inv, [Next]_vars
  PROVE  TypeOK'
<1> USE DEF Inv, TypeOK, Bits, WorkerPCs, HandlePCs, MainPCs, PollPCs
<1>1. ASSUME NEW h \in Handles, HandleNext(h) PROVE  TypeOK'
  <2>1. CASE Clone(h)  BY <2>1 DEF Clone
  <2>2. CASE DropHandle(h)  BY <2>2, RefPositive DEF DropHandle, AfterRcDec, Referring
  <2>3. CASE DeallocHandle(h)  BY <2>3 DEF DeallocHandle
  <2>4. CASE Push(h)  BY <2>4 DEF Push
  <2>5. CASE NextEpoch(h)  BY <2>5 DEF NextEpoch
  <2>6. ASSUME NEW thread \in ThreadKinds, WakeByRef(h, thread) PROVE  TypeOK'
    <3>1. owed' \in BOOLEAN  BY <2>6 DEF WakeByRef, SetNotified
    <3>2. hpc' \in [Handles -> HandlePCs]  BY <2>6 DEF WakeByRef, ThreadKinds
    <3>3. task_lists' \in [Workers -> Nat]  BY <2>6 DEF WakeByRef, ThreadKinds
    <3> QED BY <2>6, <3>1, <3>2, <3>3 DEF WakeByRef, SetNotified
  <2> QED BY <1>1, <2>1, <2>2, <2>3, <2>4, <2>5, <2>6 DEF HandleNext
<1>2. ASSUME NEW w \in Workers, WorkerNext(w) PROVE  TypeOK'
  <2>1. CASE PopFront(w)  BY <2>1 DEF PopFront
  <2>2. CASE ClearNotified(w)  BY <2>2 DEF ClearNotified
  <2>3. CASE FnPoll(w)  BY <2>3 DEF FnPoll
  <2>4. CASE SelfWake(w)  BY <2>4 DEF SelfWake, SetNotified
  <2>5. CASE PollPending(w)  BY <2>5 DEF PollPending
  <2>6. CASE CasPending(w)  BY <2>6 DEF CasPending, NextStatus
  <2>7. CASE PollReady(w)  BY <2>7 DEF PollReady
  <2>8. CASE SetDropped(w)  BY <2>8 DEF SetDropped
  <2>9. CASE DropFuture(w)  BY <2>9 DEF DropFuture
  <2>10. CASE Release(w)
    <3>1. rc >= 1  BY <2>10, OwnerRefers DEF Release
    <3>2. rc' \in Nat  BY <2>10, <3>1 DEF Release
    <3>3. wpc' \in [Workers -> WorkerPCs]  BY <2>10 DEF Release, AfterRcDec
    <3> QED BY <2>10, <3>2, <3>3 DEF Release
  <2>11. CASE PollPanic(w)  BY <2>11 DEF PollPanic
  <2>12. CASE Unwind(w)
    <3>1. rc >= 1  BY <2>12, OwnerRefers DEF Unwind
    <3>2. rc' \in Nat  BY <2>12, <3>1 DEF Unwind
    <3>3. wpc' \in [Workers -> WorkerPCs]  BY <2>12 DEF Unwind
    <3> QED BY <2>12, <3>2, <3>3 DEF Unwind
  <2>13. CASE Dealloc(w)  BY <2>13 DEF Dealloc
  <2>14. CASE Exit(w)  BY <2>14 DEF Exit
  <2>15. ASSUME NEW v \in Workers, Steal(w, v) PROVE  TypeOK'  BY <2>15 DEF Steal
  <2> QED BY <1>2, <2>1, <2>2, <2>3, <2>4, <2>5, <2>6, <2>7, <2>8, <2>9, <2>10, <2>11,
        <2>12, <2>13, <2>14, <2>15 DEF WorkerNext, PollStep
<1>3. ASSUME MainNext PROVE  TypeOK'
  <2>1. CASE Join  BY <2>1 DEF Join
  <2>2. CASE ReactorsExit  BY <2>2 DEF ReactorsExit, FlushBatch
  <2>3. CASE CollectDone  BY <2>3 DEF CollectDone
  <2>4. CASE DropInPlace  BY <2>4 DEF DropInPlace, Stages
  <2>5. CASE GuardDropFuture  BY <2>5 DEF GuardDropFuture
  <2>6. CASE GuardRelease
    <3>1. rc >= 1  BY <2>6, OwnerRefers DEF GuardRelease
    <3>2. rc' \in Nat  BY <2>6, <3>1 DEF GuardRelease
    <3> QED BY <2>6, <3>2 DEF GuardRelease, AfterRcDec
  <2>7. CASE GuardDealloc  BY <2>7 DEF GuardDealloc
  <2>8. ASSUME NEW v \in Workers, Collect(v) PROVE  TypeOK'  BY <2>8 DEF Collect
  <2>9. ASSUME NEW v \in Workers, FreeWorker(v) PROVE  TypeOK'  BY <2>9 DEF FreeWorker
  <2> QED BY <1>3, <2>1, <2>2, <2>3, <2>4, <2>5, <2>6, <2>7, <2>8, <2>9 DEF MainNext
<1>4. CASE PushBatch  BY <1>4 DEF PushBatch, FlushBatch
<1>5. CASE UNCHANGED vars  BY <1>5 DEF vars
<1> QED BY <1>1, <1>2, <1>3, <1>4, <1>5 DEF Next

\* The task stays in one place: a step moves it from one owner to the next, and
\* wake() links it only when nobody owns it, since every owner keeps MUTED set.
LEMMA ExclusiveStep ==
  ASSUME Inv, [Next]_vars
  PROVE  Exclusive'
<1> USE DEF Inv, TypeOK, Exclusive, PollPCs, GuardHolds, Linked, InQueue, InBatch, InPoll,
      InWake
<1>1. ASSUME NEW h \in Handles, HandleNext(h) PROVE  Exclusive'
  <2>1. CASE Clone(h)  BY <2>1 DEF Clone
  <2>2. CASE DropHandle(h)  BY <2>2 DEF DropHandle, AfterRcDec
  <2>3. CASE DeallocHandle(h)  BY <2>3 DEF DeallocHandle
  <2>4. CASE Push(h)  BY <2>4 DEF Push
  <2>5. CASE NextEpoch(h)  BY <2>5 DEF NextEpoch
  <2>6. ASSUME NEW thread \in ThreadKinds, WakeByRef(h, thread) PROVE  Exclusive'
    <3>1. CASE ~Claims  BY <2>6, <3>1 DEF WakeByRef
    <3>2. CASE Claims
      <4>1. ~Owned  BY <3>2 DEF Claims, OwnerMuted
      <4> QED BY <2>6, <3>2, <4>1 DEF WakeByRef, Owned
    <3> QED BY <3>1, <3>2
  <2> QED BY <1>1, <2>1, <2>2, <2>3, <2>4, <2>5, <2>6 DEF HandleNext
<1>2. ASSUME NEW w \in Workers, WorkerNext(w) PROVE  Exclusive'
  <2>1. CASE PopFront(w)  BY <2>1 DEF PopFront
  <2>2. CASE ClearNotified(w)  BY <2>2 DEF ClearNotified
  <2>3. CASE FnPoll(w)  BY <2>3 DEF FnPoll
  <2>4. CASE SelfWake(w)  BY <2>4 DEF SelfWake, SetNotified
  <2>5. CASE PollPending(w)  BY <2>5 DEF PollPending
  <2>6. CASE CasPending(w)  BY <2>6 DEF CasPending, NextStatus
  <2>7. CASE PollReady(w)  BY <2>7 DEF PollReady
  <2>8. CASE SetDropped(w)  BY <2>8 DEF SetDropped
  <2>9. CASE DropFuture(w)  BY <2>9 DEF DropFuture
  <2>10. CASE Release(w)  BY <2>10 DEF Release, AfterRcDec
  <2>11. CASE PollPanic(w)  BY <2>11 DEF PollPanic
  <2>12. CASE Unwind(w)  BY <2>12 DEF Unwind
  <2>13. CASE Dealloc(w)  BY <2>13 DEF Dealloc
  <2>14. CASE Exit(w)  BY <2>14 DEF Exit
  <2>15. ASSUME NEW v \in Workers, Steal(w, v) PROVE  Exclusive'  BY <2>15 DEF Steal
  <2> QED BY <1>2, <2>1, <2>2, <2>3, <2>4, <2>5, <2>6, <2>7, <2>8, <2>9, <2>10, <2>11,
        <2>12, <2>13, <2>14, <2>15 DEF WorkerNext, PollStep
<1>3. ASSUME MainNext PROVE  Exclusive'
  <2>1. CASE Join  BY <2>1 DEF Join
  <2>2. CASE ReactorsExit  BY <2>2 DEF ReactorsExit, FlushBatch
  <2>3. CASE CollectDone  BY <2>3 DEF CollectDone
  <2>4. CASE DropInPlace  BY <2>4 DEF DropInPlace, Stages
  <2>5. CASE GuardDropFuture  BY <2>5 DEF GuardDropFuture
  <2>6. CASE GuardRelease  BY <2>6 DEF GuardRelease, AfterRcDec
  <2>7. CASE GuardDealloc  BY <2>7 DEF GuardDealloc
  <2>8. ASSUME NEW v \in Workers, Collect(v) PROVE  Exclusive'
    <3>1. CASE task_list[v] = 0  BY <2>8, <3>1 DEF Collect
    <3>2. CASE task_list[v] > 0  BY <2>8, <3>2 DEF Collect
    <3> QED BY <3>1, <3>2
  <2>9. ASSUME NEW v \in Workers, FreeWorker(v) PROVE  Exclusive'  BY <2>9 DEF FreeWorker
  <2> QED BY <1>3, <2>1, <2>2, <2>3, <2>4, <2>5, <2>6, <2>7, <2>8, <2>9 DEF MainNext
<1>4. CASE PushBatch  BY <1>4 DEF PushBatch, FlushBatch
<1>5. CASE UNCHANGED vars  BY <1>5 DEF vars
<1> QED BY <1>1, <1>2, <1>3, <1>4, <1>5 DEF Next

\* MUTED is set whenever the task has an owner: only the compare_exchange of the
\* worker that owns the task clears it, and that step ends the ownership.
LEMMA OwnerMutedStep ==
  ASSUME Inv, [Next]_vars
  PROVE  OwnerMuted'
<1> USE DEF Inv, TypeOK, Exclusive, OwnerMuted, Owned, Bits, PollPCs, GuardHolds, Linked,
      InQueue, InBatch, InPoll, InWake
<1>1. ASSUME NEW h \in Handles, HandleNext(h) PROVE  OwnerMuted'
  <2>1. CASE Clone(h)  BY <2>1 DEF Clone
  <2>2. CASE DropHandle(h)  BY <2>2 DEF DropHandle, AfterRcDec
  <2>3. CASE DeallocHandle(h)  BY <2>3 DEF DeallocHandle
  <2>4. CASE Push(h)  BY <2>4 DEF Push
  <2>5. CASE NextEpoch(h)  BY <2>5 DEF NextEpoch
  <2>6. ASSUME NEW thread \in ThreadKinds, WakeByRef(h, thread) PROVE  OwnerMuted'
    BY <2>6 DEF WakeByRef, SetNotified, Claims
  <2> QED BY <1>1, <2>1, <2>2, <2>3, <2>4, <2>5, <2>6 DEF HandleNext
<1>2. ASSUME NEW w \in Workers, WorkerNext(w) PROVE  OwnerMuted'
  <2>1. CASE PopFront(w)  BY <2>1 DEF PopFront
  <2>2. CASE ClearNotified(w)  BY <2>2 DEF ClearNotified
  <2>3. CASE FnPoll(w)  BY <2>3 DEF FnPoll
  <2>4. CASE SelfWake(w)  BY <2>4 DEF SelfWake, SetNotified
  <2>5. CASE PollPending(w)  BY <2>5 DEF PollPending
  <2>6. CASE CasPending(w)  BY <2>6 DEF CasPending, NextStatus
  <2>7. CASE PollReady(w)  BY <2>7 DEF PollReady
  <2>8. CASE SetDropped(w)  BY <2>8 DEF SetDropped
  <2>9. CASE DropFuture(w)  BY <2>9 DEF DropFuture
  <2>10. CASE Release(w)  BY <2>10 DEF Release, AfterRcDec
  <2>11. CASE PollPanic(w)  BY <2>11 DEF PollPanic
  <2>12. CASE Unwind(w)  BY <2>12 DEF Unwind
  <2>13. CASE Dealloc(w)  BY <2>13 DEF Dealloc
  <2>14. CASE Exit(w)  BY <2>14 DEF Exit
  <2>15. ASSUME NEW v \in Workers, Steal(w, v) PROVE  OwnerMuted'  BY <2>15 DEF Steal
  <2> QED BY <1>2, <2>1, <2>2, <2>3, <2>4, <2>5, <2>6, <2>7, <2>8, <2>9, <2>10, <2>11,
        <2>12, <2>13, <2>14, <2>15 DEF WorkerNext, PollStep
<1>3. ASSUME MainNext PROVE  OwnerMuted'
  <2>1. CASE Join  BY <2>1 DEF Join
  <2>2. CASE ReactorsExit  BY <2>2 DEF ReactorsExit, FlushBatch
  <2>3. CASE CollectDone  BY <2>3 DEF CollectDone
  <2>4. CASE DropInPlace  BY <2>4 DEF DropInPlace, Stages
  <2>5. CASE GuardDropFuture  BY <2>5 DEF GuardDropFuture
  <2>6. CASE GuardRelease  BY <2>6 DEF GuardRelease, AfterRcDec, Stages
  <2>7. CASE GuardDealloc  BY <2>7 DEF GuardDealloc
  <2>8. ASSUME NEW v \in Workers, Collect(v) PROVE  OwnerMuted'  BY <2>8 DEF Collect
  <2>9. ASSUME NEW v \in Workers, FreeWorker(v) PROVE  OwnerMuted'  BY <2>9 DEF FreeWorker
  <2> QED BY <1>3, <2>1, <2>2, <2>3, <2>4, <2>5, <2>6, <2>7, <2>8, <2>9 DEF MainNext
<1>4. CASE PushBatch  BY <1>4 DEF PushBatch, FlushBatch
<1>5. CASE UNCHANGED vars  BY <1>5 DEF vars
<1> QED BY <1>1, <1>2, <1>3, <1>4, <1>5 DEF Next

\* Each stage of poll and of the clean-up keeps what it knows of the status.
LEMMA StagesStep ==
  ASSUME Inv, [Next]_vars
  PROVE  Stages'
<1> USE DEF Inv, TypeOK, Exclusive, OwnerMuted, Owned, Stages, Bits, PollPCs, GuardHolds,
      Linked, InQueue, InBatch, InPoll, InWake
<1>1. ASSUME NEW h \in Handles, HandleNext(h) PROVE  Stages'
  <2>1. CASE Clone(h)  BY <2>1 DEF Clone
  <2>2. CASE DropHandle(h)  BY <2>2 DEF DropHandle, AfterRcDec
  <2>3. CASE DeallocHandle(h)  BY <2>3 DEF DeallocHandle
  <2>4. CASE Push(h)  BY <2>4 DEF Push
  <2>5. CASE NextEpoch(h)  BY <2>5 DEF NextEpoch
  <2>6. ASSUME NEW thread \in ThreadKinds, WakeByRef(h, thread) PROVE  Stages'
    BY <2>6 DEF WakeByRef, SetNotified, Claims
  <2> QED BY <1>1, <2>1, <2>2, <2>3, <2>4, <2>5, <2>6 DEF HandleNext
<1>2. ASSUME NEW w \in Workers, WorkerNext(w) PROVE  Stages'
  <2>1. CASE PopFront(w)  BY <2>1 DEF PopFront
  <2>2. CASE ClearNotified(w)  BY <2>2 DEF ClearNotified
  <2>3. CASE FnPoll(w)  BY <2>3 DEF FnPoll
  <2>4. CASE SelfWake(w)  BY <2>4 DEF SelfWake, SetNotified
  <2>5. CASE PollPending(w)  BY <2>5 DEF PollPending
  <2>6. CASE CasPending(w)
    <3>1. status \in {{MUTED}, {MUTED, NOTIFIED}}  BY <2>6, CasStatus DEF CasPending
    <3> QED BY <2>6, <3>1 DEF CasPending, NextStatus
  <2>7. CASE PollReady(w)  BY <2>7 DEF PollReady
  <2>8. CASE SetDropped(w)  BY <2>8 DEF SetDropped
  <2>9. CASE DropFuture(w)  BY <2>9 DEF DropFuture
  <2>10. CASE Release(w)  BY <2>10 DEF Release, AfterRcDec
  <2>11. CASE PollPanic(w)  BY <2>11 DEF PollPanic
  <2>12. CASE Unwind(w)  BY <2>12 DEF Unwind
  <2>13. CASE Dealloc(w)  BY <2>13 DEF Dealloc
  <2>14. CASE Exit(w)  BY <2>14 DEF Exit
  <2>15. ASSUME NEW v \in Workers, Steal(w, v) PROVE  Stages'  BY <2>15 DEF Steal
  <2> QED BY <1>2, <2>1, <2>2, <2>3, <2>4, <2>5, <2>6, <2>7, <2>8, <2>9, <2>10, <2>11,
        <2>12, <2>13, <2>14, <2>15 DEF WorkerNext, PollStep
<1>3. ASSUME MainNext PROVE  Stages'
  <2>1. CASE Join  BY <2>1 DEF Join
  <2>2. CASE ReactorsExit  BY <2>2 DEF ReactorsExit, FlushBatch
  <2>3. CASE CollectDone  BY <2>3 DEF CollectDone
  <2>4. CASE DropInPlace  BY <2>4 DEF DropInPlace
  <2>5. CASE GuardDropFuture  BY <2>5 DEF GuardDropFuture
  <2>6. CASE GuardRelease  BY <2>6 DEF GuardRelease, AfterRcDec
  <2>7. CASE GuardDealloc  BY <2>7 DEF GuardDealloc
  <2>8. ASSUME NEW v \in Workers, Collect(v) PROVE  Stages'  BY <2>8 DEF Collect
  <2>9. ASSUME NEW v \in Workers, FreeWorker(v) PROVE  Stages'  BY <2>9 DEF FreeWorker
  <2> QED BY <1>3, <2>1, <2>2, <2>3, <2>4, <2>5, <2>6, <2>7, <2>8, <2>9 DEF MainNext
<1>4. CASE PushBatch  BY <1>4 DEF PushBatch, FlushBatch
<1>5. CASE UNCHANGED vars  BY <1>5 DEF vars
<1> QED BY <1>1, <1>2, <1>3, <1>4, <1>5 DEF Next

\* The future is dropped between the setting of DROPPED and the release.
LEMMA DroppingStep ==
  ASSUME Inv, [Next]_vars
  PROVE  Dropping'
<1> USE DEF Inv, TypeOK, Exclusive, OwnerMuted, Owned, Stages, Dropping, PollPCs,
      GuardHolds, Linked, InQueue, InBatch, InPoll, InWake
<1>1. ASSUME NEW h \in Handles, HandleNext(h) PROVE  Dropping'
  <2>1. CASE Clone(h)  BY <2>1 DEF Clone
  <2>2. CASE DropHandle(h)  BY <2>2 DEF DropHandle, AfterRcDec
  <2>3. CASE DeallocHandle(h)  BY <2>3 DEF DeallocHandle
  <2>4. CASE Push(h)  BY <2>4 DEF Push
  <2>5. CASE NextEpoch(h)  BY <2>5 DEF NextEpoch
  <2>6. ASSUME NEW thread \in ThreadKinds, WakeByRef(h, thread) PROVE  Dropping'
    BY <2>6 DEF WakeByRef, SetNotified, Claims
  <2> QED BY <1>1, <2>1, <2>2, <2>3, <2>4, <2>5, <2>6 DEF HandleNext
<1>2. ASSUME NEW w \in Workers, WorkerNext(w) PROVE  Dropping'
  <2>1. CASE PopFront(w)  BY <2>1 DEF PopFront
  <2>2. CASE ClearNotified(w)  BY <2>2 DEF ClearNotified
  <2>3. CASE FnPoll(w)  BY <2>3 DEF FnPoll
  <2>4. CASE SelfWake(w)  BY <2>4 DEF SelfWake, SetNotified
  <2>5. CASE PollPending(w)  BY <2>5 DEF PollPending
  <2>6. CASE CasPending(w)  BY <2>6 DEF CasPending, NextStatus
  <2>7. CASE PollReady(w)  BY <2>7 DEF PollReady
  <2>8. CASE SetDropped(w)  BY <2>8 DEF SetDropped
  <2>9. CASE DropFuture(w)  BY <2>9 DEF DropFuture
  <2>10. CASE Release(w)  BY <2>10 DEF Release, AfterRcDec
  <2>11. CASE PollPanic(w)  BY <2>11 DEF PollPanic
  <2>12. CASE Unwind(w)  BY <2>12 DEF Unwind
  <2>13. CASE Dealloc(w)  BY <2>13 DEF Dealloc
  <2>14. CASE Exit(w)  BY <2>14 DEF Exit
  <2>15. ASSUME NEW v \in Workers, Steal(w, v) PROVE  Dropping'  BY <2>15 DEF Steal
  <2> QED BY <1>2, <2>1, <2>2, <2>3, <2>4, <2>5, <2>6, <2>7, <2>8, <2>9, <2>10, <2>11,
        <2>12, <2>13, <2>14, <2>15 DEF WorkerNext, PollStep
<1>3. ASSUME MainNext PROVE  Dropping'
  <2>1. CASE Join  BY <2>1 DEF Join
  <2>2. CASE ReactorsExit  BY <2>2 DEF ReactorsExit, FlushBatch
  <2>3. CASE CollectDone  BY <2>3 DEF CollectDone
  <2>4. CASE DropInPlace  BY <2>4 DEF DropInPlace
  <2>5. CASE GuardDropFuture  BY <2>5 DEF GuardDropFuture
  <2>6. CASE GuardRelease  BY <2>6 DEF GuardRelease, AfterRcDec
  <2>7. CASE GuardDealloc  BY <2>7 DEF GuardDealloc
  <2>8. ASSUME NEW v \in Workers, Collect(v) PROVE  Dropping'  BY <2>8 DEF Collect
  <2>9. ASSUME NEW v \in Workers, FreeWorker(v) PROVE  Dropping'  BY <2>9 DEF FreeWorker
  <2> QED BY <1>3, <2>1, <2>2, <2>3, <2>4, <2>5, <2>6, <2>7, <2>8, <2>9 DEF MainNext
<1>4. CASE PushBatch  BY <1>4 DEF PushBatch, FlushBatch
<1>5. CASE UNCHANGED vars  BY <1>5 DEF vars
<1> QED BY <1>1, <1>2, <1>3, <1>4, <1>5 DEF Next

\* An unanswered wake() stays recorded in NOTIFIED until the next poll is due.
LEMMA RecordedStep ==
  ASSUME Inv, [Next]_vars
  PROVE  Recorded'
<1> USE DEF Inv, TypeOK, Exclusive, OwnerMuted, Owned, Stages, Recorded, Bits, PollPCs,
      GuardHolds, Linked, InQueue, InBatch, InPoll, InWake
<1>1. ASSUME NEW h \in Handles, HandleNext(h) PROVE  Recorded'
  <2>1. CASE Clone(h)  BY <2>1 DEF Clone
  <2>2. CASE DropHandle(h)  BY <2>2 DEF DropHandle, AfterRcDec
  <2>3. CASE DeallocHandle(h)  BY <2>3 DEF DeallocHandle
  <2>4. CASE Push(h)  BY <2>4 DEF Push
  <2>5. CASE NextEpoch(h)  BY <2>5 DEF NextEpoch
  <2>6. ASSUME NEW thread \in ThreadKinds, WakeByRef(h, thread) PROVE  Recorded'
    BY <2>6 DEF WakeByRef, SetNotified, Claims
  <2> QED BY <1>1, <2>1, <2>2, <2>3, <2>4, <2>5, <2>6 DEF HandleNext
<1>2. ASSUME NEW w \in Workers, WorkerNext(w) PROVE  Recorded'
  <2>1. CASE PopFront(w)  BY <2>1 DEF PopFront
  <2>2. CASE ClearNotified(w)  BY <2>2 DEF ClearNotified
  <2>3. CASE FnPoll(w)  BY <2>3 DEF FnPoll
  <2>4. CASE SelfWake(w)  BY <2>4 DEF SelfWake, SetNotified
  <2>5. CASE PollPending(w)  BY <2>5 DEF PollPending
  <2>6. CASE CasPending(w)  BY <2>6 DEF CasPending, NextStatus
  <2>7. CASE PollReady(w)  BY <2>7 DEF PollReady
  <2>8. CASE SetDropped(w)  BY <2>8 DEF SetDropped
  <2>9. CASE DropFuture(w)  BY <2>9 DEF DropFuture
  <2>10. CASE Release(w)  BY <2>10 DEF Release, AfterRcDec
  <2>11. CASE PollPanic(w)  BY <2>11 DEF PollPanic
  <2>12. CASE Unwind(w)  BY <2>12 DEF Unwind
  <2>13. CASE Dealloc(w)  BY <2>13 DEF Dealloc
  <2>14. CASE Exit(w)  BY <2>14 DEF Exit
  <2>15. ASSUME NEW v \in Workers, Steal(w, v) PROVE  Recorded'  BY <2>15 DEF Steal
  <2> QED BY <1>2, <2>1, <2>2, <2>3, <2>4, <2>5, <2>6, <2>7, <2>8, <2>9, <2>10, <2>11,
        <2>12, <2>13, <2>14, <2>15 DEF WorkerNext, PollStep
<1>3. ASSUME MainNext PROVE  Recorded'
  <2>1. CASE Join  BY <2>1 DEF Join
  <2>2. CASE ReactorsExit  BY <2>2 DEF ReactorsExit, FlushBatch
  <2>3. CASE CollectDone  BY <2>3 DEF CollectDone
  <2>4. CASE DropInPlace  BY <2>4 DEF DropInPlace
  <2>5. CASE GuardDropFuture  BY <2>5 DEF GuardDropFuture
  <2>6. CASE GuardRelease  BY <2>6 DEF GuardRelease, AfterRcDec
  <2>7. CASE GuardDealloc  BY <2>7 DEF GuardDealloc
  <2>8. ASSUME NEW v \in Workers, Collect(v) PROVE  Recorded'  BY <2>8 DEF Collect
  <2>9. ASSUME NEW v \in Workers, FreeWorker(v) PROVE  Recorded'  BY <2>9 DEF FreeWorker
  <2> QED BY <1>3, <2>1, <2>2, <2>3, <2>4, <2>5, <2>6, <2>7, <2>8, <2>9 DEF MainNext
<1>4. CASE PushBatch  BY <1>4 DEF PushBatch, FlushBatch
<1>5. CASE UNCHANGED vars  BY <1>5 DEF vars
<1> QED BY <1>1, <1>2, <1>3, <1>4, <1>5 DEF Next

\* rc stays the number of references, and one thread deallocates.
LEMMA ReferencesStep ==
  ASSUME Inv, [Next]_vars
  PROVE  References'
<1> USE DEF Inv, TypeOK, References, Deallocating
<1>1. ASSUME NEW h \in Handles, HandleNext(h) PROVE  References'
  <2>1. CASE Clone(h)  
    <3>1. rc >= 1  BY <2>1, RefPositive, OwnerRefers DEF Clone, Referring, PollPCs
    <3>2. Referring' = Referring \cup {h} /\ h \notin Referring
      BY <2>1 DEF Clone, Referring
    <3>3. Cardinality(Referring') = Cardinality(Referring) + 1
      BY <3>2, ReferringCard, FS_AddElement
    <3> QED BY <2>1, <3>1, <3>3, ReferringCard DEF Clone
  <2>2. CASE DropHandle(h)  
    <3>1. rc >= 1 /\ h \in Referring  BY <2>2, RefPositive DEF DropHandle, Referring
    <3>2. Referring' = Referring \ {h}
      BY <2>2 DEF DropHandle, AfterRcDec, Referring
    <3>3. Cardinality(Referring') = Cardinality(Referring) - 1
      BY <3>1, <3>2, ReferringCard, FS_RemoveElement
    <3> QED BY <2>2, <3>1, <3>3, ReferringCard DEF DropHandle, AfterRcDec
  <2>3. CASE DeallocHandle(h)  
    <3>1. Referring' = Referring  BY <2>3 DEF Referring, DeallocHandle
    <3> QED BY <2>3, <3>1 DEF DeallocHandle, Stages
  <2>4. CASE Push(h)  
    <3>1. Referring' = Referring  BY <2>4 DEF Referring, Push
    <3> QED BY <2>4, <3>1 DEF Push
  <2>5. CASE NextEpoch(h)  
    <3>1. Referring' = Referring  BY <2>5 DEF Referring, NextEpoch
    <3> QED BY <2>5, <3>1 DEF NextEpoch
  <2>6. ASSUME NEW thread \in ThreadKinds, WakeByRef(h, thread) PROVE  References'  
    <3>1. hpc' = hpc \/ \E p \in {"push", "live", "fault"} : hpc' = [hpc EXCEPT ![h] = p]
      <4>1. CASE thread = "external"  BY <2>6, <4>1 DEF WakeByRef
      <4>2. CASE thread = "reactor"  BY <2>6, <4>2 DEF WakeByRef
      <4>3. CASE thread = "worker"  BY <2>6, <4>3 DEF WakeByRef
      <4> QED BY <4>1, <4>2, <4>3 DEF ThreadKinds
    <3>2. Referring' = Referring  BY <2>6, <3>1 DEF Referring, WakeByRef
    <3> QED BY <2>6, <3>1, <3>2 DEF WakeByRef
  <2> QED BY <1>1, <2>1, <2>2, <2>3, <2>4, <2>5, <2>6 DEF HandleNext
<1>2. ASSUME NEW w \in Workers, WorkerNext(w) PROVE  References'
  <2>1. CASE PopFront(w)  
    <3>1. Referring' = Referring  BY <2>1 DEF Referring, PopFront
    <3> QED BY <2>1, <3>1 DEF PopFront
  <2>2. CASE ClearNotified(w)  
    <3>1. Referring' = Referring  BY <2>2 DEF Referring, ClearNotified
    <3> QED BY <2>2, <3>1 DEF ClearNotified
  <2>3. CASE FnPoll(w)  
    <3>1. Referring' = Referring  BY <2>3 DEF Referring, FnPoll
    <3> QED BY <2>3, <3>1 DEF FnPoll
  <2>4. CASE SelfWake(w)  
    <3>1. Referring' = Referring  BY <2>4 DEF Referring, SelfWake, SetNotified
    <3> QED BY <2>4, <3>1 DEF SelfWake, SetNotified
  <2>5. CASE PollPending(w)  
    <3>1. Referring' = Referring  BY <2>5 DEF Referring, PollPending
    <3> QED BY <2>5, <3>1 DEF PollPending
  <2>6. CASE CasPending(w)  
    <3>1. Referring' = Referring  BY <2>6 DEF Referring, CasPending, NextStatus
    <3> QED BY <2>6, <3>1 DEF CasPending, NextStatus
  <2>7. CASE PollReady(w)  
    <3>1. Referring' = Referring  BY <2>7 DEF Referring, PollReady
    <3> QED BY <2>7, <3>1 DEF PollReady
  <2>8. CASE SetDropped(w)  
    <3>1. Referring' = Referring  BY <2>8 DEF Referring, SetDropped
    <3> QED BY <2>8, <3>1 DEF SetDropped
  <2>9. CASE DropFuture(w)  
    <3>1. Referring' = Referring  BY <2>9 DEF Referring, DropFuture
    <3> QED BY <2>9, <3>1 DEF DropFuture
  <2>10. CASE Release(w)  
    <3>1. Referring' = Referring  BY <2>10 DEF Referring, Release
    <3>2. runtime_ref  BY <2>10 DEF OwnerMuted, Owned, InPoll, GuardHolds, PollPCs,
          Release
    <3> QED BY <2>10, <3>1, <3>2, ReferringCard DEF Release, AfterRcDec
  <2>11. CASE PollPanic(w)  
    <3>1. Referring' = Referring  BY <2>11 DEF Referring, PollPanic
    <3> QED BY <2>11, <3>1 DEF PollPanic
  <2>12. CASE Unwind(w)  
    <3>1. Referring' = Referring  BY <2>12 DEF Referring, Unwind
    <3>2. runtime_ref  BY <2>12 DEF OwnerMuted, Owned, InPoll, GuardHolds, PollPCs, Unwind
    <3> QED BY <2>12, <3>1, <3>2, ReferringCard DEF Unwind
  <2>13. CASE Dealloc(w)  
    <3>1. Referring' = Referring  BY <2>13 DEF Referring, Dealloc
    <3> QED BY <2>13, <3>1 DEF Dealloc, Stages
  <2>14. CASE Exit(w)  
    <3>1. Referring' = Referring  BY <2>14 DEF Referring, Exit
    <3> QED BY <2>14, <3>1 DEF Exit
  <2>15. ASSUME NEW v \in Workers, Steal(w, v) PROVE  References'  
    <3>1. Referring' = Referring  BY <2>15 DEF Referring, Steal
    <3> QED BY <2>15, <3>1 DEF Steal
  <2> QED BY <1>2, <2>1, <2>2, <2>3, <2>4, <2>5, <2>6, <2>7, <2>8, <2>9, <2>10, <2>11,
        <2>12, <2>13, <2>14, <2>15 DEF WorkerNext, PollStep
<1>3. ASSUME MainNext PROVE  References'
  <2>1. CASE Join  
    <3>1. Referring' = Referring  BY <2>1 DEF Referring, Join
    <3> QED BY <2>1, <3>1 DEF Join
  <2>2. CASE ReactorsExit  
    <3>1. Referring' = Referring  BY <2>2 DEF Referring, ReactorsExit, FlushBatch
    <3> QED BY <2>2, <3>1 DEF ReactorsExit, FlushBatch
  <2>3. CASE CollectDone  
    <3>1. Referring' = Referring  BY <2>3 DEF Referring, CollectDone
    <3> QED BY <2>3, <3>1 DEF CollectDone
  <2>4. CASE DropInPlace  
    <3>1. Referring' = Referring  BY <2>4 DEF Referring, DropInPlace
    <3> QED BY <2>4, <3>1 DEF DropInPlace
  <2>5. CASE GuardDropFuture  
    <3>1. Referring' = Referring  BY <2>5 DEF Referring, GuardDropFuture
    <3> QED BY <2>5, <3>1 DEF GuardDropFuture
  <2>6. CASE GuardRelease  
    <3>1. Referring' = Referring  BY <2>6 DEF Referring, GuardRelease
    <3>2. runtime_ref  BY <2>6 DEF OwnerMuted, Owned, InPoll, GuardHolds, PollPCs,
          GuardRelease
    <3> QED BY <2>6, <3>1, <3>2, ReferringCard DEF GuardRelease, AfterRcDec
  <2>7. CASE GuardDealloc  
    <3>1. Referring' = Referring  BY <2>7 DEF Referring, GuardDealloc
    <3> QED BY <2>7, <3>1 DEF GuardDealloc, Stages
  <2>8. ASSUME NEW v \in Workers, Collect(v) PROVE  References'  
    <3>1. Referring' = Referring  BY <2>8 DEF Referring, Collect
    <3> QED BY <2>8, <3>1 DEF Collect
  <2>9. ASSUME NEW v \in Workers, FreeWorker(v) PROVE  References'
    <3>1. Referring' = Referring  BY <2>9 DEF Referring, FreeWorker
    <3> QED BY <2>9, <3>1 DEF FreeWorker
  <2> QED BY <1>3, <2>1, <2>2, <2>3, <2>4, <2>5, <2>6, <2>7, <2>8, <2>9 DEF MainNext
<1>4. CASE PushBatch  
  <2>1. Referring' = Referring  BY <1>4 DEF Referring, PushBatch, FlushBatch
  <2> QED BY <1>4, <2>1 DEF PushBatch, FlushBatch
<1>5. CASE UNCHANGED vars  BY <1>5 DEF vars, Referring
<1> QED BY <1>1, <1>2, <1>3, <1>4, <1>5 DEF Next

\* If idle tasks are not woken on worker threads, a muted task is never orphaned
\* while the workers run.
LEMMA MutedIsOwnedStep ==
  ASSUME Inv, MutedIsOwned, ~IdleWakeFromWorker, [Next]_vars
  PROVE  MutedIsOwned'
<1> USE DEF Inv, TypeOK, Exclusive, OwnerMuted, Owned, Stages, MutedIsOwned, PollPCs,
      GuardHolds, Linked, InQueue, InBatch, InPoll, InWake
<1>1. ASSUME NEW h \in Handles, HandleNext(h) PROVE  MutedIsOwned'
  <2>1. CASE Clone(h)  BY <2>1 DEF Clone
  <2>2. CASE DropHandle(h)  BY <2>2 DEF DropHandle, AfterRcDec
  <2>3. CASE DeallocHandle(h)  BY <2>3 DEF DeallocHandle
  <2>4. CASE Push(h)  BY <2>4 DEF Push
  <2>5. CASE NextEpoch(h)  BY <2>5 DEF NextEpoch
  <2>6. ASSUME NEW thread \in ThreadKinds, WakeByRef(h, thread) PROVE  MutedIsOwned'
    <3>1. CASE ~Claims  BY <2>6, <3>1 DEF WakeByRef, SetNotified, Claims
    <3>2. CASE Claims /\ thread = "external"  BY <2>6, <3>2 DEF WakeByRef
    <3>3. CASE Claims /\ thread = "reactor"
      <4>1. InBatch(worker_id)'  BY <2>6, <3>3 DEF WakeByRef
      <4> QED BY <2>6, <4>1 DEF WakeByRef
    <3>4. CASE Claims /\ thread = "worker"  BY <2>6, <3>4 DEF WakeByRef, CanWake
    <3> QED BY <3>1, <3>2, <3>3, <3>4 DEF ThreadKinds
  <2> QED BY <1>1, <2>1, <2>2, <2>3, <2>4, <2>5, <2>6 DEF HandleNext
<1>2. ASSUME NEW w \in Workers, WorkerNext(w) PROVE  MutedIsOwned'
  <2>1. CASE PopFront(w)  BY <2>1 DEF PopFront
  <2>2. CASE ClearNotified(w)  BY <2>2 DEF ClearNotified
  <2>3. CASE FnPoll(w)  BY <2>3 DEF FnPoll
  <2>4. CASE SelfWake(w)  BY <2>4 DEF SelfWake, SetNotified
  <2>5. CASE PollPending(w)  BY <2>5 DEF PollPending
  <2>6. CASE CasPending(w)  BY <2>6 DEF CasPending, NextStatus
  <2>7. CASE PollReady(w)  BY <2>7 DEF PollReady
  <2>8. CASE SetDropped(w)  BY <2>8 DEF SetDropped
  <2>9. CASE DropFuture(w)  BY <2>9 DEF DropFuture
  <2>10. CASE Release(w)  BY <2>10 DEF Release, AfterRcDec
  <2>11. CASE PollPanic(w)  BY <2>11 DEF PollPanic
  <2>12. CASE Unwind(w)  BY <2>12 DEF Unwind
  <2>13. CASE Dealloc(w)  BY <2>13 DEF Dealloc
  <2>14. CASE Exit(w)  BY <2>14 DEF Exit
  <2>15. ASSUME NEW v \in Workers, Steal(w, v) PROVE  MutedIsOwned'  BY <2>15 DEF Steal
  <2> QED BY <1>2, <2>1, <2>2, <2>3, <2>4, <2>5, <2>6, <2>7, <2>8, <2>9, <2>10, <2>11,
        <2>12, <2>13, <2>14, <2>15 DEF WorkerNext, PollStep
<1>3. ASSUME MainNext PROVE  MutedIsOwned'
  <2>1. CASE Join  BY <2>1 DEF Join
  <2>2. CASE ReactorsExit  BY <2>2 DEF ReactorsExit, FlushBatch
  <2>3. CASE CollectDone  BY <2>3 DEF CollectDone
  <2>4. CASE DropInPlace  BY <2>4 DEF DropInPlace
  <2>5. CASE GuardDropFuture  BY <2>5 DEF GuardDropFuture
  <2>6. CASE GuardRelease  BY <2>6 DEF GuardRelease, AfterRcDec
  <2>7. CASE GuardDealloc  BY <2>7 DEF GuardDealloc
  <2>8. ASSUME NEW v \in Workers, Collect(v) PROVE  MutedIsOwned'  BY <2>8 DEF Collect
  <2>9. ASSUME NEW v \in Workers, FreeWorker(v) PROVE  MutedIsOwned'  BY <2>9 DEF FreeWorker
  <2> QED BY <1>3, <2>1, <2>2, <2>3, <2>4, <2>5, <2>6, <2>7, <2>8, <2>9 DEF MainNext
<1>4. CASE PushBatch  BY <1>4 DEF PushBatch, FlushBatch
<1>5. CASE UNCHANGED vars  BY <1>5 DEF vars
<1> QED BY <1>1, <1>2, <1>3, <1>4, <1>5 DEF Next

-----------------------------------------------------------------------------
\* A task fresh from Task::new, in one queue.
LEMMA InitInv == Init => IInv
<1> SUFFICES ASSUME Init PROVE IInv  OBVIOUS
<1> USE DEF Init
<1>1. TypeOK
  <2>1. task_list \in [Workers -> Nat]  OBVIOUS
  <2> QED BY <2>1, WorkersAssumption DEF TypeOK, Bits, WorkerPCs, HandlePCs, MainPCs
<1>2. Exclusive  BY DEF Exclusive, PollPCs, GuardHolds, Linked, InQueue, InBatch, InPoll,
      InWake
<1>3. OwnerMuted  BY DEF OwnerMuted
<1>4. Stages  BY DEF Stages
<1>5. References
  <2>1. Referring = {}  BY DEF Referring
  <2> QED BY <2>1, FS_EmptySet DEF References, Deallocating
<1>6. Dropping /\ Recorded  BY DEF Dropping, Recorded
<1>7. MutedIsOwned  BY DEF MutedIsOwned, Owned, Linked, InQueue
<1> QED BY <1>1, <1>2, <1>3, <1>4, <1>5, <1>6, <1>7 DEF IInv, Inv

\* The inductive invariant holds in every reachable state, whatever the numbers of
\* workers and Wakers.
THEOREM Invariance == Spec => []Inv
<1>1. Init => Inv  BY InitInv DEF IInv
<1>2. Inv /\ [Next]_vars => Inv'
  BY TypeStep, ExclusiveStep, OwnerMutedStep, StagesStep, ReferencesStep, DroppingStep,
     RecordedStep DEF Inv
<1> QED BY <1>1, <1>2, PTL DEF Spec

\* With wakes of the idle task confined to threads that are not workers, so does
\* the part that finds an owner for every muted task.
THEOREM FullInvariance == ASSUME ~IdleWakeFromWorker PROVE Spec => []IInv
<1>1. IInv /\ [Next]_vars => IInv'
  BY TypeStep, ExclusiveStep, OwnerMutedStep, StagesStep, ReferencesStep, DroppingStep,
     RecordedStep, MutedIsOwnedStep DEF Inv, IInv
<1> QED BY InitInv, <1>1, PTL DEF Spec

\* Type correctness; in particular rc never wraps below zero.
THEOREM TypeCorrect == Spec => []TypeOK
<1>1. Inv => TypeOK  BY DEF Inv
<1> QED BY <1>1, Invariance, PTL

\* Requirements 1 and 2 of Task (task.rs): one queue, one poll at a time.
THEOREM SingleOwnership == Spec => []SingleOwner
<1>1. ASSUME Inv PROVE SingleOwner
  <2> USE DEF Inv, Exclusive, Linked, InQueue, InBatch, InPoll, InWake
  <2>1. \A v \in Workers : task_list[v] <= 1 /\ task_lists[v] <= 1  BY <1>1 DEF TypeOK
  <2>2. ASSUME NEW x \in Owners, NEW y \in Owners PROVE x = y
    BY <1>1, <2>2 DEF Owners, TypeOK
  <2> QED BY <1>1, <2>1, <2>2 DEF SingleOwner
<1> QED BY <1>1, Invariance, PTL

\* Once the memory is deallocated nobody is left who could reach it.
LEMMA FreedUnreachable ==
  ASSUME Inv, freed PROVE ~CanAccess
<1>1. rc = 0  BY DEF Inv, References
<1>2. ~runtime_ref /\ Referring = {}  BY <1>1, RefPositive
<1>3. ~Owned  BY <1>2 DEF Inv, OwnerMuted
<1>4. \A w \in Workers : ~Deallocating(w)  BY DEF Inv, References
<1>5. mpc # "dealloc" /\ \A h \in Handles : hpc[h] # "dealloc"  BY DEF Inv, References
<1> QED BY <1>2, <1>3, <1>4, <1>5
        DEF CanAccess, Owned, Linked, InQueue, InBatch, InPoll, GuardHolds, Deallocating,
              Referring

\* The reference count protects the memory of the task: no use after free, no
\* double free.
THEOREM MemorySafety == Spec => []NoUseAfterFree
<1>1. Inv => NoUseAfterFree  BY FreedUnreachable DEF NoUseAfterFree
<1> QED BY <1>1, Invariance, PTL

\* The future is dropped once, and is not polled any more from then on.
THEOREM DropsOnce == Spec => []DropOnce
<1>1. ASSUME Inv PROVE DropOnce
  <2> USE <1>1 DEF Inv, Dropping
  <2>1. drops <= 1 /\ (drops = 1 => DROPPED \in status)  BY DEF TypeOK
  <2>2. DROPPED \in status => \A w \in Workers : wpc[w] \notin {"popped", "poll",
        "polling"}
    BY DEF Stages, PollPCs
  <2>3. ASSUME freed, DROPPED \in status PROVE drops = 1
    <3>1. ~CanAccess  BY <2>3, FreedUnreachable
    <3> QED BY <2>3, <3>1 DEF CanAccess, PollPCs
  <2> QED BY <2>1, <2>2, <2>3 DEF DropOnce
<1> QED BY <1>1, Invariance, PTL

\* The assertions that poll and wake() keep as comments are true.
THEOREM CasExpectation == Spec => []PrevIsExpected
<1>1. ASSUME Inv PROVE PrevIsExpected
  <2>1. ASSUME NEW w \in Workers, wpc[w] = "cas"
        PROVE  {status, prev[w]} \subseteq {{MUTED}, {MUTED, NOTIFIED}}
    BY <1>1, <2>1, CasStatus DEF Inv, Stages
  <2>2. Claims => status = {}  BY <1>1 DEF Inv, OwnerMuted, Claims, TypeOK, Bits
  <2> QED BY <2>1, <2>2 DEF PrevIsExpected
<1> QED BY <1>1, Invariance, PTL

\* Requirement 3 of Task (task.rs), its safety part: no wake() is lost while the
\* workers run, if idle tasks are not woken on worker threads.
THEOREM WakesAreKept == ASSUME ~IdleWakeFromWorker PROVE Spec => []NotLost
<1>1. ASSUME IInv PROVE NotLost
  <2> SUFFICES ASSUME owed, runtime_ref, DROPPED \notin status, mpc \in {"join",
        "on_shutdown"},
                      ~Scheduled
               PROVE  \E w \in Workers : wpc[w] \in {"ready", "unwind"}
    BY DEF NotLost
  <2> USE <1>1 DEF IInv, Inv
  <2>1. NOTIFIED \in status  BY DEF Recorded, Scheduled
  <2>2. Owned  BY <2>1 DEF OwnerMuted, MutedIsOwned
  <2>3. ~GuardHolds  BY DEF GuardHolds, Stages, TypeOK
  <2>4. PICK w \in Workers : InPoll(w)
    BY <2>2, <2>3 DEF Owned, Scheduled, Linked, InQueue, InBatch, InWake
  <2> QED BY <2>1, <2>4 DEF InPoll, PollPCs, Scheduled, Stages
<1> QED BY <1>1, FullInvariance, PTL

\* DROPPED is never cleared: the only step that clears bits at will is the
\* compare_exchange of poll, which does not happen to a dropped task.
LEMMA DroppedStays ==
  ASSUME Inv, [Next]_vars, DROPPED \in status PROVE DROPPED \in status'
<1>1. ASSUME NEW h \in Handles, HandleNext(h) PROVE DROPPED \in status'
  BY <1>1 DEF HandleNext, Clone, DropHandle, DeallocHandle, Push, NextEpoch, WakeByRef,
        SetNotified
<1>2. ASSUME NEW w \in Workers, WorkerNext(w) PROVE DROPPED \in status'
  <2>1. CASE CasPending(w)  BY <2>1, CasStatus DEF CasPending
  <2>2. CASE ~CasPending(w)
    BY <1>2, <2>2 DEF WorkerNext, PollStep, PopFront, Steal, ClearNotified, FnPoll,
          SelfWake,
       SetNotified, PollPending, PollReady, SetDropped, DropFuture, Release, PollPanic,
             Unwind,
       Dealloc, Exit
  <2> QED BY <2>1, <2>2
<1>3. CASE MainNext
  BY <1>3 DEF MainNext, Join, ReactorsExit, CollectDone, DropInPlace, GuardDropFuture,
     GuardRelease, GuardDealloc, Collect, FreeWorker
<1>4. CASE PushBatch  BY <1>4 DEF PushBatch
<1>5. CASE UNCHANGED vars  BY <1>5 DEF vars
<1> QED BY <1>1, <1>2, <1>3, <1>4, <1>5 DEF Next

\* "Guarantee dropped tasks won't be scheduled again" (wake, task.rs).
THEOREM NoReschedule == Spec => DroppedNeverScheduled
<1>1. ASSUME Inv, [Next]_vars, DROPPED \in status PROVE ~Gains
  <2>1. \A v \in Workers : ~Linked(v)'
    BY <1>1, StagesStep, DroppedStays DEF Stages
  <2>2. \A v \in Workers : task_list[v] \in Nat /\ task_lists[v] \in Nat
    BY <1>1 DEF Inv, TypeOK
  <2>3. \A v \in Workers : task_list'[v] \in Nat /\ task_lists'[v] \in Nat
    BY <1>1, TypeStep DEF TypeOK
  <2> QED BY <2>1, <2>2, <2>3 DEF Gains, Linked, InQueue, InBatch
<1> QED BY <1>1, Invariance, PTL DEF Spec, DroppedNeverScheduled

-----------------------------------------------------------------------------
(* Task implements TaskLife.                                               *)

\* The pcs of a poll that tell one stage from another.
Telling == {"polling", "cas", "ready", "unwind"}

\* A step that only moves workers between other pcs leaves the stage alone.
LEMMA SameLife ==
  ASSUME \A b \in {MUTED, DROPPED} : b \in status' <=> b \in status,
         runtime_ref' = runtime_ref,
         \A w \in Workers : wpc'[w] = wpc[w] \/ {wpc[w], wpc'[w]} \cap Telling = {}
  PROVE  Life' = Life
<1>1. IsRunning' <=> IsRunning  BY DEF IsRunning, Telling
<1>2. IsPanicked' <=> IsPanicked  BY DEF IsPanicked, Telling
<1> QED BY <1>1, <1>2 DEF Life, MUTED, DROPPED

\* A wake() schedules an idle task and nothing else.
LEMMA WakeLife ==
  ASSUME SetNotified, wpc' = wpc, runtime_ref' = runtime_ref
  PROVE  Lives!Wake
<1>1. IsRunning' <=> IsRunning  BY DEF IsRunning
<1>2. IsPanicked' <=> IsPanicked  BY DEF IsPanicked
<1>3. MUTED \in status' /\ (DROPPED \in status' <=> DROPPED \in status)
  BY DEF SetNotified, MUTED, NOTIFIED, DROPPED
<1>4. Life' = IF Life = "idle" THEN "scheduled" ELSE Life
  BY <1>1, <1>2, <1>3 DEF Life
<1>5. Life = "done" <=> DROPPED \in status  BY DEF Life
<1>6. owed' = (owed \/ Life # "done")  BY <1>5 DEF SetNotified
<1> QED BY <1>4, <1>6 DEF Lives!Wake

\* What is known while a worker has the task and has not finished it.
LEMMA PollingLife ==
  ASSUME Inv, NEW w \in Workers, wpc[w] \in {"poll", "polling", "cas", "ready"}
  PROVE  /\ DROPPED \notin status /\ MUTED \in status /\ runtime_ref
         /\ \A v \in Workers : v # w => wpc[v] \notin PollPCs
         /\ Life = IF wpc[w] = "poll" THEN "scheduled" ELSE "running"
<1>1. InPoll(w)  BY DEF InPoll, PollPCs
<1>2. DROPPED \notin status  BY DEF Inv, Stages, PollPCs
<1>3. MUTED \in status /\ runtime_ref  BY <1>1 DEF Inv, OwnerMuted, Owned
<1>4. \A v \in Workers : v # w => wpc[v] \notin PollPCs
  BY <1>1 DEF Inv, Exclusive, InPoll
<1>5. ~IsPanicked  BY <1>3, <1>4 DEF IsPanicked, PollPCs
<1>6. IsRunning <=> wpc[w] # "poll"  BY <1>4 DEF IsRunning, PollPCs
<1> QED BY <1>2, <1>3, <1>4, <1>5, <1>6 DEF Life

LEMMA LifeStep ==
  ASSUME Inv, [Next]_vars
  PROVE  [Lives!Next]_<<Life, owed>>
<1> USE DEF Lives!Next, Lives!Move
<1>0. wpc \in [Workers -> WorkerPCs]  BY DEF Inv, TypeOK
<1>1. ASSUME NEW h \in Handles, HandleNext(h) PROVE [Lives!Next]_<<Life, owed>>
  <2>1. ASSUME NEW thread \in ThreadKinds, WakeByRef(h, thread) PROVE Lives!Wake
    BY <2>1, WakeLife DEF WakeByRef
  <2>2. CASE Clone(h) \/ DropHandle(h) \/ DeallocHandle(h) \/ Push(h) \/ NextEpoch(h)
    BY <2>2, SameLife DEF Clone, DropHandle, DeallocHandle, Push, NextEpoch, memory
  <2> QED BY <1>1, <2>1, <2>2 DEF HandleNext
<1>2. ASSUME NEW w \in Workers, WorkerNext(w) PROVE [Lives!Next]_<<Life, owed>>
  <2>1. CASE FnPoll(w)
    <3>1. IsRunning' /\ ~IsPanicked'
      BY <1>0, <2>1, PollingLife DEF FnPoll, IsRunning, IsPanicked, PollPCs
    <3>2. Lives!Start
      BY <2>1, <3>1, PollingLife DEF FnPoll, Lives!Start, Life
    <3> QED BY <3>2
  <2>2. CASE PollPending(w) \/ PollReady(w)
    <3>1. IsRunning' /\ ~IsPanicked'
      BY <1>0, <2>2, PollingLife DEF PollPending, PollReady, IsRunning, IsPanicked, PollPCs
    <3>2. Life = "running" /\ Life' = "running" /\ owed' = owed
      BY <2>2, <3>1, PollingLife DEF PollPending, PollReady, Life
    <3> QED BY <3>2
  <2>3. CASE CasPending(w)
    <3>0. wpc[w] = "cas"  BY <2>3 DEF CasPending
    <3>1. CASE status # prev[w]
      BY <2>3, <3>1, SameLife DEF CasPending
    <3>2. CASE status = prev[w]
      <4>1. ~IsRunning' /\ ~IsPanicked'
        BY <1>0, <2>3, <3>0, <3>2, PollingLife DEF CasPending, IsRunning, IsPanicked, PollPCs
      <4>2. CASE status = {MUTED}
        <5>1. status' = {} /\ owed' = owed
          BY <2>3, <3>2, <4>2 DEF CasPending, NextStatus
        <5>2. Life' = "idle"  BY <4>1, <5>1 DEF Life
        <5>3. ~owed
          <6>1. \A v \in Workers : wpc[v] # "poll"  BY <3>0, PollingLife DEF PollPCs
          <6> QED BY <3>0, <4>2, <6>1, PollingLife DEF Inv, Recorded, MUTED, NOTIFIED
        <5>4. Lives!Sleep  BY <3>0, <5>1, <5>2, <5>3, PollingLife DEF Lives!Sleep
        <5> QED BY <5>4
      <4>3. CASE status # {MUTED}
        <5>1. status' = {MUTED} /\ owed' = owed
          BY <2>3, <3>2, <4>3 DEF CasPending, NextStatus
        <5>2. Life' = "scheduled"  BY <4>1, <5>1 DEF Life, MUTED, DROPPED
        <5>3. Lives!Again  BY <3>0, <5>1, <5>2, PollingLife DEF Lives!Again
        <5> QED BY <5>3
      <4> QED BY <4>2, <4>3
    <3> QED BY <3>1, <3>2
  <2>4. CASE SetDropped(w)
    <3>1. Life' = "done" /\ owed' = owed  BY <2>4 DEF SetDropped, Life
    <3>2. Lives!Finish  BY <2>4, <3>1, PollingLife DEF SetDropped, Lives!Finish
    <3> QED BY <3>2
  <2>5. CASE PollPanic(w)
    <3>1. IsPanicked'  BY <1>0, <2>5 DEF PollPanic, IsPanicked
    <3>2. Life' = "panicked" /\ owed' = owed
      BY <2>5, <3>1, PollingLife DEF PollPanic, Life
    <3>3. Lives!Panic  BY <2>5, <3>2, PollingLife DEF PollPanic, Lives!Panic
    <3> QED BY <3>3
  <2>6. CASE Release(w)
    <3>1. DROPPED \in status  BY <2>6 DEF Release, Inv, Stages
    <3> QED BY <2>6, <3>1 DEF Release, Life
  <2>7. CASE Unwind(w)
    <3>1. IsPanicked /\ IsPanicked'  BY <2>7 DEF Unwind, IsPanicked
    <3> QED BY <2>7, <3>1 DEF Unwind, Life
  <2>8. CASE SelfWake(w)
    BY <2>8, WakeLife DEF SelfWake
  <2>9. CASE \/ PopFront(w) \/ ClearNotified(w) \/ DropFuture(w) \/ Dealloc(w) \/ Exit(w)
             \/ \E v \in Workers : Steal(w, v)
    <3>1. runtime_ref' = runtime_ref /\ owed' = owed
      BY <2>9 DEF PopFront, ClearNotified, DropFuture, Dealloc, Exit, Steal
    <3>2. \A b \in {MUTED, DROPPED} : b \in status' <=> b \in status
      BY <2>9 DEF PopFront, ClearNotified, DropFuture, Dealloc, Exit, Steal, MUTED, DROPPED,
         NOTIFIED
    <3>3. \A v \in Workers : wpc'[v] = wpc[v] \/ {wpc[v], wpc'[v]} \cap Telling = {}
      BY <1>0, <2>9 DEF PopFront, ClearNotified, DropFuture, Dealloc, Exit, Steal, Telling
    <3>4. Life' = Life  BY <3>1, <3>2, <3>3, SameLife
    <3> QED BY <3>1, <3>4
  <2> QED BY <1>2, <2>1, <2>2, <2>3, <2>4, <2>5, <2>6, <2>7, <2>8, <2>9
          DEF WorkerNext, PollStep
<1>3. CASE MainNext
  <2>1. CASE DropInPlace
    <3>1. tasks > 0 /\ GuardHolds  BY <2>1 DEF DropInPlace, Inv, Stages, GuardHolds
    <3>2. DROPPED \notin status  BY <3>1 DEF Inv, Stages
    <3>3. MUTED \in status /\ runtime_ref  BY <3>1 DEF Inv, OwnerMuted, Owned
    <3>4. ~IsRunning /\ ~IsPanicked
      BY <3>1, <3>3 DEF Inv, Exclusive, InPoll, PollPCs, IsRunning, IsPanicked
    <3>5. Life' = "done" /\ owed' = owed  BY <2>1 DEF DropInPlace, Life
    <3>6. Lives!Discard  BY <3>2, <3>3, <3>4, <3>5 DEF Life, Lives!Discard
    <3> QED BY <3>6
  <2>2. CASE GuardRelease
    <3>1. DROPPED \in status  BY <2>2 DEF GuardRelease, Inv, Stages
    <3> QED BY <2>2, <3>1 DEF GuardRelease, Life
  <2>3. CASE ~DropInPlace /\ ~GuardRelease
    BY <1>3, <2>3, SameLife DEF MainNext, Join, ReactorsExit, CollectDone, GuardDropFuture,
       GuardDealloc, Collect, FreeWorker
  <2> QED BY <2>1, <2>2, <2>3
<1>4. CASE PushBatch  BY <1>4, SameLife DEF PushBatch
<1>5. CASE UNCHANGED vars  BY <1>5, SameLife DEF vars
<1> QED BY <1>1, <1>2, <1>3, <1>4, <1>5 DEF Next

\* For any number of workers and Wakers, with panics, late wakes and the
\* shutdown: the status byte and the queues implement the stages of TaskLife; in
\* particular no task falls asleep with a wake() unanswered.
THEOREM LifeRefinement == Spec => LifeSpec
<1>1. Init => Lives!Init
  BY DEF Init, Lives!Init, Life, IsPanicked, IsRunning, MUTED, NOTIFIED, DROPPED
<1> QED BY <1>1, LifeStep, Invariance, PTL DEF Spec, LifeSpec, Lives!Spec
=============================================================================
