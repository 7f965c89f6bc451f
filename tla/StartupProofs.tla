--------------------------- MODULE StartupProofs ----------------------------
(***************************************************************************)
(* Proofs about module Startup, for any number of workers, reactors and    *)
(* seeds.                                                                  *)
(***************************************************************************)
EXTENDS Startup, RngProofs, FiniteSetTheorems

USE CountsAssumption DEF barrier, globals, rng, WGoto, RGoto, Released

LEMMA WorkersCard == IsFiniteSet(Workers) /\ Cardinality(Workers) = N
<1>1. IsFiniteSet(0 .. N - 1)
      /\ Cardinality(0 .. N - 1) = IF 0 > N - 1 THEN 0 ELSE N - 1 - 0 + 1
  BY FS_Interval
<1> QED BY <1>1 DEF Workers

\* At n_built = N every worker is counted: built, with all pointers in place.
LEMMA AllAreBuilt ==
  ASSUME BuiltIsCounted, Barriers, AllBuilt
  PROVE  AllPtrs /\ \A w \in Workers : w \in written /\ wpc[w] \in CountedPCs
<1>1. Counted = Workers
  BY WorkersCard, FS_Subset DEF Counted, BuiltIsCounted, AllBuilt
<1>2. 0 \in Workers  BY DEF Workers
<1> QED BY <1>1, <1>2 DEF Counted, Barriers

\* A worker that comes to be counted adds one.
LEMMA CountOneMore ==
  ASSUME NEW w \in Workers, wpc[w] \notin CountedPCs, wpc'[w] \in CountedPCs,
         \A v \in Workers \ {w} : wpc'[v] \in CountedPCs <=> wpc[v] \in CountedPCs
  PROVE  Cardinality(Counted') = Cardinality(Counted) + 1
<1>1. IsFiniteSet(Counted)  BY WorkersCard, FS_Subset DEF Counted
<1>2. Counted' = Counted \cup {w} /\ w \notin Counted  BY DEF Counted
<1> QED BY <1>1, <1>2, FS_AddElement

LEMMA CountSame ==
  ASSUME \A v \in Workers : wpc'[v] \in CountedPCs <=> wpc[v] \in CountedPCs
  PROVE  Cardinality(Counted') = Cardinality(Counted)
<1>1. Counted' = Counted  BY DEF Counted
<1> QED BY <1>1

\* A worker that is still to be counted keeps the second barrier closed.
LEMMA NotAllBuilt ==
  ASSUME BuiltIsCounted, Barriers, NEW w \in Workers, wpc[w] \notin CountedPCs
  PROVE  ~AllBuilt
BY AllAreBuilt

\* The other workers, as indexed by try_steal and spawn.
LEMMA OtherIsWorker ==
  ASSUME NEW w \in Workers, NEW i \in 0 .. N - 2
  PROVE  Other(w, i) \in Workers \ {w}
BY DEF Other, Workers

\* Every step keeps the types.
LEMMA TypeStep ==
  ASSUME IInv, [Next]_vars
  PROVE  TypeOK'
<1> USE DEF IInv, TypeOK
<1>1. ASSUME NEW w \in Workers, Build(w) \/ TrySteal(w) \/ PopMain(w) \/ Spawn(w) \/ NewHandle(w)
      PROVE  TypeOK'
  <2>1. CASE SetPtr(w)  BY <2>1 DEF SetPtr
  <2>2. CASE NotifyPtrs(w)  BY <2>2 DEF NotifyPtrs
  <2>3. CASE CheckPtrs(w)  BY <2>3 DEF CheckPtrs
  <2>4. CASE NewWorker(w)  BY <2>4, SeedsAssumption DEF NewWorker, Barriers, AllPtrs
  <2>5. CASE IncBuilt(w)  BY <2>5, NotAllBuilt DEF IncBuilt, AllBuilt, CountedPCs
  <2>6. CASE NotifyBuilt(w)  BY <2>6 DEF NotifyBuilt, MainReleased
  <2>7. CASE CheckBuilt(w)  BY <2>7 DEF CheckBuilt
  <2>8. CASE TrySteal(w)  BY <2>8, LowBitsNeverChange DEF TrySteal, Draw
  <2>9. CASE PopMain(w)  BY <2>9 DEF PopMain
  <2>10. CASE Spawn(w)  BY <2>10, LowBitsNeverChange DEF Spawn, Draw
  <2>11. CASE NewHandle(w)  BY <2>11 DEF NewHandle
  <2> QED BY <1>1, <2>1, <2>2, <2>3, <2>4, <2>5, <2>6, <2>7, <2>8, <2>9, <2>10, <2>11 DEF Build
<1>2. ASSUME MainNext PROVE  TypeOK'
  <2>1. CASE SpawnWorker  BY <2>1 DEF SpawnWorker, MoreWorkers
  <2>2. CASE Wait  BY <2>2 DEF Wait
  <2>3. CASE SetGlobal  BY <2>3 DEF SetGlobal, AllPtrs
  <2>4. CASE WaitReactors  BY <2>4 DEF WaitReactors
  <2>5. CASE SetMioGlobal  BY <2>5 DEF SetMioGlobal
  <2>6. CASE Run  BY <2>6 DEF Run, Workers
  <2>7. ASSUME NEW r \in Reactors, SpawnReactor(r) PROVE  TypeOK'  BY <2>7 DEF SpawnReactor
  <2> QED BY <1>2, <2>1, <2>2, <2>3, <2>4, <2>5, <2>6, <2>7 DEF MainNext
<1>3. ASSUME NEW r \in Reactors, Reactor(r) PROVE  TypeOK'
  <2>1. CASE SetReactor(r)  BY <2>1 DEF SetReactor
  <2>2. CASE CheckReactors(r)  BY <2>2 DEF CheckReactors
  <2>3. CASE NotifyReactors(r)  BY <2>3 DEF NotifyReactors
  <2>4. CASE NewBatchGuard(r)  BY <2>4 DEF NewBatchGuard
  <2> QED BY <1>3, <2>1, <2>2, <2>3, <2>4 DEF Reactor
<1>4. CASE UNCHANGED vars  BY <1>4 DEF vars
<1> QED BY <1>1, <1>2, <1>3, <1>4 DEF Next

\* No step leads to a fault.
LEMMA PositionsStep ==
  ASSUME IInv, [Next]_vars
  PROVE  Positions'
<1> USE DEF IInv, TypeOK, Positions, CountedPCs
<1>1. ASSUME NEW w \in Workers, Build(w) \/ TrySteal(w) \/ PopMain(w) \/ Spawn(w) \/ NewHandle(w)
      PROVE  Positions'
  <2>1. CASE SetPtr(w)  BY <2>1 DEF SetPtr
  <2>2. CASE NotifyPtrs(w)  BY <2>2 DEF NotifyPtrs
  <2>3. CASE CheckPtrs(w)  BY <2>3 DEF CheckPtrs
  <2>4. CASE NewWorker(w)  BY <2>4 DEF NewWorker, Barriers
  <2>5. CASE IncBuilt(w)  BY <2>5 DEF IncBuilt
  <2>6. CASE NotifyBuilt(w)  BY <2>6 DEF NotifyBuilt, MainReleased
  <2>7. CASE CheckBuilt(w)  BY <2>7 DEF CheckBuilt
  <2>8. CASE TrySteal(w)
    <3>1. Victim(w, seed[w]) \in written
      <4>1. N - 1 \in Nat \ {0}  BY <2>8 DEF TrySteal
      <4>2. Mod(seed[w], N - 1) \in 0 .. N - 2  BY <4>1, ModRange
      <4>3. AllBuilt  BY <2>8 DEF TrySteal, Barriers
      <4> QED BY <4>2, <4>3, OtherIsWorker, AllAreBuilt DEF Victim
    <3> QED BY <2>8, <3>1 DEF TrySteal
  <2>9. CASE PopMain(w)  BY <2>9 DEF PopMain
  <2>10. CASE Spawn(w)
    <3> DEFINE i == Mod(seed[w], N)
    <3>1. i + 1 = N \/ Other(w, i) \in written
      <4>1. i \in 0 .. N - 1  BY ModRange
      <4>2. AllBuilt  BY <2>10 DEF Spawn, Barriers
      <4> QED BY <4>1, <4>2, OtherIsWorker, AllAreBuilt
    <3> QED BY <2>10, <3>1 DEF Spawn
  <2>11. CASE NewHandle(w)  BY <2>11 DEF NewHandle, Published
  <2> QED BY <1>1, <2>1, <2>2, <2>3, <2>4, <2>5, <2>6, <2>7, <2>8, <2>9, <2>10, <2>11 DEF Build
<1>2. ASSUME MainNext PROVE  Positions'
  <2>1. CASE SpawnWorker  BY <2>1 DEF SpawnWorker, MoreWorkers, Workers
  <2>2. CASE Wait  BY <2>2 DEF Wait
  <2>3. CASE SetGlobal  BY <2>3, AllAreBuilt DEF SetGlobal, Barriers
  <2>4. CASE WaitReactors  BY <2>4 DEF WaitReactors
  <2>5. CASE SetMioGlobal  BY <2>5 DEF SetMioGlobal
  <2>6. CASE Run  BY <2>6 DEF Run
  <2>7. ASSUME NEW r \in Reactors, SpawnReactor(r) PROVE  Positions'  BY <2>7 DEF SpawnReactor
  <2> QED BY <1>2, <2>1, <2>2, <2>3, <2>4, <2>5, <2>6, <2>7 DEF MainNext
<1>3. ASSUME NEW r \in Reactors, Reactor(r) PROVE  Positions'
  <2>1. CASE SetReactor(r)  BY <2>1 DEF SetReactor
  <2>2. CASE CheckReactors(r)  BY <2>2 DEF CheckReactors
  <2>3. CASE NotifyReactors(r)  BY <2>3 DEF NotifyReactors
  <2>4. CASE NewBatchGuard(r)  BY <2>4 DEF NewBatchGuard, Published
  <2> QED BY <1>3, <2>1, <2>2, <2>3, <2>4 DEF Reactor
<1>4. CASE UNCHANGED vars  BY <1>4 DEF vars
<1> QED BY <1>1, <1>2, <1>3, <1>4 DEF Next

\* IncBuilt adds one for the worker that makes it, and no other step lets a worker in or
\* out.
LEMMA CountStep ==
  ASSUME IInv, [Next]_vars
  PROVE  BuiltIsCounted'
<1> USE CountSame DEF IInv, TypeOK, Positions, BuiltIsCounted, CountedPCs
<1>1. ASSUME NEW w \in Workers, Build(w) \/ TrySteal(w) \/ PopMain(w) \/ Spawn(w) \/ NewHandle(w)
      PROVE  BuiltIsCounted'
  <2>1. CASE SetPtr(w)  BY <2>1 DEF SetPtr
  <2>2. CASE NotifyPtrs(w)  BY <2>2 DEF NotifyPtrs
  <2>3. CASE CheckPtrs(w)  BY <2>3 DEF CheckPtrs
  <2>4. CASE NewWorker(w)  BY <2>4 DEF NewWorker
  <2>5. CASE IncBuilt(w)  BY <2>5, CountOneMore DEF IncBuilt
  <2>6. CASE NotifyBuilt(w)  BY <2>6 DEF NotifyBuilt, MainReleased
  <2>7. CASE CheckBuilt(w)  BY <2>7 DEF CheckBuilt
  <2>8. CASE TrySteal(w)  BY <2>8, PositionsStep DEF TrySteal, Draw
  <2>9. CASE PopMain(w)  BY <2>9 DEF PopMain
  <2>10. CASE Spawn(w)  BY <2>10, PositionsStep DEF Spawn, Draw
  <2>11. CASE NewHandle(w)  BY <2>11, PositionsStep DEF NewHandle
  <2> QED BY <1>1, <2>1, <2>2, <2>3, <2>4, <2>5, <2>6, <2>7, <2>8, <2>9, <2>10, <2>11 DEF Build
<1>2. ASSUME MainNext PROVE  BuiltIsCounted'
  <2>1. CASE SpawnWorker  BY <2>1 DEF SpawnWorker, MoreWorkers, Workers, Barriers
  <2>2. CASE Wait  BY <2>2 DEF Wait
  <2>3. CASE SetGlobal  BY <2>3 DEF SetGlobal
  <2>4. CASE WaitReactors  BY <2>4 DEF WaitReactors
  <2>5. CASE SetMioGlobal  BY <2>5 DEF SetMioGlobal
  <2>6. CASE Run  BY <2>6 DEF Run
  <2>7. ASSUME NEW r \in Reactors, SpawnReactor(r) PROVE  BuiltIsCounted'
    BY <2>7 DEF SpawnReactor
  <2> QED BY <1>2, <2>1, <2>2, <2>3, <2>4, <2>5, <2>6, <2>7 DEF MainNext
<1>3. ASSUME NEW r \in Reactors, Reactor(r) PROVE  BuiltIsCounted'
  <2>1. CASE SetReactor(r)  BY <2>1 DEF SetReactor
  <2>2. CASE CheckReactors(r)  BY <2>2 DEF CheckReactors
  <2>3. CASE NotifyReactors(r)  BY <2>3 DEF NotifyReactors
  <2>4. CASE NewBatchGuard(r)  BY <2>4 DEF NewBatchGuard
  <2> QED BY <1>3, <2>1, <2>2, <2>3, <2>4 DEF Reactor
<1>4. CASE UNCHANGED vars  BY <1>4 DEF vars
<1> QED BY <1>1, <1>2, <1>3, <1>4 DEF Next

\* The barriers hold.
LEMMA BarriersStep ==
  ASSUME IInv, [Next]_vars
  PROVE  Barriers'
<1> USE DEF IInv, TypeOK, Positions, Barriers, AllPtrs, AllBuilt, CountedPCs
<1>1. ASSUME NEW w \in Workers, Build(w) \/ TrySteal(w) \/ PopMain(w) \/ Spawn(w) \/ NewHandle(w)
      PROVE  Barriers'
  <2>1. CASE SetPtr(w)  BY <2>1 DEF SetPtr
  <2>2. CASE NotifyPtrs(w)  BY <2>2 DEF NotifyPtrs
  <2>3. CASE CheckPtrs(w)  BY <2>3 DEF CheckPtrs
  <2>4. CASE NewWorker(w)  BY <2>4 DEF NewWorker
  <2>5. CASE IncBuilt(w)  BY <2>5, NotAllBuilt DEF IncBuilt
  <2>6. CASE NotifyBuilt(w)  BY <2>6 DEF NotifyBuilt, MainReleased
  <2>7. CASE CheckBuilt(w)  BY <2>7 DEF CheckBuilt
  <2>8. CASE TrySteal(w)  BY <2>8 DEF TrySteal, Draw
  <2>9. CASE PopMain(w)  BY <2>9 DEF PopMain
  <2>10. CASE Spawn(w)  BY <2>10 DEF Spawn, Draw
  <2>11. CASE NewHandle(w)  BY <2>11 DEF NewHandle
  <2> QED BY <1>1, <2>1, <2>2, <2>3, <2>4, <2>5, <2>6, <2>7, <2>8, <2>9, <2>10, <2>11 DEF Build
<1>2. ASSUME MainNext PROVE  Barriers'
  <2>1. CASE SpawnWorker  BY <2>1 DEF SpawnWorker, MoreWorkers, Workers
  <2>2. CASE Wait  BY <2>2 DEF Wait
  <2>3. CASE SetGlobal  BY <2>3 DEF SetGlobal
  <2>4. CASE WaitReactors  BY <2>4 DEF WaitReactors
  <2>5. CASE SetMioGlobal  BY <2>5 DEF SetMioGlobal
  <2>6. CASE Run  BY <2>6 DEF Run
  <2>7. ASSUME NEW r \in Reactors, SpawnReactor(r) PROVE  Barriers'  BY <2>7 DEF SpawnReactor
  <2> QED BY <1>2, <2>1, <2>2, <2>3, <2>4, <2>5, <2>6, <2>7 DEF MainNext
<1>3. ASSUME NEW r \in Reactors, Reactor(r) PROVE  Barriers'
  <2>1. CASE SetReactor(r)  BY <2>1 DEF SetReactor
  <2>2. CASE CheckReactors(r)  BY <2>2 DEF CheckReactors
  <2>3. CASE NotifyReactors(r)  BY <2>3 DEF NotifyReactors
  <2>4. CASE NewBatchGuard(r)  BY <2>4 DEF NewBatchGuard
  <2> QED BY <1>3, <2>1, <2>2, <2>3, <2>4 DEF Reactor
<1>4. CASE UNCHANGED vars  BY <1>4 DEF vars
<1> QED BY <1>1, <1>2, <1>3, <1>4 DEF Next

\* GLOBALs are stored before the threads that use them start, or before async_main is
\* pushed.
LEMMA PublishedStep ==
  ASSUME IInv, [Next]_vars
  PROVE  Published'
<1> USE DEF IInv, TypeOK, Positions, Published
<1>1. ASSUME NEW w \in Workers, Build(w) \/ TrySteal(w) \/ PopMain(w) \/ Spawn(w) \/ NewHandle(w)
      PROVE  Published'
  <2>1. CASE SetPtr(w)  BY <2>1 DEF SetPtr
  <2>2. CASE NotifyPtrs(w)  BY <2>2 DEF NotifyPtrs
  <2>3. CASE CheckPtrs(w)  BY <2>3 DEF CheckPtrs
  <2>4. CASE NewWorker(w)  BY <2>4 DEF NewWorker
  <2>5. CASE IncBuilt(w)  BY <2>5 DEF IncBuilt
  <2>6. CASE NotifyBuilt(w)  BY <2>6 DEF NotifyBuilt, MainReleased
  <2>7. CASE CheckBuilt(w)  BY <2>7 DEF CheckBuilt
  <2>8. CASE TrySteal(w)  BY <2>8 DEF TrySteal, Draw
  <2>9. CASE PopMain(w)  BY <2>9 DEF PopMain
  <2>10. CASE Spawn(w)  BY <2>10 DEF Spawn, Draw
  <2>11. CASE NewHandle(w)  BY <2>11 DEF NewHandle
  <2> QED BY <1>1, <2>1, <2>2, <2>3, <2>4, <2>5, <2>6, <2>7, <2>8, <2>9, <2>10, <2>11 DEF Build
<1>2. ASSUME MainNext PROVE  Published'
  <2>1. CASE SpawnWorker  BY <2>1 DEF SpawnWorker, MoreWorkers, Workers
  <2>2. CASE Wait  BY <2>2 DEF Wait
  <2>3. CASE SetGlobal  BY <2>3, AllAreBuilt DEF SetGlobal, Barriers
  <2>4. CASE WaitReactors  BY <2>4 DEF WaitReactors
  <2>5. CASE SetMioGlobal  BY <2>5 DEF SetMioGlobal
  <2>6. CASE Run  BY <2>6 DEF Run
  <2>7. ASSUME NEW r \in Reactors, SpawnReactor(r) PROVE  Published'  BY <2>7 DEF SpawnReactor
  <2> QED BY <1>2, <2>1, <2>2, <2>3, <2>4, <2>5, <2>6, <2>7 DEF MainNext
<1>3. ASSUME NEW r \in Reactors, Reactor(r) PROVE  Published'
  <2>1. CASE SetReactor(r)  BY <2>1 DEF SetReactor
  <2>2. CASE CheckReactors(r)  BY <2>2 DEF CheckReactors
  <2>3. CASE NotifyReactors(r)  BY <2>3 DEF NotifyReactors
  <2>4. CASE NewBatchGuard(r)  BY <2>4 DEF NewBatchGuard
  <2> QED BY <1>3, <2>1, <2>2, <2>3, <2>4 DEF Reactor
<1>4. CASE UNCHANGED vars  BY <1>4 DEF vars
<1> QED BY <1>1, <1>2, <1>3, <1>4 DEF Next

\* next_seed keeps the low bits.
LEMMA SameLowStep ==
  ASSUME IInv, [Next]_vars
  PROVE  SameLow'
<1> USE DEF IInv, TypeOK, SameLow
<1>1. ASSUME NEW w \in Workers, Build(w) \/ TrySteal(w) \/ PopMain(w) \/ Spawn(w) \/ NewHandle(w)
      PROVE  SameLow'
  <2>1. CASE SetPtr(w)  BY <2>1 DEF SetPtr
  <2>2. CASE NotifyPtrs(w)  BY <2>2 DEF NotifyPtrs
  <2>3. CASE CheckPtrs(w)  BY <2>3 DEF CheckPtrs
  <2>4. CASE NewWorker(w)  BY <2>4 DEF NewWorker
  <2>5. CASE IncBuilt(w)  BY <2>5 DEF IncBuilt
  <2>6. CASE NotifyBuilt(w)  BY <2>6 DEF NotifyBuilt, MainReleased
  <2>7. CASE CheckBuilt(w)  BY <2>7 DEF CheckBuilt
  <2>8. CASE TrySteal(w)  BY <2>8, LowBitsNeverChange DEF TrySteal, Draw
  <2>9. CASE PopMain(w)  BY <2>9 DEF PopMain
  <2>10. CASE Spawn(w)  BY <2>10, LowBitsNeverChange DEF Spawn, Draw
  <2>11. CASE NewHandle(w)  BY <2>11 DEF NewHandle
  <2> QED BY <1>1, <2>1, <2>2, <2>3, <2>4, <2>5, <2>6, <2>7, <2>8, <2>9, <2>10, <2>11 DEF Build
<1>2. ASSUME MainNext PROVE  SameLow'
  <2>1. CASE SpawnWorker  BY <2>1 DEF SpawnWorker, MoreWorkers
  <2>2. CASE Wait  BY <2>2 DEF Wait
  <2>3. CASE SetGlobal  BY <2>3 DEF SetGlobal
  <2>4. CASE WaitReactors  BY <2>4 DEF WaitReactors
  <2>5. CASE SetMioGlobal  BY <2>5 DEF SetMioGlobal
  <2>6. CASE Run  BY <2>6 DEF Run
  <2>7. ASSUME NEW r \in Reactors, SpawnReactor(r) PROVE  SameLow'  BY <2>7 DEF SpawnReactor
  <2> QED BY <1>2, <2>1, <2>2, <2>3, <2>4, <2>5, <2>6, <2>7 DEF MainNext
<1>3. ASSUME NEW r \in Reactors, Reactor(r) PROVE  SameLow'
  <2>1. CASE SetReactor(r)  BY <2>1 DEF SetReactor
  <2>2. CASE CheckReactors(r)  BY <2>2 DEF CheckReactors
  <2>3. CASE NotifyReactors(r)  BY <2>3 DEF NotifyReactors
  <2>4. CASE NewBatchGuard(r)  BY <2>4 DEF NewBatchGuard
  <2> QED BY <1>3, <2>1, <2>2, <2>3, <2>4 DEF Reactor
<1>4. CASE UNCHANGED vars  BY <1>4 DEF vars
<1> QED BY <1>1, <1>2, <1>3, <1>4 DEF Next

LEMMA InitInv == Init => IInv
<1> SUFFICES ASSUME Init PROVE  IInv  OBVIOUS
<1> USE DEF Init
<1>1. TypeOK
  <2>1. seed \in [Workers -> U32] /\ seed0 \in [Workers -> U32]  BY DEF U32
  <2>2. runtime_global \in BOOLEAN /\ mio_global \in BOOLEAN  OBVIOUS
  <2>3. next_worker_id \in 0 .. N /\ n_built \in 0 .. N  OBVIOUS
  <2> QED BY <2>1, <2>2, <2>3 DEF TypeOK
<1>2. Positions  BY DEF Positions
<1>3. BuiltIsCounted
  <2>1. Counted = {}  BY DEF Counted, CountedPCs
  <2> QED BY <2>1, FS_EmptySet DEF BuiltIsCounted
<1>4. Barriers /\ Published /\ SameLow  BY DEF Barriers, Published, SameLow, CountedPCs
<1> QED BY <1>1, <1>2, <1>3, <1>4 DEF IInv

\* The inductive invariant holds for any number of workers, reactors and seeds.
THEOREM Invariance == Spec => []IInv
<1>1. IInv /\ [Next]_vars => IInv'
  BY TypeStep, PositionsStep, CountStep, BarriersStep, PublishedStep, SameLowStep DEF IInv
<1> QED BY InitInv, <1>1, PTL DEF Spec

\* Type correctness; in particular no worker_id or count exceeds n_threads.
THEOREM TypeCorrect == Spec => []TypeOK
<1>1. IInv => TypeOK  BY DEF IInv
<1> QED BY Invariance, <1>1, PTL

\* No thread of the runtime uses a pointer, a worker or a GLOBAL before it is there.
THEOREM NothingUsedTooEarly == Spec => []InitializedBeforeUse
<1>1. IInv => InitializedBeforeUse
  BY DEF IInv, Positions, InitializedBeforeUse, CountedPCs
<1> QED BY Invariance, <1>1, PTL

\* With n_workers - 1 a divisor of 32, each thief has one victim for ever.
THEOREM OneVictim == Spec => []VictimIsFixed
<1>1. ASSUME IInv, N > 1, 32 % (N - 1) = 0, NEW w \in Workers
      PROVE  Victim(w, seed[w]) = Victim(w, seed0[w])
  <2>1. seed[w] \cap Low = seed0[w] \cap Low  BY <1>1 DEF IInv, SameLow
  <2>2. N - 1 \in Nat \ {0}  BY <1>1
  <2>3. Mod(seed[w], N - 1) = Mod(seed0[w], N - 1)  BY <1>1, <2>1, <2>2, LowDecidesMod
  <2> QED BY <2>3 DEF Victim
<1>2. IInv => VictimIsFixed  BY <1>1 DEF VictimIsFixed
<1> QED BY Invariance, <1>2, PTL
=============================================================================
