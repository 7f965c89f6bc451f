\* Every interleaving of three workers, three Wakers, a reactor and the shutdown.
SPECIFICATION FairSpec
CONSTANTS
  w1 = w1
  w2 = w2
  w3 = w3
  h1 = h1
  h2 = h2
  h3 = h3
  Workers <- MCWorkers
  FirstWorker = w1
  Handles <- MCHandles
  IdleWakeFromWorker = FALSE
INVARIANTS TypeOK SingleOwner NoUseAfterFree DropOnce NotLost PrevIsExpected IInv
PROPERTIES LifeSpec DroppedNeverScheduled WakeLeadsToPoll
\* The runtime shuts down, so a final state without successors is expected.
CHECK_DEADLOCK FALSE
