\* wake() of Wakers that outlive the runtime.
SPECIFICATION Spec
CONSTANTS
  w1 = w1
  w2 = w2
  w3 = w3
  h1 = h1
  h2 = h2
  h3 = h3
  Workers <- MCWorkers
  FirstWorker = w1
  Handles <- MCHandles
  IdleWakeFromWorker = FALSE
INVARIANT WakeSafe
CHECK_DEADLOCK FALSE
