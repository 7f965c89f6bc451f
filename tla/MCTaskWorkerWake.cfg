\* Wakers may also be used on worker threads while the task is idle.
SPECIFICATION Spec
CONSTANTS
  w1 = w1
  w2 = w2
  w3 = w3
  h1 = h1
  h2 = h2
  h3 = h3
  Workers <- MCWorkers
  FirstWorker = w1
  Handles <- MCHandles
  IdleWakeFromWorker = TRUE
INVARIANT NotLost
CHECK_DEADLOCK FALSE
