\* Two threads, two shared lists and three tasks.
SPECIFICATION Spec
CONSTANTS
  x1 = x1
  x2 = x2
  l1 = l1
  l2 = l2
  t1 = t1
  t2 = t2
  t3 = t3
  NULL = NULL
  Threads <- MCThreads
  Lists <- MCLists
  Tasks <- MCTasks
INVARIANTS TypeOK WellLinked InBetween
PROPERTY QueueSpec
