\* Two workers and a producer; the epoch wraps after two steps.
SPECIFICATION Spec
CONSTANTS
  t1 = t1
  t2 = t2
  t3 = t3
  p1 = p1
  main = main
  N = 2
  Tasks <- TwoTasks
  FirstTask = t1
  Producers <- OneProducer
  Main = main
  EPOCH = 4
  EpochMod = 2
  StealAttempts = 1
  MaxWakes = 1
  MaxShutdowns = 1
  MaxPanics = 1
INVARIANTS TypeOK LemmaA NoLostWakeup ActiveExact StealNeedsOthers ShutdownNotLost IInv
PROPERTY WordSpec
\* With its bounds used up the system comes to rest.
CHECK_DEADLOCK FALSE
