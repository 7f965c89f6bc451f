\* Two workers that may run out of work, be shut down, or die in a panic.
SPECIFICATION FairSpec
CONSTANTS
  t1 = t1
  t2 = t2
  t3 = t3
  p1 = p1
  main = main
  N = 2
  Tasks <- ThreeTasks
  FirstTask = t1
  Producers <- NoProducer
  Main = main
  EPOCH = 4
  EpochMod = 8
  StealAttempts = 1
  MaxWakes = 0
  MaxShutdowns = 1
  MaxPanics = 1
PROPERTY LemmaC
\* With its bounds used up the system comes to rest.
CHECK_DEADLOCK FALSE
