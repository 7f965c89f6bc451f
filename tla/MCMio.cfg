\* Two listeners on one reactor; the batch is pushed before every second event.
SPECIFICATION Spec
CONSTANTS
  s1 = s1
  s2 = s2
  Sockets <- Listeners
  Interests <- ListenerInterests
  Keys = {0, 1}
  BatchEvery = 2
INVARIANTS TypeOK EventsFindTheirSlot DispatcherAlive RemovalIsValid IInv
\* The reactor ends.
CHECK_DEADLOCK FALSE
