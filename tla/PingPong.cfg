\* Three rounds of messages of up to four bytes over a connection that holds two.
SPECIFICATION Spec
CONSTANTS
  Rounds = 3
  MaxLen = 4
  Cap = 2
INVARIANTS ExactUnlessTorn IInv
PROPERTY PingPongCompletes
\* The peers finish, or stall after a torn transfer.
CHECK_DEADLOCK FALSE
