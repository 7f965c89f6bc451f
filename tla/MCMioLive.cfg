\* One stream, its reader and its writer.
SPECIFICATION FairSpec
CONSTANTS
  s1 = s1
  s2 = s2
  Sockets <- Stream
  Interests <- StreamInterests
  Keys = {0}
  BatchEvery = 2
INVARIANTS NoLostReadiness IInv
PROPERTIES ReadinessIsServed ReactorStops
\* The reactor ends.
CHECK_DEADLOCK FALSE
