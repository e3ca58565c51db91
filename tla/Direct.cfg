CONSTANTS
  None = None
  r1 = r1  r2 = r2  d1 = d1  d2 = d2  g1 = g1  g2 = g2  p1 = p1  p2 = p2
  Requesters = {r1, r2}
  Providers = {d1, d2}
  Patches = {p1, p2}
  Gpus = {g1, g2}
  SleeperLimit = 0
  DebugAccelMemory = FALSE
  MaxLag = 1
  MaxDisruptions = 0
  DisruptionKinds = {}
SPECIFICATION SettledSpec
INVARIANTS
  DirectTypeOK
PROPERTIES
  TakesOnlyReleased
  DirectFinalizerGuardsSleep
SYMMETRY Symmetry
\* Requesters come and go a bounded number of times, then nothing is left to do.
CHECK_DEADLOCK FALSE
