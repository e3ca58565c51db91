CONSTANTS
  None = None
  r1 = r1  r2 = r2  d1 = d1  d2 = d2  g1 = g1  g2 = g2  p1 = p1  p2 = p2
  Requesters = {r1}
  Providers = {d1}
  Patches = {p1}
  Gpus = {g1}
  SleeperLimit = 1
  DebugAccelMemory = FALSE
  MaxLag = 1
  MaxDisruptions = 0
  DisruptionKinds = {}
SPECIFICATION Spec
INVARIANTS
  MatchIsAsleep
\* Requesters come and go a bounded number of times, then nothing is left to do.
CHECK_DEADLOCK FALSE
