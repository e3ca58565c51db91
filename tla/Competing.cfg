CONSTANTS
  None = None
  r1 = r1  r2 = r2  l1 = l1  l2 = l2  c1 = c1  c2 = c2  g1 = g1  g2 = g2
  Requesters = {r1, r2}
  Launchers = {l1}
  Iscs = {c1, c2}
  Gpus = {g1, g2}
  StartVer = 1
  MaxVer = 1
  MaxInstances = 1
  MaxLag = 2
  MaxDisruptions = 0
  DisruptionKinds = {}
  NameOf <- OwnNames
  IscOf <- OwnIsc
  GpuOf <- OwnGpu
  PortOf <- OwnPort
SPECIFICATION Spec
INVARIANTS
  RoomForInstance
  AwakeImpliesBound
SYMMETRY SwapSymmetry
PROPERTIES
  BoundAtMostOnce
\* Requesters come and go a bounded number of times, then nothing is left to do.
CHECK_DEADLOCK FALSE
