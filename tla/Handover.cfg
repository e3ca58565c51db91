CONSTANTS
  None = None
  r1 = r1  r2 = r2  l1 = l1  l2 = l2  c1 = c1  c2 = c2  g1 = g1  g2 = g2
  Requesters = {r1, r2}
  Launchers = {l1}
  Iscs = {c1}
  Gpus = {g1}
  StartVer = 1
  MaxVer = 1
  MaxInstances = 1
  MaxLag = 1
  MaxDisruptions = 1
  DisruptionKinds = {"callFails", "restart", "vllmDies"}
  NameOf <- OwnNames
  IscOf <- SameIsc
  GpuOf <- SameGpu
  PortOf <- SamePort
SPECIFICATION Spec
INVARIANTS
  TypeOK
  AwakeImpliesBound
  MetadataStaysValid
PROPERTIES
  ReadyOnlyWhenAwake
SYMMETRY Symmetry
\* Requesters come and go a bounded number of times, then nothing is left to do.
CHECK_DEADLOCK FALSE
