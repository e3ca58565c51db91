CONSTANTS
    Policies = {p1}
    Counts = {0, 2}
    Labels = {"a"}
    MaxVer = 2
    MaxGen = 2
    MaxEdits = 1
    EditKinds = {"config", "noConfig", "policy", "newPolicy", "node"}
    MaxDisruptions = 1
    DisruptionKinds = {"bind", "restart", "slow"}
    Pods = {u1, u2, u3}
    MaxLag = 2
SPECIFICATION Spec
SYMMETRY Symmetry
INVARIANTS TypeOK DigestAgrees
PROPERTIES BoundKept RoomBeforeCreate PopulationKept
CHECK_DEADLOCK FALSE
