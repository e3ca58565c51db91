CONSTANTS
    Policies = {p1}
    Counts = {1, 2}
    Labels = {"a"}
    MaxVer = 1
    MaxGen = 2
    MaxEdits = 2
    EditKinds = {"policy", "newPolicy"}
    MaxDisruptions = 0
    DisruptionKinds = {}
    p1 = p1
    p2 = p2
SPECIFICATION DigestSpec
INVARIANTS DigestAgrees
CHECK_DEADLOCK FALSE
