CONSTANTS
    Policies = {p1, p2}
    Counts = {1, 2}
    Labels = {"a"}
    MaxVer = 2
    MaxGen = 2
    MaxEdits = 2
    EditKinds = {"config", "noConfig", "policy", "node"}
    MaxDisruptions = 1
    DisruptionKinds = {"callFails", "lostReply"}
    p1 = p1
    p2 = p2
SPECIFICATION DigestSpec
SYMMETRY Symmetry
INVARIANTS DigestAgrees
CHECK_DEADLOCK FALSE
