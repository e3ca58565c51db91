CONSTANTS
    Policies = {p1}
    Counts = {1}
    Labels = {"a"}
    MaxVer = 2
    MaxGen = 2
    MaxEdits = 1
    EditKinds = {"config"}
    MaxDisruptions = 0
    DisruptionKinds = {}
    Pods = {u1, u2}
    MaxLag = 1
SPECIFICATION FairSpec
PROPERTIES StaleReplaced
CHECK_DEADLOCK FALSE
