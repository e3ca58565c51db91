CONSTANTS
    Policies = {p1}
    Counts = {2}
    Labels = {"a"}
    MaxVer = 1
    MaxGen = 2
    MaxEdits = 1
    EditKinds = {"policy"}
    MaxDisruptions = 1
    DisruptionKinds = {"create", "evict", "callFails", "lostReply", "timeout", "slow"}
    Pods = {u1, u2, u3}
    MaxLag = 1
SPECIFICATION FairSpec
PROPERTIES Populated StuckReported DigestSettles
CHECK_DEADLOCK FALSE
