CONSTANTS
    p1 = p1
    p2 = p2
    p3 = p3
    g1 = g1
    g2 = g2
    g3 = g3
    n1 = n1
    n2 = n2
    Pods = {p1, p2, p3}
    GPUs = {g1, g2, g3}
    NodeOfGPU <- MCNodeOfGPU
    NodeOfPod <- MCNodeOfPod
    Visible <- MCVisible
    NumGPUs <- MCNumGPUs
    MaxDisruptions = 1
    MaxLog = 2
    MaxResponse = 2
    MaxBroken = 1
    Logged = p1
SPECIFICATION FairSpec
INVARIANTS ExclusiveUnlessOverlooked HoldsWhatIsRecorded LogIsPrefix NothingSkipped
PROPERTIES AllocationSucceeds
CHECK_DEADLOCK FALSE
