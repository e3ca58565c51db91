CONSTANTS
    Ids = {i1, i2}
    Clients = {}
    MaxEvents = 1
    MaxRevision = 4
    MaxRestarts = 1
    PatchOutcomes = {"lost", "applied"}
    MaxFaults = 2
SPECIFICATION FairSpec
PROPERTIES SignatureCatchesUp
CHECK_DEADLOCK FALSE
