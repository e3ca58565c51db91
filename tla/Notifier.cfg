CONSTANTS
    Ids = {i1, i2}
    Clients = {}
    MaxEvents = 1
    MaxRevision = 3
    MaxRestarts = 1
    PatchOutcomes = {"lost"}
    MaxFaults = 2
SPECIFICATION FairSpec
PROPERTIES SignatureCatchesUp
CHECK_DEADLOCK FALSE
