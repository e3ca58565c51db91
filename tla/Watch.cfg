CONSTANTS
    Ids = {i1, i2}
    Clients = {c1}
    MaxEvents = 2
    MaxRevision = 3
    MaxRestarts = 1
SPECIFICATION MCFairSpec
INVARIANTS LauncherTypeOK ViewFollowsTable LifeCycleLogged
PROPERTIES ImplementsEventLog StreamsCatchUp
CHECK_DEADLOCK FALSE
