CONSTANTS
    Policies = {p1}
    Counts = {1}
    Labels = {"a"}
    MaxVer = 2
    MaxGen = 2
    MaxEdits = 1
    EditKinds = {"noConfig"}
    MaxDisruptions = 0
    DisruptionKinds = {}
    Pods = {u1, u2}
    MaxLag = 1
SPECIFICATION Spec
INVARIANTS TemplateAtHand
CHECK_DEADLOCK FALSE
