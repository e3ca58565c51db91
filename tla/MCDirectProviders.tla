--------------------------- MODULE MCDirectProviders ---------------------------
EXTENDS DirectProviders, TLC

CONSTANTS r1, r2, d1, d2, g1, g2, p1, p2

Symmetry ==
    Permutations(Requesters) \cup Permutations(Providers) \cup Permutations(Patches)
        \cup Permutations(Gpus)

\* The controller has read the Node's GPU map; no requester has come yet.
SettledInit ==
    /\ req = [r \in Requesters |-> NoReq] /\ creq = req
    /\ pv = [d \in Providers |-> NoPv] /\ cpv = pv
    /\ stream = <<>>
    /\ srv = [d \in Providers |-> "none"]
    /\ spi = [r \in Requesters |-> FALSE]
    /\ cm = [obj |-> Gpus, queued |-> FALSE, enqueue |-> FALSE] /\ gpuMap = Gpus
    /\ sd = [r \in Requesters |-> NoServerData]
    /\ queue = {} /\ th = Idle /\ budget = MaxDisruptions
SettledSpec == SettledInit /\ [][Next]_vars
========================================
