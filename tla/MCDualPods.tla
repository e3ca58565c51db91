------------------------------ MODULE MCDualPods ------------------------------
EXTENDS DualPods, TLC

CONSTANTS r1, r2, l1, l2, c1, c2, g1, g2

OwnNames == [r \in Requesters |-> r]
SameName == [r \in Requesters |-> "name"]
SameIsc == [r \in Requesters |-> c1]
OwnIsc == [r \in Requesters |-> IF r = r1 THEN c1 ELSE c2]
SameGpu == [r \in Requesters |-> g1]
OwnGpu == [r \in Requesters |-> IF r = r1 THEN g1 ELSE g2]
SamePort == [c \in Iscs |-> 8000]
OwnPort == [c \in Iscs |-> IF c = c1 THEN 8000 ELSE 8001]
\* Each requester with its own config, GPU and port: the two may be swapped with all
\* that is theirs.  Ports are only compared with each other.
SwapSymmetry ==
    {p \in Permutations({r1, r2, c1, c2, g1, g2}) :
        /\ p[r1] \in {r1, r2} /\ p[c1] \in {c1, c2} /\ p[g1] \in {g1, g2}
        /\ p[r2] \in {r1, r2} /\ p[c2] \in {c1, c2}
        /\ (p[r1] = r1) = (p[c1] = c1) /\ (p[r1] = r1) = (p[g1] = g1)}
Symmetry == Permutations(Requesters) \cup Permutations(Launchers)

\* The launcher-populator has made every launcher, each has become Ready, and the
\* controller has seen and listed it; no requester has come yet.
ReadyInit ==
    /\ req = [r \in Requesters |-> NoReq] /\ creq = req
    /\ lp = [l \in Launchers |-> [NoLp EXCEPT !.st = "live", !.phase = "ready"]] /\ clp = lp
    /\ stream = <<>>
    /\ iscs = [c \in Iscs |-> StartVer] /\ ciscs = iscs
    /\ node = "ok"
    /\ inst = [l \in Launchers |-> NoInstances]
    /\ spi = [r \in Requesters |-> FALSE]
    /\ sd = [r \in Requesters |-> NoServerData]
    /\ ld = Launchers /\ queue = {} /\ th = Idle
    /\ budget = MaxDisruptions
ReadyFairSpec == ReadyInit /\ [][Next]_vars /\ Fairness
===============================================================================
