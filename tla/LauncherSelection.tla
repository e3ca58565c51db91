--------------------------- MODULE LauncherSelection ---------------------------
(* Which vLLM instances of a launcher Pod the dual-pods controller deletes so  *)
(* that the launcher can host one more instance: the planning part of          *)
(* selectOrReclaimLauncherPod and pickInstanceVictims.  Last-used times are    *)
(* abstracted away, so every choice that the LRU order could make among equally*)
(* many victims is allowed.                                                    *)
EXTENDS Integers, FiniteSets

\* The instances, other than the target, that listen on the target's port.
PortConflictVictims(insts, target, port) ==
    {i \in insts \ {target} : port[i] = port[target]}

\* The remaining instances that are not the target.
OtherVictims(insts, target, port) ==
    {i \in insts \ {target} : port[i] # port[target]}

\* Mutants of HasCapacity: port conflicts overlooked; one instance too many.
HasCapacityOnAnyPort(insts, target, port, maxOthers) == Cardinality(insts) <= maxOthers
HasCapacityForOneMore(insts, target, port, maxOthers) ==
    /\ PortConflictVictims(insts, target, port) = {}
    /\ Cardinality(insts) <= maxOthers + 1

\* No instance has to go before the target can be created.
HasCapacity(insts, target, port, maxOthers) ==
    /\ PortConflictVictims(insts, target, port) = {}
    /\ Cardinality(insts) <= maxOthers

\* How many instances must go at least.
ToDelete(insts, maxOthers) ==
    IF Cardinality(insts) - maxOthers > 1 THEN Cardinality(insts) - maxOthers ELSE 1

\* The possible results of pickInstanceVictims: up to limit of the candidates.
PickInstanceVictims(candidates, limit) ==
    {V \in SUBSET candidates :
        Cardinality(V) = IF limit <= 0 THEN 0
                         ELSE IF limit <= Cardinality(candidates) THEN limit
                         ELSE Cardinality(candidates)}

\* The possible victims of a reclaim plan: every port conflict and, while that
\* is not enough, some of the others.
ReclaimPlans(insts, target, port, maxOthers) ==
    LET conflicts == PortConflictVictims(insts, target, port) IN
    {conflicts \cup V :
        V \in PickInstanceVictims(OtherVictims(insts, target, port),
                                  ToDelete(insts, maxOthers) - Cardinality(conflicts))}
================================================================================
