----------------------------- MODULE GpuAllocation -----------------------------
(* How test requesters allocate GPUs (cmd/test-requester/gpu-allocation.go):    *)
(* each of them, in the container of its Pod, tries until it succeeds to enter  *)
(* itself into the ConfigMap "gpu-allocs" as the holder of GPUs of its node.    *)
(* Each call of the API server is a step of its own.                            *)
EXTENDS Naturals, FiniteSets

CONSTANTS
    Pods,             \* the Pods of test requesters, by UID
    GPUs,             \* the GPUs the "gpu-map" ConfigMap lists
    NodeOfGPU,        \* the node of each GPU
    NodeOfPod,        \* the node of each Pod
    Visible,          \* per Pod: the GPUs that NVIDIA_VISIBLE_DEVICES leaves visible
    NumGPUs,          \* per Pod: --num-gpus
    MaxDisruptions    \* bound: deletions of Pods, restarts of containers, lost replies

Nobody == "nobody"

ASSUME AllocationConstants ==
    /\ Nobody \notin Pods
    /\ NodeOfPod \in [Pods -> {NodeOfGPU[g] : g \in GPUs}]
    /\ Visible \in [Pods -> SUBSET GPUs] /\ NumGPUs \in [Pods -> Nat]
    /\ MaxDisruptions \in Nat

VARIABLES
    pods,             \* the Pods that exist
    exists,           \* whether the ConfigMap gpu-allocs exists
    allocs,           \* its data: per GPU, the holder
    proc,             \* per Pod: its requester process
    overlooked,       \* history: existing Pods whose entry a process took for one of no Pod
    disruptions       \* history: disruptions so far

allocVars == <<pods, exists, allocs, proc, overlooked, disruptions>>

\* A process: its progress (unborn, idle, listed, creating, chosen, serving, ended),
\* the Pods it listed, the allocations it is going to write and the GPUs it chose,
\* whether the ConfigMap it read is still current.
At(phase) == [phase |-> phase, seen |-> {}, data |-> [g \in GPUs |-> Nobody],
              gpus |-> {}, current |-> FALSE]

AllocInit ==
    /\ pods = {} /\ exists = FALSE /\ allocs = [g \in GPUs |-> Nobody]
    /\ proc = [p \in Pods |-> At("unborn")]
    /\ overlooked = {} /\ disruptions = 0

\* A Pod is created and its container started.  A Pod does not return: a
\* replacement has another UID.
PodStarts(p) ==
    /\ proc[p].phase = "unborn"
    /\ pods' = pods \union {p} /\ proc' = [proc EXCEPT ![p] = At("idle")]
    /\ UNCHANGED <<exists, allocs, overlooked, disruptions>>

Disrupt == disruptions < MaxDisruptions /\ disruptions' = disruptions + 1

\* The Pod is deleted: the object goes once the process has ended.
PodEnds(p) ==
    /\ Disrupt /\ p \in pods
    /\ pods' = pods \ {p} /\ proc' = [proc EXCEPT ![p] = At("ended")]
    /\ UNCHANGED <<exists, allocs, overlooked>>

\* The container restarts and main() begins again.
ContainerRestarts(p) ==
    /\ Disrupt /\ p \in pods /\ proc[p].phase # "idle"
    /\ proc' = [proc EXCEPT ![p] = At("idle")]
    /\ UNCHANGED <<pods, exists, allocs, overlooked>>

\* onNode and visibleGPUFilter: the GPUs the process may choose from
Avail(p) == {g \in Visible[p] : NodeOfGPU[g] = NodeOfPod[p]}

\* getPodMap; the own Pod is in it, its process runs.
ListPods(p) ==
    /\ proc[p].phase = "idle"
    /\ proc' = [proc EXCEPT ![p].phase = "listed", ![p].seen = pods]
    /\ UNCHANGED <<pods, exists, allocs, overlooked, disruptions>>

\* Mutant of Used: other Pods' entries do not count.
UsedByNobody(p) == {}

\* The entries on the node of p, by what the process makes of the holder
Obsolete(p) == {g \in GPUs : /\ allocs[g] # Nobody /\ NodeOfPod[allocs[g]] = NodeOfPod[p]
                             /\ allocs[g] \notin proc[p].seen}
Used(p) == {g \in GPUs : /\ allocs[g] # Nobody /\ NodeOfPod[allocs[g]] = NodeOfPod[p]
                         /\ allocs[g] \in proc[p].seen \ {p}}

\* getGPUAlloc does not find the ConfigMap.
FindMissing(p) ==
    /\ proc[p].phase = "listed" /\ ~exists
    /\ proc' = [proc EXCEPT ![p].phase = "creating"]
    /\ UNCHANGED <<pods, exists, allocs, overlooked, disruptions>>

\* Mutant of CreateFails: the process takes it for a fatal error.
CreateEnds(p) ==
    /\ proc[p].phase = "creating" /\ exists
    /\ proc' = [proc EXCEPT ![p] = At("ended")]
    /\ UNCHANGED <<pods, exists, allocs, overlooked, disruptions>>

\* The ConfigMap to be created has been created by another process.
CreateFails(p) ==
    /\ proc[p].phase = "creating" /\ exists
    /\ proc' = [proc EXCEPT ![p] = At("idle")]
    /\ UNCHANGED <<pods, exists, allocs, overlooked, disruptions>>

\* getGPUAlloc reads or creates the ConfigMap, and the choice is made: entries of
\* Pods that were not listed are to be removed, GPUs of other Pods are not chosen,
\* and own entries of before stay as they are.  Too few GPUs end this try.
ReadAndChoose(p) ==
    /\ \/ proc[p].phase = "listed" /\ exists
       \/ proc[p].phase = "creating" /\ ~exists
    /\ exists' = TRUE
    /\ overlooked' = overlooked \union ({allocs[g] : g \in Obsolete(p)} \intersect pods)
    /\ LET rem == Avail(p) \ Used(p)
           mine == {s \in SUBSET rem : Cardinality(s) = NumGPUs[p]}
       IN \/ mine = {} /\ proc' = [proc EXCEPT ![p] = At("idle")]
          \/ \E s \in mine :
               proc' = [proc EXCEPT ![p] =
                    [phase |-> "chosen", seen |-> {}, gpus |-> s, current |-> TRUE,
                     data |-> [g \in GPUs |-> IF g \in s THEN p
                                              ELSE IF g \in Obsolete(p) THEN Nobody
                                              ELSE allocs[g]]]]
    /\ UNCHANGED <<pods, allocs, disruptions>>

\* The processes after a write of the ConfigMap: what others have read is stale.
AfterWrite(p, outcome) ==
    [q \in Pods |-> IF q = p THEN outcome ELSE [proc[q] EXCEPT !.current = FALSE]]

\* Mutant of Update: the resourceVersion is not sent.
UpdateAnyway(p) ==
    /\ proc[p].phase = "chosen" /\ allocs' = proc[p].data
    /\ proc' = AfterWrite(p, [At("serving") EXCEPT !.gpus = proc[p].gpus])
    /\ UNCHANGED <<pods, exists, overlooked, disruptions>>

\* The update of the ConfigMap, refused when it was changed since it was read.
\* The reply may get lost; then the try counts as failed.
Update(p) ==
    /\ proc[p].phase = "chosen"
    /\ \/ /\ ~proc[p].current /\ proc' = [proc EXCEPT ![p] = At("idle")]
          /\ UNCHANGED <<allocs, disruptions>>
       \/ /\ proc[p].current /\ allocs' = proc[p].data
          /\ \/ /\ proc' = AfterWrite(p, [At("serving") EXCEPT !.gpus = proc[p].gpus])
                /\ UNCHANGED disruptions
             \/ Disrupt /\ proc' = AfterWrite(p, At("idle"))
    /\ UNCHANGED <<pods, exists, overlooked>>

Try(p) == ListPods(p) \/ FindMissing(p) \/ CreateFails(p) \/ ReadAndChoose(p) \/ Update(p)

AllocNext ==
    \E p \in Pods : PodStarts(p) \/ PodEnds(p) \/ ContainerRestarts(p) \/ Try(p)

AllocSpec == AllocInit /\ [][AllocNext]_allocVars

---------------------------------------------------------------------------
\* Properties

\* The GPUs that the requester of p tells the dual-pods controller about
Holds(p) == IF proc[p].phase = "serving" THEN proc[p].gpus ELSE {}

\* Two requesters never hold the same GPU, with one exception: a Pod that a process
\* did not know of, because it was created and got its GPUs between the process's
\* list of Pods and its read of the allocations.  Restarts, deletions, conflicting
\* updates and lost replies do not matter.
ExclusiveUnlessOverlooked ==
    \A p, q \in Pods : p # q /\ Holds(p) \intersect Holds(q) # {}
                       => p \in overlooked \/ q \in overlooked

\* Two requesters never hold the same GPU.
ExclusiveGPU == \A p, q \in Pods : p # q => Holds(p) \intersect Holds(q) = {}

\* A requester holds what it asked for, of its node and visible to it, and the
\* ConfigMap says so.
HoldsWhatIsRecorded ==
    \A p \in Pods : proc[p].phase = "serving" =>
       /\ Cardinality(Holds(p)) = NumGPUs[p] /\ Holds(p) \subseteq Avail(p)
       /\ p \notin overlooked => \A g \in Holds(p) : allocs[g] = p

\* GPUs entered for a Pod whose requester holds others: its process chose again
\* after a restart or a lost reply.
Leaked == {g \in GPUs : /\ allocs[g] \in pods
                        /\ proc[allocs[g]].phase = "serving" /\ g \notin Holds(allocs[g])}

\* A Pod that stays gets its GPUs, if no entry is left behind by another one's retry.
AllocationSucceeds ==
    \A p \in Pods : p \in pods ~> (p \notin pods \/ proc[p].phase = "serving" \/ Leaked # {})
===============================================================================
