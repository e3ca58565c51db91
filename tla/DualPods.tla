-------------------------------- MODULE DualPods --------------------------------
(* The dual-pods controller on one Node, launcher-based providers: how a       *)
(* server-requesting Pod gets bound to a launcher Pod, how the vLLM instance   *)
(* inside is created, woken, routed, put to sleep and unbound, with            *)
(*   - the API server's copy of every Pod and the informer cache, which is a   *)
(*     prefix of the one Pod watch stream;                                     *)
(*   - optimistic concurrency: an Update or a Delete with a resourceVersion    *)
(*     precondition succeeds only on the latest version of the Pod;            *)
(*   - the controller's memory, lost in a restart, and its work queue;         *)
(*   - one step per API or HTTP call of infSvrItem.process: anything else may  *)
(*     happen between two calls, and a call may fail or its answer be lost.    *)
EXTENDS Sequences, LauncherSelection

CONSTANTS
    Requesters,       \* server-requesting Pods: one element per UID
    Launchers,        \* launcher Pods: one element per generated name
    Iscs,             \* InferenceServerConfig objects
    Gpus,             \* accelerators of the Node
    None,             \* no Pod, no instance, no GPU
    NameOf,           \* the name of each server-requesting Pod
    IscOf,            \* the InferenceServerConfig a requester asks for
    GpuOf,            \* the accelerator the kubelet assigned to a requester
    PortOf,           \* the port in an InferenceServerConfig
    StartVer,         \* initial version of every InferenceServerConfig (0: absent)
    MaxVer,           \* bound: the last version an InferenceServerConfig gets
    MaxInstances,     \* LauncherConfig.spec.maxInstances
    MaxLag,           \* bound: undelivered events in the Pod watch stream
    MaxDisruptions,   \* bound: disruptions in a behaviour
    DisruptionKinds   \* which kinds of disruption may happen

VARIABLES
    req,      \* API server: the server-requesting Pods
    lp,       \* API server: the launcher Pods
    stream,   \* Pod watch events on their way to the informer
    creq,     \* informer cache: server-requesting Pods
    clp,      \* informer cache: launcher Pods
    iscs,     \* API server: version of each InferenceServerConfig
    ciscs,    \* informer cache: version of each InferenceServerConfig
    node,     \* state of the Node object
    inst,     \* state of each vLLM instance in each launcher
    spi,      \* readiness state held by each requester container
    sd,       \* controller memory: serverData of each inference server
    ld,       \* controller memory: launchers that have launcherData
    queue,    \* controller: items of the node's LocalQueue
    th,       \* controller: the call in progress for this node
    budget    \* disruptions left

api == <<req, lp, stream>>
cache == <<creq, clp, ciscs>>
world == <<iscs, node, spi>>
vars == <<req, lp, stream, creq, clp, iscs, ciscs, node, inst, spi, sd, ld,
          queue, th, budget>>

InstanceIDs == Iscs \X (1..MaxVer) \X Gpus
InstPort == [i \in InstanceIDs |-> PortOf[i[1]]]
Pods == Requesters \cup Launchers

PodStates == {"none", "live", "deleting", "gone"}
Phases == {"pending", "running", "ready", "down", "restarted"}
Reports == {"unset", "ok", "noIP", "noGPUs", "noISC", "noLauncher"}
InstStates == {"absent", "starting", "awake", "asleep", "stopped"}
Disruptions == {"callFails", "lostReply", "restart", "vllmDies", "launcherDies",
                "evict", "cordon", "iscGone"}

ASSUME ConstantsOK ==
    /\ Requesters \cap Launchers = {} /\ Requesters \cap Iscs = {}
    /\ Launchers \cap Iscs = {}
    /\ None \notin Pods \cup Iscs \cup Gpus \cup InstanceIDs
    /\ DOMAIN NameOf = Requesters
    /\ IscOf \in [Requesters -> Iscs] /\ GpuOf \in [Requesters -> Gpus]
    /\ DOMAIN PortOf = Iscs
    /\ StartVer \in 0..MaxVer /\ MaxVer \in Nat /\ MaxInstances \in Nat \ {0}
    /\ MaxLag \in Nat \ {0} /\ MaxDisruptions \in Nat
    /\ DisruptionKinds \subseteq Disruptions

\* A server-requesting Pod: has it an IP, is its container Ready, does it carry
\* the controller's finalizer, and what the controller reported on it: status and
\* accelerators annotations, dual and instance labels.
ReqPod == [st : PodStates, ip : BOOLEAN, ready : BOOLEAN, fin : BOOLEAN,
           rpt : Reports, acc : Gpus \cup {None}, dual : Launchers \cup {None},
           ilab : InstanceIDs \cup {None}]
NoReq == [st |-> "none", ip |-> FALSE, ready |-> FALSE, fin |-> FALSE,
          rpt |-> "unset", acc |-> None, dual |-> None, ilab |-> None]

\* A launcher Pod: kubelet's report on its container, the requester annotation,
\* the instance-id annotation, the finalizer, the sleeping label and whether the
\* ISC routing labels are on it.
LaunPod == [st : PodStates, phase : Phases, bound : Requesters \cup {None},
            iid : InstanceIDs \cup {None}, fin : BOOLEAN,
            lab : {"unset", "true", "false"}, routed : BOOLEAN]
NoLp == [st |-> "none", phase |-> "pending", bound |-> None, iid |-> None,
         fin |-> FALSE, lab |-> "unset", routed |-> FALSE]

\* What the controller remembers of an inference server.
ServerData == [gpu : Gpus \cup {None}, prov : Launchers \cup {None},
               iid : InstanceIDs \cup {None}, known : BOOLEAN, labels : BOOLEAN,
               sleeping : {"nil", "true", "false"}, relayed : BOOLEAN,
               delreq : BOOLEAN]
NoServerData == [gpu |-> None, prov |-> None, iid |-> None, known |-> FALSE,
                 labels |-> FALSE, sleeping |-> "nil", relayed |-> FALSE,
                 delreq |-> FALSE]

\* The arguments of a pending ensureReqState call and what follows it.
ReqArgs == [fin : {"keep", "add", "rm"}, rpt : Reports,
            next : {"done", "retry", "relay"}]
NoArgs == [fin |-> "keep", rpt |-> "ok", next |-> "done"]

Steps == {"idle", "rmReqFin", "addReqFin", "delReqProvGone", "rmProvFin",
          "delTrouble", "deroute", "sleep", "unbind", "gpus", "sync",
          "delReqStopped", "create", "query", "wake", "labels", "delReqMeta",
          "reqState", "relay", "select", "delReqCordon", "bind", "newLauncher"}

\* The node's worker: the next call, the item, its snapshots of the requester
\* (found by name) and of the provider, and the Pods whose snapshot is no longer
\* the latest version.
Thread == [pc : Steps, item : Requesters \cup {None},
           rqn : Requesters \cup {None}, rq : ReqPod,
           pvn : Launchers \cup {None}, pv : LaunPod, dirty : SUBSET Pods,
           want : InstanceIDs \cup {None}, args : ReqArgs]
Idle == [pc |-> "idle", item |-> None, rqn |-> None, rq |-> NoReq, pvn |-> None,
         pv |-> NoLp, dirty |-> {}, want |-> None, args |-> NoArgs]

Events == [pod : Requesters, obj : ReqPod] \cup [pod : Launchers, obj : LaunPod]

Exists(o) == o.st \in {"live", "deleting"}

------------------------------------------------------------------------------
(* The API server and the informer.                                            *)

Room == Len(stream) < MaxLag

\* A write of a Pod by anybody: the new version goes out on the watch stream.
PutReq(r, o) ==
    /\ Room
    /\ req' = [req EXCEPT ![r] = o]
    /\ stream' = Append(stream, [pod |-> r, obj |-> o])
    /\ lp' = lp
PutLp(l, o) ==
    /\ Room
    /\ lp' = [lp EXCEPT ![l] = o]
    /\ stream' = Append(stream, [pod |-> l, obj |-> o])
    /\ req' = req

\* A write by somebody else makes the worker's snapshot of that Pod stale.
Touch(p) ==
    th' = [th EXCEPT !.dirty = IF p \in {th.rqn, th.pvn} THEN @ \cup {p} ELSE @]

\* The Pods with a version newer than the informer cache.
Pending == {stream[k].pod : k \in 1..Len(stream)}

\* A Delete of a Pod that still exists starts its graceful termination.
Deleting(o) == [o EXCEPT !.st = IF @ = "live" THEN "deleting" ELSE @]

Disrupt(kind) ==
    /\ kind \in DisruptionKinds /\ budget > 0
    /\ budget' = budget - 1

\* Mutant of CareAbout: a launcher Pod always stands for its requester.
CareAboutAsIfBound(p, o) == IF p \in Requesters THEN p ELSE o.bound
\* Mutant of CareAbout: a bound launcher Pod does not stand for its requester.
CareAboutPod(p, o) == p

\* Which queue item a Pod notification is about (careAbout).
CareAbout(p, o) ==
    IF p \in Requesters THEN p ELSE IF o.bound # None THEN o.bound ELSE p

\* The informer takes one event, updates its cache and notifies the controller
\* (OnAdd, OnUpdate, OnDelete), which enqueues an item.
DeliverPod ==
    /\ stream # <<>>
    /\ LET e == Head(stream) IN
       /\ creq' = IF e.pod \in Requesters THEN [creq EXCEPT ![e.pod] = e.obj] ELSE creq
       /\ clp' = IF e.pod \in Launchers THEN [clp EXCEPT ![e.pod] = e.obj] ELSE clp
       /\ queue' = queue \cup {CareAbout(e.pod, e.obj)}
    /\ stream' = Tail(stream)
    /\ UNCHANGED <<req, lp, ciscs, world, inst, sd, ld, th, budget>>

\* The InferenceServerConfig informer catches up: enqueueInfSvrItemsByISC, and an
\* instanceGCItem when the spec of an existing object changed.
DeliverIsc(c) ==
    /\ ciscs[c] # iscs[c]
    /\ ciscs' = [ciscs EXCEPT ![c] = iscs[c]]
    /\ queue' = queue \cup {r \in Requesters : IscOf[r] = c /\ Exists(creq[r])}
                      \cup (IF ciscs[c] # 0 /\ iscs[c] # 0 THEN {c} ELSE {})
    /\ UNCHANGED <<api, creq, clp, world, inst, sd, ld, th, budget>>

------------------------------------------------------------------------------
(* Calls of the worker.  s0 is the serverData when the call is made, s1 after  *)
(* it succeeded and t the worker's next state.                                 *)

me == th.item
\* Mutant of ItemsRetry: the failed item is dropped.
ItemsForgotten == queue' = queue

ItemsRetry == queue' = queue \cup {me}
Goto(step) == [th EXCEPT !.pc = step]

Advance(s1, t) ==
    /\ sd' = [sd EXCEPT ![me] = s1]
    /\ th' = t
    /\ queue' = queue

\* processResult{err, retry: true}: the item goes back to the LocalQueue.
Retry(s0) ==
    /\ sd' = [sd EXCEPT ![me] = s0]
    /\ th' = Idle
    /\ ItemsRetry

\* An Update of Pod p, of which write is the effect in the API server.
Update(p, write, s0, s1, t) ==
    /\ \/ p \in th.dirty /\ UNCHANGED <<api, budget>> /\ Retry(s0)
       \/ p \notin th.dirty /\ write /\ Advance(s1, t) /\ UNCHANGED budget
       \/ p \notin th.dirty /\ write /\ Retry(s0) /\ Disrupt("lostReply")
       \/ UNCHANGED api /\ Retry(s0) /\ Disrupt("callFails")
    /\ UNCHANGED <<cache, world, inst, ld>>

\* A Delete of the requester's name with a UID precondition and, when rv holds,
\* a resourceVersion precondition; NotFound counts as success.
NameTaken(r) == \E x \in Requesters : NameOf[x] = NameOf[r] /\ Exists(req[x])
DeleteReq(r) ==
    IF req[r].st = "live" THEN PutReq(r, Deleting(req[r])) ELSE UNCHANGED api
DeleteRequester(uid, rv, s0, s1, t) ==
    LET refused == ~Exists(req[uid]) \/ (rv /\ th.rqn \in th.dirty) IN
    /\ \/ ~NameTaken(th.rqn) /\ UNCHANGED <<api, budget>> /\ Advance(s1, t)
       \/ NameTaken(th.rqn) /\ refused /\ UNCHANGED <<api, budget>> /\ Retry(s0)
       \/ ~refused /\ DeleteReq(uid) /\ Advance(s1, t) /\ UNCHANGED budget
       \/ ~refused /\ DeleteReq(uid) /\ Retry(s0) /\ Disrupt("lostReply")
       \/ UNCHANGED api /\ Retry(s0) /\ Disrupt("callFails")
    /\ UNCHANGED <<cache, world, inst, ld>>

\* An HTTP call to the launcher or to a vLLM instance that leaves the instances as
\* is; ok says whether the other side is there to answer.
HttpCall(ok, is, s0, s1, t) ==
    /\ \/ ok /\ inst' = is /\ Advance(s1, t) /\ UNCHANGED budget
       \/ ok /\ inst' = is /\ Retry(s0) /\ Disrupt("lostReply")
       \/ ~ok /\ inst' = inst /\ Retry(s0) /\ UNCHANGED budget
       \/ ok /\ inst' = inst /\ Retry(s0) /\ Disrupt("callFails")
    /\ UNCHANGED <<api, cache, world, ld>>

Reachable(l) == Exists(lp[l]) /\ lp[l].phase = "ready"
SetInst(l, i, s) == [inst EXCEPT ![l][i] = s]

------------------------------------------------------------------------------
(* infSvrItem.process: from the queue to the first call.                       *)

\* Lookups by name and by the requester index.
RequestersNamed(r) == {x \in Requesters : NameOf[x] = NameOf[r] /\ Exists(creq[x])}
\* Mutant of ProvidersOf: a provider that is being deleted is overlooked.
ProvidersOfLive(r) == {l \in Launchers : clp[l].st = "live" /\ clp[l].bound = r}

ProvidersOf(r) == {l \in Launchers : Exists(clp[l]) /\ clp[l].bound = r}

\* Mutant of WantFinalizer: a provider that is going away needs no finalizer.
WantFinalizerWhileLive(pv) == pv.st = "live" /\ pv.phase \in {"running", "ready", "restarted"}

\* maybeRemoveRequesterFinalizer: is the provider's container running?
WantFinalizer(pv) == Exists(pv) /\ pv.phase \in {"running", "ready", "restarted"}
ShouldAddFinalizer(t) == WantFinalizer(t.pv) /\ ~t.rq.fin /\ t.rq.st = "live"

\* PodIsInTrouble: its container has restarted and the Pod is not Ready.
InTrouble(pv) == pv.phase = "restarted"

\* Mutant of Recover: the routing labels are overlooked.
RecoverWithoutLabels(s, pv) == IF s.iid # None THEN s ELSE [s EXCEPT !.iid = pv.iid]

\* recoverInstanceStateFromLauncherPod.
Recover(s, pv) ==
    IF s.iid # None THEN s ELSE [s EXCEPT !.iid = pv.iid, !.labels = pv.routed]

ReqState(t, fin, rpt, next) ==
    [t EXCEPT !.pc = "reqState", !.args = [fin |-> fin, rpt |-> rpt, next |-> next]]
AddIf(b) == IF b THEN "add" ELSE "keep"

\* The part of process that follows the GPU query: with a provider it goes on once
\* the launcher is reachable; without one it needs the InferenceServerConfig.
Proceed(t, s) ==
    LET c == IscOf[t.rqn] IN
    IF Exists(t.pv)
    THEN IF t.pv.phase = "ready" THEN [t EXCEPT !.pc = "sync"] ELSE Idle
    ELSE IF ciscs[c] = 0 THEN ReqState(t, "keep", "noISC", "done")
    ELSE IF node = "cordoned" THEN [t EXCEPT !.pc = "delReqCordon"]
    ELSE [t EXCEPT !.pc = "select", !.want = <<c, ciscs[c], s.gpu>>]

ProceedData(t, s) == IF Exists(t.pv) THEN Recover(s, t.pv) ELSE s

\* The first call, from the snapshots in t.
FirstCall(t, s) ==
    IF Exists(t.rq) /\ t.rq.fin /\ ~WantFinalizer(t.pv) THEN [t EXCEPT !.pc = "rmReqFin"]
    ELSE IF t.pv.st = "deleting" THEN
        [t EXCEPT !.pc = IF t.rq.st # "live" THEN "rmProvFin"
                         ELSE IF ShouldAddFinalizer(t) THEN "addReqFin"
                         ELSE "delReqProvGone"]
    ELSE IF t.rq.st # "live" /\ Exists(t.pv) THEN
        [t EXCEPT !.pc = IF InTrouble(t.pv) THEN "delTrouble" ELSE "deroute"]
    ELSE IF t.rq.st # "live" \/ s.delreq \/ node = "gone" THEN Idle
    ELSE IF ~t.rq.ip THEN ReqState(t, AddIf(ShouldAddFinalizer(t)), "noIP", "done")
    ELSE [t EXCEPT !.pc = "gpus"]

\* The worker takes an inference server item: snapshots of the requester and of
\* the provider; nothing to do when there are several providers; the memory is
\* cleared when both Pods are gone.
TakeInfSvrItem(r) ==
    /\ th.pc = "idle" /\ r \in queue
    /\ queue' = queue \ {r}
    /\ LET rqs == RequestersNamed(r)
           pvs == ProvidersOf(r)
       IN \/ Cardinality(pvs) > 1 /\ UNCHANGED <<sd, th>>
          \/ /\ rqs = {} /\ pvs = {}
             /\ sd' = [sd EXCEPT ![r] = NoServerData] /\ th' = th
          \/ /\ rqs # {} \/ pvs # {}
             /\ Cardinality(pvs) <= 1
             /\ \E x \in IF rqs = {} THEN {None} ELSE rqs, l \in IF pvs = {} THEN {None} ELSE pvs :
                LET t == [Idle EXCEPT !.item = r, !.rqn = x, !.pvn = l,
                            !.rq = IF x = None THEN NoReq ELSE creq[x],
                            !.pv = IF l = None THEN NoLp ELSE clp[l],
                            !.dirty = Pending \cap {x, l}]
                    s == [sd[r] EXCEPT !.prov = IF l = None THEN @ ELSE l]
                IN /\ th' = FirstCall(t, s)
                   /\ sd' = [sd EXCEPT ![r] = s]
    /\ UNCHANGED <<api, cache, world, inst, ld, budget>>

\* The GPU query (skipped when the answer is remembered), then the decisions up to
\* the next call.  A failed query is reported on the requester and retried.
FetchGpus ==
    /\ th.pc = "gpus"
    /\ LET s == sd[me]
           g == [s EXCEPT !.gpu = IF s.gpu = None THEN GpuOf[th.rqn] ELSE s.gpu]
           failed == Advance(s, ReqState(th, "keep", "noGPUs", "retry"))
       IN \/ /\ s.gpu # None \/ Exists(req[th.rqn])
             /\ Advance(ProceedData(th, g), Proceed(th, g)) /\ UNCHANGED budget
          \/ s.gpu = None /\ ~Exists(req[th.rqn]) /\ failed /\ UNCHANGED budget
          \/ s.gpu = None /\ failed /\ Disrupt("callFails")
    /\ UNCHANGED <<api, cache, world, inst, ld>>

------------------------------------------------------------------------------
(* process: finalizers and deletions that are relayed between the two Pods.    *)

RemoveRequesterFinalizer ==
    /\ th.pc = "rmReqFin"
    /\ Update(th.rqn, PutReq(th.rqn, [th.rq EXCEPT !.fin = FALSE]), sd[me], sd[me], Idle)

AddRequesterFinalizer ==
    /\ th.pc = "addReqFin"
    /\ LET o == [th.rq EXCEPT !.fin = TRUE, !.dual = th.pvn,
                              !.ilab = IF sd[me].iid = None THEN @ ELSE sd[me].iid] IN
       Update(th.rqn, PutReq(th.rqn, o), sd[me], sd[me],
              [th EXCEPT !.pc = "delReqProvGone", !.rq = o])

\* The provider is going away: so must the requester.
DeleteRequesterOfGoneProvider ==
    /\ th.pc = "delReqProvGone"
    /\ DeleteRequester(me, TRUE, sd[me], [sd[me] EXCEPT !.delreq = TRUE], Goto("rmProvFin"))

RemoveProviderFinalizer ==
    /\ th.pc = "rmProvFin"
    /\ IF th.pv.fin
       THEN Update(th.pvn, PutLp(th.pvn, [th.pv EXCEPT !.fin = FALSE]), sd[me], sd[me], Idle)
       ELSE Advance(sd[me], Idle) /\ UNCHANGED <<api, cache, world, inst, ld, budget>>

\* "As a special favor, delete providingPod if it is in trouble"; on any failure
\* the unbinding goes on.  The trouble is a disruption: a failure here is free.
DeleteTroubledProvider ==
    /\ th.pc = "delTrouble"
    /\ \/ /\ th.pvn \notin th.dirty
          /\ PutLp(th.pvn, Deleting(th.pv)) /\ Advance(sd[me], Idle)
       \/ /\ th.pvn \in th.dirty \/ "callFails" \in DisruptionKinds
          /\ UNCHANGED api /\ Advance(sd[me], Goto("deroute"))
       \/ /\ "lostReply" \in DisruptionKinds
          /\ th.pvn \notin th.dirty /\ PutLp(th.pvn, Deleting(th.pv))
          /\ Advance(sd[me], [Goto("deroute") EXCEPT !.dirty = @ \cup {th.pvn}])
    /\ UNCHANGED <<cache, world, inst, ld, budget>>

------------------------------------------------------------------------------
(* ensureUnbound: de-route, put to sleep, unbind.                              *)

\* recoverInstanceStateFromLauncherPod, then removeISCRoutingLabels.
RemoveRoutingLabels ==
    /\ th.pc = "deroute"
    /\ LET s == Recover(sd[me], th.pv)
           o == [th.pv EXCEPT !.routed = FALSE]
       IN IF th.pv.routed
          THEN Update(th.pvn, PutLp(th.pvn, o), s, s, [th EXCEPT !.pc = "sleep", !.pv = o])
          ELSE Advance(s, Goto("sleep")) /\ UNCHANGED <<api, cache, world, inst, ld, budget>>

\* The instance was made from contents its InferenceServerConfig no longer has.
Obsolete(i) == ciscs[i[1]] # 0 /\ ciscs[i[1]] # i[2]

\* Mutant of NeedsSleep: not knowing is taken for sleeping.
NeedsSleepIfKnownAwake(s, pv) == s.sleeping = "false" /\ pv.phase # "pending"

NeedsSleep(s, pv) == s.sleeping # "true" /\ pv.phase # "pending"

\* maybeDeleteObsoleteInstance: the instance is gone already or is deleted instead
\* of put to sleep; a failure there leads to the POST /sleep.
DeleteObsolete(l, i, s, done) ==
    /\ \/ inst' = SetInst(l, i, "absent") /\ Advance(done, Goto("unbind")) /\ UNCHANGED budget
       \/ /\ inst[l][i] \in {"awake", "asleep"} /\ inst' = SetInst(l, i, "asleep")
          /\ Advance(done, Goto("unbind")) /\ Disrupt("callFails")
       \/ inst[l][i] \notin {"awake", "asleep"} /\ inst' = inst /\ Retry(s) /\ Disrupt("callFails")
       \/ inst' = SetInst(l, i, "absent") /\ Retry(s) /\ Disrupt("lostReply")
    /\ UNCHANGED <<api, cache, world, ld>>

PutToSleep ==
    /\ th.pc = "sleep"
    /\ LET s == sd[me]
           i == s.iid
           done == [s EXCEPT !.sleeping = "true"]
           goner == Reachable(th.pvn) /\ (inst[th.pvn][i] = "absent" \/ Obsolete(i))
           serving == Reachable(th.pvn) /\ inst[th.pvn][i] \in {"awake", "asleep"}
       IN \/ /\ ~NeedsSleep(s, th.pv) /\ Advance(s, Goto("unbind"))
             /\ UNCHANGED <<api, cache, world, inst, ld, budget>>
          \/ NeedsSleep(s, th.pv) /\ goner /\ DeleteObsolete(th.pvn, i, s, done)
          \/ /\ NeedsSleep(s, th.pv) /\ ~goner
             /\ HttpCall(serving, SetInst(th.pvn, i, "asleep"), s, done, Goto("unbind"))

Unbound(o) == [o EXCEPT !.bound = None, !.iid = None, !.fin = FALSE,
                        !.lab = "true", !.routed = FALSE]

Unbind ==
    /\ th.pc = "unbind"
    /\ LET t == IF Exists(th.rq) THEN ReqState(th, "rm", "ok", "done") ELSE Idle IN
       Update(th.pvn, PutLp(th.pvn, Unbound(th.pv)), sd[me], sd[me], t)

------------------------------------------------------------------------------
(* process with a bound launcher: instance, wake-up, labels, readiness.        *)

\* The instances the controller takes to be bound on launcher l.
BoundIDs(l) == {sd[r].iid : r \in {x \in Requesters : sd[x].prov = l}} \ {None}

\* syncLauncherInstances: stopped instances are deleted unless they are bound.
Synced(l) ==
    [i \in InstanceIDs |->
        IF inst[l][i] = "stopped" /\ i \notin BoundIDs(l) THEN "absent" ELSE inst[l][i]]

\* Mutant of ServeStep: not knowing is taken for awake.
ServeStepUnlessAsleep(s) == IF s.sleeping = "true" THEN "wake" ELSE "labels"

\* What process does once the instance is known to exist.
ServeStep(s) ==
    IF s.sleeping = "nil" THEN "query" ELSE IF s.sleeping = "true" THEN "wake" ELSE "labels"

SyncBoundLauncher ==
    /\ th.pc = "sync"
    /\ LET s == sd[me]
           known == [s EXCEPT !.known = TRUE]
           is == Synced(th.pvn)[s.iid]
       IN \/ /\ Reachable(th.pvn) /\ UNCHANGED budget
             /\ inst' = [inst EXCEPT ![th.pvn] = Synced(th.pvn)]
             /\ ld' = ld \cup {th.pvn}
             /\ IF is = "stopped" \/ (is = "absent" /\ s.known)
                THEN Advance([s EXCEPT !.sleeping = "true"], Goto("delReqStopped"))
                ELSE IF is = "absent" THEN Advance(s, Goto("create"))
                ELSE Advance(known, Goto(ServeStep(s)))
          \/ ~Reachable(th.pvn) /\ Retry(s) /\ UNCHANGED <<inst, ld, budget>>
          \/ Retry(s) /\ UNCHANGED <<inst, ld>> /\ Disrupt("callFails")
    /\ UNCHANGED <<api, cache, world>>

\* The bound instance died: relay that by deleting the requester.
DeleteRequesterOfStoppedInstance ==
    /\ th.pc = "delReqStopped"
    /\ DeleteRequester(me, TRUE, sd[me], [sd[me] EXCEPT !.delreq = TRUE], Idle)

CreateInstance ==
    /\ th.pc = "create"
    /\ HttpCall(Reachable(th.pvn) /\ inst[th.pvn][sd[me].iid] = "absent",
                SetInst(th.pvn, sd[me].iid, "starting"), sd[me],
                [sd[me] EXCEPT !.known = TRUE], Goto(ServeStep(sd[me])))

QuerySleeping ==
    /\ th.pc = "query"
    /\ LET is == inst[th.pvn][sd[me].iid]
           s == [sd[me] EXCEPT !.sleeping = IF is = "asleep" THEN "true" ELSE "false"]
       IN HttpCall(Reachable(th.pvn) /\ is \in {"awake", "asleep"}, inst, sd[me], s,
                   Goto(ServeStep(s)))

WakeUp ==
    /\ th.pc = "wake"
    /\ HttpCall(Reachable(th.pvn) /\ inst[th.pvn][sd[me].iid] \in {"awake", "asleep"},
                SetInst(th.pvn, sd[me].iid, "awake"), sd[me],
                [sd[me] EXCEPT !.sleeping = "false"], Goto("labels"))

\* applyBoundLauncherLabels: the sleeping label and, unless done, the ISC routing
\* labels.  Routing labels already on the Pod collide with the ones to apply.
ApplyLabels ==
    /\ th.pc = "labels"
    /\ LET s == sd[me]
           o == [th.pv EXCEPT !.lab = "false", !.routed = @ \/ ~s.labels]
           t == ReqState(th, AddIf(ShouldAddFinalizer(th)), "ok", "relay")
           local == UNCHANGED <<api, cache, world, inst, ld, budget>>
       IN \/ s.labels /\ th.pv.lab = "false" /\ Advance(s, t) /\ local
          \/ ~s.labels /\ th.pv.routed /\ Advance(s, Goto("delReqMeta")) /\ local
          \/ /\ IF s.labels THEN th.pv.lab # "false" ELSE ~th.pv.routed
             /\ Update(th.pvn, PutLp(th.pvn, o), s, [s EXCEPT !.labels = TRUE], [t EXCEPT !.pv = o])

\* "The committed metadata is invalid": delete the requester.
DeleteRequesterOfInvalidMetadata ==
    /\ th.pc = "delReqMeta"
    /\ DeleteRequester(th.rqn, FALSE, sd[me], [sd[me] EXCEPT !.delreq = TRUE], Idle)

RelayReadiness ==
    /\ th.pc = "relay"
    /\ LET s == sd[me]
           done == [s EXCEPT !.relayed = TRUE]
       IN \/ s.relayed /\ Advance(s, Idle) /\ UNCHANGED <<spi, budget>>
          \/ ~s.relayed /\ th.rq.ready /\ Advance(done, Idle) /\ UNCHANGED <<spi, budget>>
          \/ /\ ~s.relayed /\ ~th.rq.ready /\ Exists(req[th.rqn])
             /\ spi' = [spi EXCEPT ![th.rqn] = TRUE]
             /\ \/ Advance(done, Idle) /\ UNCHANGED budget
                \/ Retry(s) /\ Disrupt("lostReply")
          \/ ~s.relayed /\ ~th.rq.ready /\ ~Exists(req[th.rqn]) /\ Retry(s) /\ UNCHANGED <<spi, budget>>
          \/ ~s.relayed /\ ~th.rq.ready /\ Retry(s) /\ UNCHANGED spi /\ Disrupt("callFails")
    /\ UNCHANGED <<api, cache, iscs, node, inst, ld>>

------------------------------------------------------------------------------
(* ensureReqState: report on the requester, its dual label and its finalizer.  *)

\* Mutants of Reported: the dual label is left as it was; the finalizer is added but
\* not removed.
ReportedWithoutDual(rq, s, a) ==
    [rq EXCEPT !.rpt = a.rpt, !.acc = s.gpu, !.ilab = IF s.iid = None THEN @ ELSE s.iid,
               !.fin = (@ \/ a.fin = "add") /\ a.fin # "rm"]
ReportedWithoutRemoval(rq, s, a) ==
    [rq EXCEPT !.rpt = a.rpt, !.acc = s.gpu, !.dual = s.prov,
               !.ilab = IF s.prov = None THEN None ELSE IF s.iid = None THEN @ ELSE s.iid,
               !.fin = @ \/ a.fin = "add"]

\* The requester as reported on: a = [fin, rpt].
Reported(rq, s, a) ==
    [rq EXCEPT !.rpt = a.rpt, !.acc = s.gpu, !.dual = s.prov,
               !.ilab = IF s.prov = None THEN None ELSE IF s.iid = None THEN @ ELSE s.iid,
               !.fin = (@ \/ a.fin = "add") /\ a.fin # "rm"]

AfterReqState(t) == IF t.args.next = "relay" THEN [t EXCEPT !.pc = "relay"] ELSE Idle

EnsureReqState ==
    /\ th.pc = "reqState"
    /\ LET a == th.args
           o == Reported(th.rq, sd[me], a)
           same == UNCHANGED <<api, cache, world, inst, ld, budget>>
       IN \/ o = th.rq /\ a.next # "retry" /\ Advance(sd[me], AfterReqState(th)) /\ same
          \/ o = th.rq /\ a.next = "retry" /\ Retry(sd[me]) /\ same
          \/ /\ o # th.rq /\ a.next # "retry"
             /\ Update(th.rqn, PutReq(th.rqn, o), sd[me], sd[me], AfterReqState(th))
          \/ /\ o # th.rq /\ a.next = "retry" /\ Retry(sd[me])
             /\ \/ th.rqn \in th.dirty /\ UNCHANGED api
                \/ th.rqn \notin th.dirty /\ PutReq(th.rqn, o)
             /\ UNCHANGED <<cache, world, inst, ld, budget>>

------------------------------------------------------------------------------
(* process without a provider: find, reclaim or create a launcher and bind.    *)

\* The cached launchers worth a look: neither failed, going away nor bound.
Candidates == {l \in Launchers : clp[l].st = "live" /\ clp[l].bound = None}

\* The instances the launcher lists, minus the stopped ones.
Listed(l) == {i \in InstanceIDs : inst[l][i] \in {"starting", "awake", "asleep"}}

\* Selecting launcher l after syncing the launchers in seen and deleting victims.
Selected(l, seen, victims) ==
    /\ inst' = [x \in Launchers |->
                  [i \in InstanceIDs |->
                     IF x = l /\ i \in victims THEN "absent"
                     ELSE IF x \in seen THEN Synced(x)[i] ELSE inst[x][i]]]
    /\ ld' = ld \cup seen

\* Mutant of SelectedThread: the launcher is bound without its resourceVersion.
SelectedThreadUnversioned(l) ==
    [th EXCEPT !.pc = "bind", !.pvn = l, !.pv = clp[l], !.dirty = @ \ Launchers]

SelectedThread(l) ==
    [th EXCEPT !.pc = "bind", !.pvn = l, !.pv = clp[l],
               !.dirty = (@ \ Launchers) \cup (Pending \cap {l})]

\* selectOrReclaimLauncherPod: a launcher that has the wanted instance, else one
\* with room for it, else one where room is made by deleting instances, else wait
\* for launchers that are not ready or did not answer, else make a new launcher.
SelectOrReclaimLauncher ==
    /\ th.pc = "select"
    /\ \E deaf \in SUBSET {l \in Candidates : clp[l].phase = "ready"} :
       LET paid == IF deaf = {} THEN UNCHANGED budget ELSE Disrupt("callFails")
           usable == {l \in Candidates \ deaf : clp[l].phase = "ready" /\ Reachable(l)}
           has == {l \in usable : th.want \in Listed(l)}
           fits == {l \in usable : HasCapacity(Listed(l), th.want, InstPort, MaxInstances - 1)}
           plans(l) == ReclaimPlans(Listed(l), th.want, InstPort, MaxInstances - 1)
       IN \/ /\ has # {} /\ paid
             /\ \E l \in has, seen \in SUBSET (usable \ has) :
                  Selected(l, seen \cup {l}, {}) /\ Advance(sd[me], SelectedThread(l))
          \/ /\ has = {} /\ fits # {} /\ paid
             /\ \E l \in fits : Selected(l, usable, {}) /\ Advance(sd[me], SelectedThread(l))
          \/ /\ has = {} /\ fits = {}
             /\ \E l \in usable : \E V \in plans(l) :
                  /\ \A m \in usable : \A W \in plans(m) : Cardinality(W) <= Cardinality(V)
                  /\ \/ /\ Selected(l, usable, V) /\ paid
                        /\ Advance(sd[me], SelectedThread(l))
                     \/ /\ deaf = {} /\ Disrupt("callFails")
                        /\ \E W \in SUBSET V : Selected(l, usable, W) /\ Retry(sd[me])
          \/ /\ usable = {} /\ Candidates # {} /\ paid /\ Retry(sd[me])
             /\ UNCHANGED <<inst, ld>>
          \/ /\ Candidates = {} /\ Advance(sd[me], Goto("newLauncher"))
             /\ UNCHANGED <<inst, ld, budget>>
    /\ UNCHANGED <<api, cache, world>>

Bound(o, r, i) == [o EXCEPT !.bound = r, !.iid = i, !.fin = TRUE]
Committed(s, l, i) == [s EXCEPT !.prov = l, !.iid = i, !.sleeping = "nil"]

\* bind, launcher-based: the annotations and the finalizer in one Update; waking
\* is left to the processing that the notification of it triggers.
Bind ==
    /\ th.pc = "bind"
    /\ Update(th.pvn, PutLp(th.pvn, Bound(th.pv, th.rqn, th.want)),
              [sd[me] EXCEPT !.sleeping = "nil"], Committed(sd[me], th.pvn, th.want),
              ReqState(th, AddIf(~th.rq.fin), "ok", "done"))

\* A new launcher Pod, bound at creation.  Running out of names stands for the
\* API server refusing the Create.
CreateLauncher ==
    /\ th.pc = "newLauncher"
    /\ LET free == {l \in Launchers : lp[l].st = "none"}
           new == Bound([NoLp EXCEPT !.st = "live"], th.rqn, th.want)
           failed == Advance(sd[me], ReqState(th, "keep", "noLauncher", "retry"))
       IN \/ \E l \in free :
               /\ PutLp(l, new)
               /\ \/ /\ Advance(Committed(sd[me], l, th.want), ReqState(th, "keep", "ok", "done"))
                     /\ UNCHANGED budget
                  \/ failed /\ Disrupt("lostReply")
          \/ free = {} /\ failed /\ UNCHANGED <<api, budget>>
          \/ failed /\ UNCHANGED api /\ Disrupt("callFails")
    /\ UNCHANGED <<cache, world, inst, ld>>

\* The Node is unschedulable: delete the requester, by name only, without retry.
\* The state of the Node is a disruption: a failure here is free.
DeleteRequesterOnCordonedNode ==
    /\ th.pc = "delReqCordon"
    /\ Advance(sd[me], Idle)
    /\ \/ \E x \in Requesters :
            NameOf[x] = NameOf[th.rqn] /\ Exists(req[x]) /\ DeleteReq(x)
       \/ (~NameTaken(th.rqn) \/ "callFails" \in DisruptionKinds) /\ UNCHANGED api
    /\ UNCHANGED <<cache, world, inst, ld, budget>>

------------------------------------------------------------------------------
(* The other two kinds of item.                                                *)

UnboundRequesters == {r \in Requesters : Exists(creq[r]) /\ sd[r].prov = None}

\* unboundLauncherPodItem.process.
ProcessLauncherItem(l) ==
    /\ th.pc = "idle" /\ l \in queue
    /\ \/ /\ ~Exists(clp[l]) /\ ld' = ld \ {l}
          /\ queue' = (queue \ {l}) \cup UnboundRequesters
          /\ UNCHANGED <<inst, budget>>
       \/ /\ Exists(clp[l]) /\ clp[l].phase # "ready"
          /\ queue' = (queue \ {l}) \cup UnboundRequesters
          /\ UNCHANGED <<inst, ld, budget>>
       \/ /\ Exists(clp[l]) /\ clp[l].phase = "ready" /\ Reachable(l)
          /\ queue' = (queue \ {l}) \cup UnboundRequesters
          /\ inst' = [inst EXCEPT ![l] = Synced(l)] /\ ld' = ld \cup {l}
          /\ UNCHANGED budget
       \/ /\ Exists(clp[l]) /\ clp[l].phase = "ready"
          /\ \/ ~Reachable(l) /\ UNCHANGED budget
             \/ Disrupt("callFails")
          /\ queue' = queue \cup UnboundRequesters
          /\ UNCHANGED <<inst, ld>>
    /\ UNCHANGED <<api, cache, world, sd, th>>

\* instanceGCItem.process: in every known launcher, delete the sleeping instances
\* of the InferenceServerConfig whose contents are no longer current.
Collectable(c, l) ==
    {i \in InstanceIDs : i[1] = c /\ Obsolete(i) /\ inst[l][i] = "asleep"}
ProcessInstanceGCItem(c) ==
    /\ th.pc = "idle" /\ c \in queue
    /\ queue' = queue \ {c}
    /\ LET seen == {l \in ld : clp[l].st = "live" /\ clp[l].phase # "pending" /\ Reachable(l)}
           collected == [l \in Launchers |-> IF l \in seen THEN Collectable(c, l) ELSE {}]
       IN \/ /\ inst' = [l \in Launchers |->
                          [i \in InstanceIDs |->
                             IF i \in collected[l] THEN "absent" ELSE inst[l][i]]]
             /\ UNCHANGED budget
          \/ inst' = inst /\ Disrupt("callFails")
    /\ UNCHANGED <<api, cache, world, sd, ld, th>>

------------------------------------------------------------------------------
(* Everybody else: users, scheduler, kubelet, launcher-populator, vLLM, and    *)
(* the disruptions.                                                            *)

ctl == <<cache, sd, ld, queue>>

\* A requester is created and scheduled: its name is free and no other requester
\* on the Node holds its accelerator.
CreateRequester(r) ==
    /\ req[r].st = "none"
    /\ \A x \in Requesters : Exists(req[x]) => NameOf[x] # NameOf[r] /\ GpuOf[x] # GpuOf[r]
    /\ PutReq(r, [NoReq EXCEPT !.st = "live"]) /\ Touch(r)
    /\ UNCHANGED <<ctl, world, inst, budget>>

\* kubelet's status updates: the Pod IP, and Ready from the readiness probe.
RequesterStatus(r) ==
    /\ Exists(req[r])
    /\ \/ ~req[r].ip /\ PutReq(r, [req[r] EXCEPT !.ip = TRUE])
       \/ req[r].ready # spi[r] /\ PutReq(r, [req[r] EXCEPT !.ready = spi[r]])
    /\ Touch(r)
    /\ UNCHANGED <<ctl, world, inst, budget>>

UserDeletesRequester(r) ==
    /\ req[r].st = "live" /\ PutReq(r, Deleting(req[r])) /\ Touch(r)
    /\ UNCHANGED <<ctl, world, inst, budget>>

RequesterGone(r) ==
    /\ req[r].st = "deleting" /\ ~req[r].fin
    /\ PutReq(r, [req[r] EXCEPT !.st = "gone"]) /\ Touch(r)
    /\ UNCHANGED <<ctl, world, inst, budget>>

\* The launcher-populator makes an unbound launcher Pod.
PopulateLauncher(l) ==
    /\ lp[l].st = "none"
    /\ PutLp(l, [NoLp EXCEPT !.st = "live"]) /\ Touch(l)
    /\ UNCHANGED <<ctl, world, inst, budget>>

\* The launcher's container starts, becomes Ready, and is restarted after a crash.
LauncherStatus(l) ==
    /\ lp[l].st = "live"
    /\ \/ lp[l].phase = "pending" /\ PutLp(l, [lp[l] EXCEPT !.phase = "running"])
       \/ lp[l].phase = "down" /\ PutLp(l, [lp[l] EXCEPT !.phase = "restarted"])
       \/ lp[l].phase \in {"running", "restarted"} /\ PutLp(l, [lp[l] EXCEPT !.phase = "ready"])
    /\ Touch(l)
    /\ UNCHANGED <<ctl, world, inst, budget>>

NoInstances == [i \in InstanceIDs |-> "absent"]

\* The launcher's container ends, and its vLLM instances with it: in a crash, or
\* because the Pod is being deleted.
LauncherStops(l) ==
    /\ Exists(lp[l]) /\ lp[l].phase # "down"
    /\ \/ lp[l].st = "live" /\ lp[l].phase # "pending" /\ Disrupt("launcherDies")
       \/ lp[l].st = "deleting" /\ UNCHANGED budget
    /\ PutLp(l, [lp[l] EXCEPT !.phase = "down"]) /\ Touch(l)
    /\ inst' = [inst EXCEPT ![l] = NoInstances]
    /\ UNCHANGED <<ctl, world>>

\* The launcher-populator deletes an unbound launcher; an eviction takes any.
DeleteLauncher(l) ==
    /\ lp[l].st = "live" /\ Disrupt("evict")
    /\ PutLp(l, Deleting(lp[l])) /\ Touch(l)
    /\ UNCHANGED <<ctl, world, inst>>

LauncherGone(l) ==
    /\ lp[l].st = "deleting" /\ ~lp[l].fin /\ lp[l].phase = "down"
    /\ PutLp(l, [lp[l] EXCEPT !.st = "gone"]) /\ Touch(l)
    /\ UNCHANGED <<ctl, world, inst, budget>>

VllmServes(l, i) ==
    /\ inst[l][i] = "starting" /\ inst' = SetInst(l, i, "awake")
    /\ UNCHANGED <<api, ctl, world, th, budget>>

VllmDies(l, i) ==
    /\ inst[l][i] \in {"starting", "awake", "asleep"} /\ Disrupt("vllmDies")
    /\ inst' = SetInst(l, i, "stopped")
    /\ UNCHANGED <<api, ctl, world, th>>

EditIsc(c) ==
    /\ \/ iscs[c] < MaxVer /\ iscs' = [iscs EXCEPT ![c] = @ + 1] /\ UNCHANGED budget
       \/ iscs[c] > 0 /\ iscs' = [iscs EXCEPT ![c] = 0] /\ Disrupt("iscGone")
    /\ UNCHANGED <<api, ctl, node, spi, inst, th>>

NodeTrouble ==
    /\ node = "ok" /\ node' \in {"cordoned", "gone"} /\ Disrupt("cordon")
    /\ UNCHANGED <<api, ctl, iscs, spi, inst, th>>

\* The controller crashes and restarts: memory lost, caches filled by a fresh
\* list, every listed Pod notified as added.
RestartController ==
    /\ Disrupt("restart")
    /\ creq' = req /\ clp' = lp /\ ciscs' = iscs /\ stream' = <<>>
    /\ sd' = [r \in Requesters |-> NoServerData] /\ ld' = {} /\ th' = Idle
    /\ queue' = {r \in Requesters : Exists(req[r])}
                \cup {CareAbout(l, lp[l]) : l \in {x \in Launchers : Exists(lp[x])}}
    /\ UNCHANGED <<req, lp, world, inst>>

------------------------------------------------------------------------------
Init ==
    /\ req = [r \in Requesters |-> NoReq] /\ creq = req
    /\ lp = [l \in Launchers |-> NoLp] /\ clp = lp
    /\ stream = <<>>
    /\ iscs = [c \in Iscs |-> StartVer] /\ ciscs = iscs
    /\ node = "ok"
    /\ inst = [l \in Launchers |-> NoInstances]
    /\ spi = [r \in Requesters |-> FALSE]
    /\ sd = [r \in Requesters |-> NoServerData]
    /\ ld = {} /\ queue = {} /\ th = Idle
    /\ budget = MaxDisruptions

\* The calls of the worker while it processes an inference server.
WorkerStep ==
    \/ FetchGpus \/ RemoveRequesterFinalizer \/ AddRequesterFinalizer
    \/ DeleteRequesterOfGoneProvider \/ RemoveProviderFinalizer
    \/ DeleteTroubledProvider \/ RemoveRoutingLabels \/ PutToSleep \/ Unbind
    \/ SyncBoundLauncher \/ DeleteRequesterOfStoppedInstance \/ CreateInstance
    \/ QuerySleeping \/ WakeUp \/ ApplyLabels \/ DeleteRequesterOfInvalidMetadata
    \/ RelayReadiness \/ EnsureReqState \/ SelectOrReclaimLauncher \/ Bind
    \/ CreateLauncher \/ DeleteRequesterOnCordonedNode

Next ==
    \/ DeliverPod
    \/ \E c \in Iscs : DeliverIsc(c)
    \/ \E r \in Requesters : TakeInfSvrItem(r)
    \/ WorkerStep
    \/ \E l \in Launchers : ProcessLauncherItem(l)
    \/ \E c \in Iscs : ProcessInstanceGCItem(c)
    \/ \E r \in Requesters : CreateRequester(r)
    \/ \E r \in Requesters : RequesterStatus(r)
    \/ \E r \in Requesters : UserDeletesRequester(r)
    \/ \E r \in Requesters : RequesterGone(r)
    \/ \E l \in Launchers : PopulateLauncher(l)
    \/ \E l \in Launchers : LauncherStatus(l)
    \/ \E l \in Launchers : LauncherStops(l)
    \/ \E l \in Launchers : DeleteLauncher(l)
    \/ \E l \in Launchers : LauncherGone(l)
    \/ \E l \in Launchers, i \in InstanceIDs : VllmServes(l, i)
    \/ \E l \in Launchers, i \in InstanceIDs : VllmDies(l, i)
    \/ \E c \in Iscs : EditIsc(c)
    \/ NodeTrouble
    \/ RestartController

Spec == Init /\ [][Next]_vars

\* The informers deliver, the worker goes on and takes every queued item sooner or
\* later (nodeItem.process takes all the ready ones), kubelet and vLLM do their
\* part.  Users, the launcher-populator and the disruptions owe nothing.
Fairness ==
    /\ WF_vars(DeliverPod)
    /\ \A c \in Iscs : WF_vars(DeliverIsc(c)) /\ SF_vars(ProcessInstanceGCItem(c))
    /\ WF_vars(WorkerStep)
    /\ \A r \in Requesters :
         /\ SF_vars(TakeInfSvrItem(r))
         /\ WF_vars(RequesterStatus(r)) /\ WF_vars(RequesterGone(r))
    /\ \A l \in Launchers :
         /\ SF_vars(ProcessLauncherItem(l))
         /\ WF_vars(LauncherStatus(l)) /\ WF_vars(LauncherGone(l))
         /\ WF_vars(lp[l].st = "deleting" /\ LauncherStops(l))
         /\ \A i \in InstanceIDs : WF_vars(VllmServes(l, i))

FairSpec == Spec /\ Fairness

------------------------------------------------------------------------------
(* Properties.                                                                 *)

\* Every variable stays in its type.
TypeOK ==
    /\ req \in [Requesters -> ReqPod] /\ creq \in [Requesters -> ReqPod]
    /\ lp \in [Launchers -> LaunPod] /\ clp \in [Launchers -> LaunPod]
    /\ stream \in Seq(Events)
    /\ iscs \in [Iscs -> 0..MaxVer] /\ ciscs \in [Iscs -> 0..MaxVer]
    /\ node \in {"ok", "cordoned", "gone"}
    /\ inst \in [Launchers -> [InstanceIDs -> InstStates]]
    /\ spi \in [Requesters -> BOOLEAN]
    /\ sd \in [Requesters -> ServerData]
    /\ ld \in SUBSET Launchers
    /\ queue \in SUBSET (Pods \cup Iscs)
    /\ th \in Thread
    /\ budget \in 0..MaxDisruptions

Busy(l, i) == inst[l][i] \in {"starting", "awake"}

\* "This ensures the invariant: vllm awake implies provider Pod is bound": an
\* instance that starts or is awake is the one its launcher Pod is bound with.
AwakeImpliesBound ==
    \A l \in Launchers, i \in InstanceIDs :
        Busy(l, i) => lp[l].bound # None /\ lp[l].iid = i

\* "the controller intends there to be at most one": launchers bound to a requester.
AtMostOneProvider ==
    \A l, m \in Launchers :
        Exists(lp[l]) /\ Exists(lp[m]) /\ lp[l].bound # None /\ lp[l].bound = lp[m].bound
            => l = m

\* "there is no awake vLLM instance using any of those accelerators" besides the
\* one of the requester that holds them.
ExclusiveAccelerator ==
    \A l, m \in Launchers, i, j \in InstanceIDs :
        Busy(l, i) /\ Busy(m, j) /\ i[3] = j[3] => l = m /\ i = j

\* "so no traffic reaches a sleeping or gone instance".
RoutedInstanceServes ==
    \A l \in Launchers :
        lp[l].st = "live" /\ lp[l].routed => inst[l][lp[l].iid] = "awake"

\* A launcher leaves its requester only by being unbound, and keeps its instance
\* while bound.
BoundAtMostOnce ==
    [][\A l \in Launchers :
         lp[l].bound # None =>
            \/ lp'[l].bound = None /\ lp'[l].iid = None
            \/ lp'[l].bound = lp[l].bound /\ lp'[l].iid = lp[l].iid]_vars

\* The requester's finalizer goes only when its provider is asleep or gone.
FinalizerGuardsSleep ==
    [][\A r \in Requesters, l \in Launchers, i \in InstanceIDs :
         req[r].fin /\ ~req'[r].fin /\ lp[l].bound = r => ~Busy(l, i)]_vars

\* Readiness is relayed to a requester only when its provider is bound to it and
\* the instance has come to serve: not while it is starting, asleep or not created.
ReadyOnlyWhenAwake ==
    [][\A r \in Requesters :
         ~spi[r] /\ spi'[r] => \E l \in Launchers :
             /\ lp[l].bound = r
             /\ inst[l][lp[l].iid] \in {"awake", "stopped"} \/ lp[l].phase # "ready"]_vars

Quiet == stream = <<>> /\ queue = {} /\ th.pc = "idle" /\ ciscs = iscs

\* The controller gives up on a requester with two launchers, to which a cache that
\* does not show the first one or the lost reply of a Create or bind may lead.  A
\* deleted requester goes away, or two launchers are found bound to a requester.
DeletionCompletes ==
    \A r \in Requesters :
        req[r].st = "deleting" ~> req[r].st = "gone" \/ ~AtMostOneProvider

\* A requester becomes Ready, unless it is deleted, is given two launchers or cannot
\* be served: its Node is cordoned or gone, its InferenceServerConfig is absent, or
\* no launcher is left and none can be made.
Unservable(r) ==
    node # "ok" \/ iscs[IscOf[r]] = 0 \/ \A l \in Launchers : lp[l].st = "gone"
RequesterServed ==
    \A r \in Requesters :
        req[r].st = "live" ~> \/ req[r].ready \/ req[r].st # "live"
                             \/ Unservable(r) \/ ~AtMostOneProvider

\* If no requester ever has two launchers, then once a requester is gone none stays
\* bound to it.
NeverTwo == []AtMostOneProvider
LauncherReleased ==
    NeverTwo => \A r \in Requesters :
        req[r].st = "gone" ~> \A l \in Launchers : ~Exists(lp[l]) \/ lp[l].bound # r

\* "The committed metadata is invalid ... (it implies tampering or a validation
\* change since binding)": nobody tampers here, so the controller never finds it so.
MetadataStaysValid == th.pc # "delReqMeta"

\* A launcher never hosts more instances than its LauncherConfig allows, nor two
\* on one port: the room made before binding is still there at the creation.
RoomForInstance ==
    \A l \in Launchers :
        /\ Cardinality(Listed(l)) <= MaxInstances
        /\ \A i, j \in Listed(l) : InstPort[i] = InstPort[j] => i = j

\* Once the controller is at rest, a live requester and its launcher name each
\* other: dual label, instance label and requester annotation agree.
DualLabelsAgree ==
    Quiet => \A r \in Requesters, l \in Launchers :
        req[r].st = "live" /\ lp[l].st = "live" /\ lp[l].phase = "ready" /\ node = "ok" =>
            /\ req[r].dual = l <=> lp[l].bound = r
            /\ lp[l].bound = r => req[r].ilab = lp[l].iid
------------------------------------------------------------------------------
(* The inductive invariant behind BoundAtMostOnce.                             *)

\* The calls that use the snapshot of the requester, of the provider.
RequesterSteps == Steps \ {"idle", "rmProvFin", "delTrouble", "deroute", "sleep", "unbind"}
ProviderSteps == {"addReqFin", "delReqProvGone", "rmProvFin", "delTrouble", "deroute",
                  "sleep", "unbind", "sync", "create", "query", "wake", "labels", "bind"}

\* The worker has what its next call needs.
Equipped(t) ==
    /\ t.pc # "idle" => t.item \in Requesters
    /\ t.pc \in RequesterSteps => t.rqn \in Requesters
    /\ t.pc \in ProviderSteps => t.pvn \in Launchers /\ Exists(t.pv)
    /\ t.rqn = None => ~Exists(t.rq)
    /\ t.pvn = None => ~Exists(t.pv)

\* The latest event of a Pod carries its present state, and a Pod without an event
\* on its way is in the informer cache as it is in the API server.
CacheCoherent ==
    /\ \A k \in 1..Len(stream) :
         (\A n \in 1..Len(stream) : n > k => stream[n].pod # stream[k].pod) =>
            /\ stream[k].pod \in Requesters => stream[k].obj = req[stream[k].pod]
            /\ stream[k].pod \in Launchers => stream[k].obj = lp[stream[k].pod]
    /\ \A r \in Requesters \ Pending : creq[r] = req[r]
    /\ \A l \in Launchers \ Pending : clp[l] = lp[l]

\* A snapshot of the provider that an Update would be accepted for is the present
\* state of the launcher Pod.
ProviderFresh ==
    th.pc \in ProviderSteps \cup {"gpus"} /\ th.pvn \in Launchers \ th.dirty
        => th.pv = lp[th.pvn]

\* Optimistic concurrency works out: what the worker writes over is what it has
\* seen, and what it binds it has seen unbound.
BindingInv ==
    /\ TypeOK
    /\ Equipped(th)
    /\ CacheCoherent
    /\ ProviderFresh
    /\ th.pc = "bind" => th.pv.bound = None
    /\ \A l \in Launchers : lp[l].st = "none" => lp[l] = NoLp
===============================================================================
