---------------------------- MODULE DirectProviders ----------------------------
(* The dual-pods controller on one Node, direct providers: a server-requesting *)
(* Pod is served by a Pod of its own that runs vLLM.  The provider is created  *)
(* from the requester's server patch, put to sleep and unbound when the        *)
(* requester goes, found again by the hash of its nominal Pod, and deleted     *)
(* when an accelerator has more sleepers than the sleeper budget allows.       *)
(* The API server, the watch stream, the informer cache, optimistic            *)
(* concurrency and the worker are as in DualPods; here there are also the GPU  *)
(* map, a ConfigMap that a second worker of the controller reads, and Pods     *)
(* that are matched whether or not they are bound.  The Node stays schedulable,*)
(* every requester has an IP and one accelerator, and every server patch makes *)
(* a valid Pod.                                                                *)
EXTENDS Integers, Sequences, FiniteSets

CONSTANTS
    Requesters,       \* server-requesting Pods
    Providers,        \* server-providing Pods: one element per generated name
    Patches,          \* contents of the server patch annotation
    Gpus,             \* accelerators of the Node
    None,             \* no Pod, no accelerator
    SleeperLimit,     \* --sleeper-limit
    DebugAccelMemory, \* --debug-accelerator-memory
    MaxLag,           \* bound: undelivered events in the Pod watch stream
    MaxDisruptions,   \* bound: disruptions in a behaviour
    DisruptionKinds   \* which kinds of disruption may happen

VARIABLES
    req,      \* API server: the server-requesting Pods
    pv,       \* API server: the server-providing Pods
    stream,   \* Pod watch events on their way to the informer
    creq,     \* informer cache: server-requesting Pods
    cpv,      \* informer cache: server-providing Pods
    srv,      \* the vLLM server in each provider
    spi,      \* readiness state held by each requester container
    cm,       \* the GPU map: the ConfigMap and the controller's work on it
    gpuMap,   \* controller memory: the accelerators in its GPU map
    sd,       \* controller memory: serverData of each inference server
    queue,    \* controller: items of the node's LocalQueue
    th,       \* controller: the call in progress for this node
    budget    \* disruptions left

api == <<req, pv, stream>>
cache == <<creq, cpv>>
world == <<spi, cm, gpuMap>>
vars == <<req, pv, stream, creq, cpv, srv, spi, cm, gpuMap, sd, queue, th, budget>>

Pods == Requesters \cup Providers
\* The nominal hash: the patched Pod, its accelerators and its Node.
Hashes == Patches \X Gpus

PodStates == {"none", "live", "deleting", "gone"}
Reports == {"unset", "ok", "noGPUs", "noMap", "noPod"}
Disruptions == {"callFails", "lostReply", "restart", "crash", "evict", "mapGone"}

\* The memory limit is 4 GiB per sleeper of the budget: enough for the sleepers if any.
ASSUME DirectConstants ==
    /\ Requesters \cap Providers = {} /\ None \notin Pods \cup Gpus \cup Patches
    /\ SleeperLimit \in Nat /\ DebugAccelMemory \in BOOLEAN
    /\ DebugAccelMemory => SleeperLimit > 0
    /\ MaxLag \in Nat \ {0} /\ MaxDisruptions \in Nat
    /\ DisruptionKinds \subseteq Disruptions

\* A server-requesting Pod: its server patch, its accelerator, whether its container is Ready and it
\* carries the controller's finalizer, and what the controller reported on it.
ReqPod == [st : PodStates, patch : Patches \cup {None}, gpu : Gpus \cup {None},
           ready : BOOLEAN, fin : BOOLEAN, rpt : Reports, acc : Gpus \cup {None}, dual : Providers \cup {None}]
NoReq == [st |-> "none", patch |-> None, gpu |-> None, ready |-> FALSE, fin |-> FALSE,
          rpt |-> "unset", acc |-> None, dual |-> None]

\* A server-providing Pod: kubelet's report on its container (pending: the Pod is
\* not scheduled; again: the container has restarted), the requester annotation,
\* the finalizer, the sleeping label and the nominal hash.
ProvPod == [st : PodStates, up : {"pending", "running", "down"}, ready : BOOLEAN,
            again : BOOLEAN, bound : Requesters \cup {None}, fin : BOOLEAN,
            lab : {"true", "false"}, hash : Hashes \cup {<<>>}]
NoPv == [st |-> "none", up |-> "pending", ready |-> FALSE, again |-> FALSE,
         bound |-> None, fin |-> FALSE, lab |-> "false", hash |-> <<>>]

\* What the controller remembers of an inference server; known: it has an entry.
ServerData == [known : BOOLEAN, gpu : Gpus \cup {None}, index : BOOLEAN,
               prov : Providers \cup {None}, sleeping : {"nil", "true", "false"},
               relayed : {"nil", "true", "false"}, delreq : BOOLEAN]
NoServerData == [known |-> FALSE, gpu |-> None, index |-> FALSE, prov |-> None,
                 sleeping |-> "nil", relayed |-> "nil", delreq |-> FALSE]

ReqArgs == [fin : {"keep", "add", "rm"}, rpt : Reports,
            next : {"done", "retry", "relay"}]
NoArgs == [fin |-> "keep", rpt |-> "ok", next |-> "done"]

Steps == {"idle", "rmReqFin", "addReqFin", "delReqProvGone", "rmProvFin",
          "delTrouble", "sleep", "unbind", "gpus", "query", "wake", "label",
          "reqState", "relay", "bind", "budget", "evict", "create"}

\* The node's worker: the next call, the item, its snapshots of the requester and
\* of the provider, the Pods whose snapshot is not the latest version, whether the
\* provider was bound just now, and the Pods the sleeper budget has no room for.
Thread == [pc : Steps, item : Requesters \cup {None}, rqn : Requesters \cup {None},
           rq : ReqPod, pvn : Providers \cup {None}, pv : ProvPod,
           dirty : SUBSET Pods, fresh : BOOLEAN, goners : SUBSET Providers,
           args : ReqArgs]
Idle == [pc |-> "idle", item |-> None, rqn |-> None, rq |-> NoReq, pvn |-> None,
         pv |-> NoPv, dirty |-> {}, fresh |-> FALSE, goners |-> {}, args |-> NoArgs]

Events == [pod : Requesters, obj : ReqPod] \cup [pod : Providers, obj : ProvPod]

Exists(o) == o.st \in {"live", "deleting"}

------------------------------------------------------------------------------
(* The API server and the informer.                                            *)

Room == Len(stream) < MaxLag

PutReq(r, o) ==
    /\ Room
    /\ req' = [req EXCEPT ![r] = o]
    /\ stream' = Append(stream, [pod |-> r, obj |-> o])
    /\ pv' = pv
PutPv(d, o) ==
    /\ Room
    /\ pv' = [pv EXCEPT ![d] = o]
    /\ stream' = Append(stream, [pod |-> d, obj |-> o])
    /\ req' = req

\* A write by somebody else makes the worker's snapshot of that Pod stale.
Touch(p) ==
    th' = [th EXCEPT !.dirty = IF p \in {th.rqn, th.pvn} \cup th.goners
                               THEN @ \cup {p} ELSE @]

Pending == {stream[k].pod : k \in 1..Len(stream)}
Deleting(o) == [o EXCEPT !.st = IF @ = "live" THEN "deleting" ELSE @]

Disrupt(kind) ==
    /\ kind \in DisruptionKinds /\ budget > 0
    /\ budget' = budget - 1

\* Mutant of CareAbout: a bound provider is enqueued under its own name.
CareAboutPod(p, o) == IF p \in Requesters \/ o.bound # None THEN {p} ELSE {}

\* Mutant of CareAbout: providers are never cared about.
CareAboutRequesters(p, o) == IF p \in Requesters THEN {p} ELSE {}

\* careAbout: "The controller doesn't care about unbound direct providers".
CareAbout(p, o) ==
    IF p \in Requesters THEN {p} ELSE IF o.bound # None THEN {o.bound} ELSE {}

DeliverPod ==
    /\ stream # <<>>
    /\ LET e == Head(stream) IN
       /\ creq' = IF e.pod \in Requesters THEN [creq EXCEPT ![e.pod] = e.obj] ELSE creq
       /\ cpv' = IF e.pod \in Providers THEN [cpv EXCEPT ![e.pod] = e.obj] ELSE cpv
       /\ queue' = queue \cup CareAbout(e.pod, e.obj)
    /\ stream' = Tail(stream)
    /\ UNCHANGED <<req, pv, srv, world, sd, th, budget>>

------------------------------------------------------------------------------
(* Calls of the worker.  s0 is the serverData when the call is made, s1 after  *)
(* it succeeded and t the worker's next state.                                 *)

me == th.item
Goto(step) == [th EXCEPT !.pc = step]

Advance(s1, t) ==
    /\ sd' = [sd EXCEPT ![me] = s1]
    /\ th' = t
    /\ queue' = queue

\* Mutant of Retry: the item is dropped.
GiveUp(s0) == sd' = [sd EXCEPT ![me] = s0] /\ th' = Idle /\ queue' = queue

\* processResult{err, retry: true}: the item goes back to the LocalQueue.
Retry(s0) ==
    /\ sd' = [sd EXCEPT ![me] = s0]
    /\ th' = Idle
    /\ queue' = queue \cup {me}

\* An Update of Pod p, of which write is the effect in the API server; allowed is
\* false when the API server refuses the new contents.
Update(p, allowed, write, s0, s1, t) ==
    LET ok == p \notin th.dirty /\ allowed IN
    /\ \/ ~ok /\ UNCHANGED <<api, budget>> /\ Retry(s0)
       \/ ok /\ write /\ Advance(s1, t) /\ UNCHANGED budget
       \/ ok /\ write /\ Retry(s0) /\ Disrupt("lostReply")
       \/ UNCHANGED api /\ Retry(s0) /\ Disrupt("callFails")
    /\ UNCHANGED <<cache, world, srv>>

\* An HTTP call to the vLLM server, after which the servers are in state after.
HttpCall(ok, after, s0, s1, t) ==
    /\ \/ ok /\ srv' = after /\ Advance(s1, t) /\ UNCHANGED budget
       \/ ok /\ srv' = after /\ Retry(s0) /\ Disrupt("lostReply")
       \/ ~ok /\ srv' = srv /\ Retry(s0) /\ UNCHANGED budget
       \/ ok /\ srv' = srv /\ Retry(s0) /\ Disrupt("callFails")
    /\ UNCHANGED <<api, cache, world>>

\* A step of the worker that makes no call.
Local == UNCHANGED <<api, cache, world, srv, budget>>

Serving(d) == srv[d] \in {"awake", "asleep"}

------------------------------------------------------------------------------
(* infSvrItem.process: from the queue to the first call.                       *)

ProvidersOf(r) == {d \in Providers : Exists(cpv[d]) /\ cpv[d].bound = r}

\* maybeRemoveRequesterFinalizer: is the provider's container running?
WantFinalizer(o) == Exists(o) /\ o.up = "running"
ShouldAddFinalizer(t) == WantFinalizer(t.pv) /\ ~t.rq.fin /\ t.rq.st = "live"

\* PodIsInTrouble: its container has restarted and the Pod is not Ready.
InTrouble(o) == o.again /\ ~o.ready

ReqState(t, fin, rpt, next) ==
    [t EXCEPT !.pc = "reqState", !.args = [fin |-> fin, rpt |-> rpt, next |-> next]]
AddIf(b) == IF b THEN "add" ELSE "keep"

\* The first call, from the snapshots in t.
FirstCall(t, s) ==
    IF Exists(t.rq) /\ t.rq.fin /\ ~WantFinalizer(t.pv) THEN [t EXCEPT !.pc = "rmReqFin"]
    ELSE IF t.pv.st = "deleting" THEN
        [t EXCEPT !.pc = IF t.rq.st # "live" THEN "rmProvFin"
                         ELSE IF ShouldAddFinalizer(t) THEN "addReqFin"
                         ELSE "delReqProvGone"]
    ELSE IF t.rq.st # "live" /\ Exists(t.pv) THEN
        [t EXCEPT !.pc = IF InTrouble(t.pv) THEN "delTrouble" ELSE "sleep"]
    ELSE IF t.rq.st # "live" \/ s.delreq THEN Idle
    ELSE [t EXCEPT !.pc = "gpus"]

\* The worker takes an inference server item: snapshots of the requester and of
\* the provider; nothing to do when there are several providers; the memory is
\* cleared when both Pods are gone.
TakeItem(r) ==
    /\ th.pc = "idle" /\ r \in queue
    /\ queue' = queue \ {r}
    /\ LET pvs == ProvidersOf(r)
           known == [sd[r] EXCEPT !.known = TRUE]
       IN \/ /\ ~Exists(creq[r]) /\ pvs = {}
             /\ sd' = [sd EXCEPT ![r] = NoServerData] /\ th' = th
          \/ /\ Exists(creq[r]) \/ pvs # {}
             /\ \E d \in IF Cardinality(pvs) = 1 THEN pvs ELSE {None} :
                LET x == IF Exists(creq[r]) THEN r ELSE None
                    t == [Idle EXCEPT !.item = r, !.rqn = x, !.pvn = d,
                            !.rq = IF x = None THEN NoReq ELSE creq[r],
                            !.pv = IF d = None THEN NoPv ELSE cpv[d],
                            !.dirty = Pending \cap {x, d}]
                    s == [known EXCEPT !.prov = IF d = None THEN @ ELSE d]
                IN /\ th' = IF Cardinality(pvs) > 1 THEN Idle ELSE FirstCall(t, s)
                   /\ sd' = [sd EXCEPT ![r] = s]
    /\ Local

------------------------------------------------------------------------------
(* process: finalizers and deletions that are relayed between the two Pods.    *)

RemoveRequesterFinalizer ==
    /\ th.pc = "rmReqFin"
    /\ Update(th.rqn, TRUE, PutReq(th.rqn, [th.rq EXCEPT !.fin = FALSE]), sd[me], sd[me], Idle)

AddRequesterFinalizer ==
    /\ th.pc = "addReqFin"
    /\ LET o == [th.rq EXCEPT !.fin = TRUE, !.dual = th.pvn] IN
       Update(th.rqn, TRUE, PutReq(th.rqn, o), sd[me], sd[me],
              [th EXCEPT !.pc = "delReqProvGone", !.rq = o])

\* The provider is going away: so must the requester.  NotFound counts as success.
DeleteRequester ==
    /\ th.pc = "delReqProvGone"
    /\ LET done == [sd[me] EXCEPT !.delreq = TRUE] IN
       IF Exists(req[me])
       THEN Update(me, TRUE, PutReq(me, Deleting(th.rq)), sd[me], done, Goto("rmProvFin"))
       ELSE Advance(done, Goto("rmProvFin")) /\ Local

RemoveProviderFinalizer ==
    /\ th.pc = "rmProvFin"
    /\ IF th.pv.fin
       THEN Update(th.pvn, TRUE, PutPv(th.pvn, [th.pv EXCEPT !.fin = FALSE]), sd[me], sd[me], Idle)
       ELSE Advance(sd[me], Idle) /\ Local

\* "As a special favor, delete providingPod if it is in trouble"; on any failure
\* the unbinding goes on.  The trouble is a disruption: a failure here is free.
DeleteTroubledProvider ==
    /\ th.pc = "delTrouble"
    /\ \/ /\ th.pvn \notin th.dirty
          /\ PutPv(th.pvn, Deleting(th.pv)) /\ Advance(sd[me], Idle)
       \/ /\ th.pvn \in th.dirty
          /\ UNCHANGED api /\ Advance(sd[me], Goto("sleep"))
       \/ /\ "callFails" \in DisruptionKinds
          /\ UNCHANGED api /\ Advance(sd[me], Goto("sleep"))
       \/ /\ "lostReply" \in DisruptionKinds
          /\ th.pvn \notin th.dirty /\ PutPv(th.pvn, Deleting(th.pv))
          /\ Advance(sd[me], [Goto("sleep") EXCEPT !.dirty = @ \cup {th.pvn}])
    /\ UNCHANGED <<cache, world, srv, budget>>

------------------------------------------------------------------------------
(* ensureUnbound: put to sleep, unbind.                                        *)

\* Mutant of NeedsSleep: only a Ready provider is thought to be awake.
SleepIfReady(s, o) == s.sleeping # "true" /\ o.ready

\* "A providingPod with no IP is not scheduled, so we know that it is not awake."
NeedsSleep(s, o) == s.sleeping # "true" /\ o.up # "pending"

PutToSleep ==
    /\ th.pc = "sleep"
    /\ \/ ~NeedsSleep(sd[me], th.pv) /\ Advance(sd[me], Goto("unbind")) /\ Local
       \/ /\ NeedsSleep(sd[me], th.pv)
          /\ HttpCall(Serving(th.pvn), [srv EXCEPT ![th.pvn] = "asleep"], sd[me],
                      [sd[me] EXCEPT !.sleeping = "true"], Goto("unbind"))

Unbind ==
    /\ th.pc = "unbind"
    /\ LET t == IF Exists(th.rq) THEN ReqState(th, "rm", "ok", "done") ELSE Idle
           o == [th.pv EXCEPT !.bound = None, !.fin = FALSE, !.lab = "true"]
       IN Update(th.pvn, TRUE, PutPv(th.pvn, o), sd[me], sd[me], t)

------------------------------------------------------------------------------
(* process: the accelerators, then a provider to keep, to take or to make.     *)

\* What process does with a bound provider.
ServeStep(s) ==
    IF s.sleeping = "nil" THEN "query" ELSE IF s.sleeping = "true" THEN "wake" ELSE "label"

\* nominalHashIndexFunc: the cached Pods with this hash, whatever their state.
Matching(h) == {d \in Providers : Exists(cpv[d]) /\ cpv[d].hash = h}

\* The worker with snapshot d of the provider it is about to bind.
Chosen(d) ==
    [th EXCEPT !.pc = "bind", !.pvn = d, !.pv = cpv[d], !.dirty = @ \cup (Pending \cap {d})]

\* mapToGPUIndices: is the accelerator in the GPU map, or was it once?
GpuIndexKnown(s) == s.index \/ s.gpu \in gpuMap

\* After the accelerators are known: their indices in the GPU map, then on with the
\* bound provider, or the first Pod with the right hash, or a new Pod.
Proceed(s) ==
    LET index == GpuIndexKnown(s)
        s1 == [s EXCEPT !.index = index]
        found == Matching(<<th.rq.patch, s.gpu>>)
    IN \/ ~index /\ Advance(s, ReqState(th, "keep", "noMap", "done"))
       \/ index /\ Exists(th.pv) /\ Advance(s1, Goto(ServeStep(s1)))
       \/ index /\ ~Exists(th.pv) /\ found = {} /\ Advance(s1, Goto("budget"))
       \/ index /\ ~Exists(th.pv) /\ \E d \in found : Advance(s1, Chosen(d))

\* The GPU query, skipped when the answer is remembered.
FetchGpus ==
    /\ th.pc = "gpus"
    /\ LET s == sd[me]
           failed == Advance(s, ReqState(th, "keep", "noGPUs", "retry"))
       IN \/ s.gpu # None /\ Proceed(s) /\ UNCHANGED budget
          \/ /\ s.gpu = None /\ Exists(req[th.rqn])
             /\ Proceed([s EXCEPT !.gpu = req[th.rqn].gpu]) /\ UNCHANGED budget
          \/ s.gpu = None /\ ~Exists(req[th.rqn]) /\ failed /\ UNCHANGED budget
          \/ s.gpu = None /\ failed /\ Disrupt("callFails")
    /\ UNCHANGED <<api, cache, world, srv>>

------------------------------------------------------------------------------
(* process with a bound provider: wake-up, sleeping label, readiness.          *)

QuerySleeping ==
    /\ th.pc = "query"
    /\ LET s == [sd[me] EXCEPT !.sleeping = IF srv[th.pvn] = "asleep" THEN "true" ELSE "false"]
       IN HttpCall(Serving(th.pvn), srv, sd[me], s, Goto(ServeStep(s)))

\* accelMemoryIsLowEnough: no server on the accelerator is awake; one that is
\* starting may have little memory yet or much.
MemoryIsLow(g) ==
    \A d \in Providers : Exists(pv[d]) /\ pv[d].hash[2] = g => srv[d] # "awake"
MemoryIsHigh(g) ==
    \E d \in Providers : Exists(pv[d]) /\ pv[d].hash[2] = g /\ srv[d] \in {"starting", "awake"}

\* wakeUp, of a provider bound before or just now.
WakeUp ==
    /\ th.pc = "wake"
    /\ \E ok \in BOOLEAN :
       /\ ok => /\ Serving(th.pvn)
                /\ DebugAccelMemory => Exists(req[th.rqn]) /\ MemoryIsLow(sd[me].gpu)
       /\ ~ok => \/ ~Serving(th.pvn)
                 \/ DebugAccelMemory /\ (~Exists(req[th.rqn]) \/ MemoryIsHigh(sd[me].gpu))
       /\ HttpCall(ok, [srv EXCEPT ![th.pvn] = "awake"], sd[me],
                   [sd[me] EXCEPT !.sleeping = "false"], Goto("label"))

\* ensureSleepingLabel, then what is next: bind ends with ensureReqState, the
\* processing of a bound provider also relays readiness.
EnsureSleepingLabel ==
    /\ th.pc = "label"
    /\ LET o == [th.pv EXCEPT !.lab = "false"]
           t == IF th.fresh THEN ReqState(th, AddIf(~th.rq.fin), "ok", "done")
                ELSE ReqState(th, AddIf(ShouldAddFinalizer(th)), "ok", "relay")
       IN IF th.pv.lab = "false" THEN Advance(sd[me], t) /\ Local
          ELSE Update(th.pvn, TRUE, PutPv(th.pvn, o), sd[me], sd[me], [t EXCEPT !.pv = o])

Flag(b) == IF b THEN "true" ELSE "false"

\* The provider's Pod readiness is relayed when it differs from what was relayed,
\* unless the requester shows it already.
RelayReadiness ==
    /\ th.pc = "relay"
    /\ LET s == sd[me]
           done == [s EXCEPT !.relayed = Flag(th.pv.ready)]
           told == s.relayed = Flag(th.pv.ready) \/ th.rq.ready = th.pv.ready
       IN \/ told /\ Advance(done, Idle) /\ UNCHANGED <<spi, budget>>
          \/ /\ ~told /\ Exists(req[th.rqn])
             /\ spi' = [spi EXCEPT ![th.rqn] = th.pv.ready]
             /\ \/ Advance(done, Idle) /\ UNCHANGED budget
                \/ Retry(s) /\ Disrupt("lostReply")
          \/ ~told /\ ~Exists(req[th.rqn]) /\ Retry(s) /\ UNCHANGED <<spi, budget>>
          \/ ~told /\ Retry(s) /\ UNCHANGED spi /\ Disrupt("callFails")
    /\ UNCHANGED <<api, cache, srv, cm, gpuMap>>

\* ensureReqState: report on the requester, its dual label and its finalizer.
Reported(rq, s, a) ==
    [rq EXCEPT !.rpt = a.rpt, !.acc = s.gpu, !.dual = s.prov,
               !.fin = (@ \/ a.fin = "add") /\ a.fin # "rm"]

AfterReqState(t) == IF t.args.next = "relay" THEN [t EXCEPT !.pc = "relay"] ELSE Idle

EnsureReqState ==
    /\ th.pc = "reqState"
    /\ LET a == th.args
           o == Reported(th.rq, sd[me], a)
       IN \/ o = th.rq /\ a.next # "retry" /\ Advance(sd[me], AfterReqState(th)) /\ Local
          \/ o = th.rq /\ a.next = "retry" /\ Retry(sd[me]) /\ Local
          \/ /\ o # th.rq /\ a.next # "retry"
             /\ Update(th.rqn, TRUE, PutReq(th.rqn, o), sd[me], sd[me], AfterReqState(th))
          \/ /\ o # th.rq /\ a.next = "retry" /\ Retry(sd[me])
             /\ \/ th.rqn \in th.dirty /\ UNCHANGED api
                \/ th.rqn \notin th.dirty /\ PutReq(th.rqn, o)
             /\ UNCHANGED <<cache, world, srv, budget>>

------------------------------------------------------------------------------
(* process without a provider: bind a match, or make room and a new Pod.       *)

\* bind: one Update, which the API server refuses when it adds a finalizer to a Pod
\* that is being deleted.  The label is then reconciled on the copy from before
\* that Update, whose resourceVersion is no longer the latest.
Bind ==
    /\ th.pc = "bind"
    /\ LET o == [th.pv EXCEPT !.bound = th.rqn, !.fin = TRUE]
           s == [sd[me] EXCEPT !.sleeping = "nil"]
       IN Update(th.pvn, th.pv.st = "live" \/ th.pv.fin, PutPv(th.pvn, o),
                 s, [s EXCEPT !.prov = th.pvn],
                 [th EXCEPT !.pc = "wake", !.pv = o, !.fresh = TRUE, !.dirty = @ \cup {th.pvn}])

\* Mutant of OnGpu: the Pods of the whole Node.
OnNode(g) == {d \in Providers : Exists(cpv[d]) /\ cpv[d].up # "pending"}

\* GPUIndexFunc: the cached Pods on this accelerator that are scheduled.
OnGpu(g) ==
    {d \in Providers : Exists(cpv[d]) /\ cpv[d].up # "pending" /\ cpv[d].hash[2] = g}

\* enforceSleeperBudget: the Pods on the accelerator beyond the limit have to go, the
\* ones the controller touched longest ago first (here: any).
EnforceSleeperBudget ==
    /\ th.pc = "budget"
    /\ LET here == OnGpu(sd[me].gpu)
           toGo == Cardinality(here) - SleeperLimit
       IN \/ toGo <= 0 /\ Advance(sd[me], Goto("create"))
          \/ /\ toGo > 0
             /\ \E G \in SUBSET here :
                  /\ Cardinality(G) = toGo
                  /\ Advance(sd[me], [th EXCEPT !.pc = "evict", !.goners = G,
                                                !.dirty = @ \cup (Pending \cap G)])
    /\ Local

\* The Deletes, with resourceVersion precondition; any deletion means a retry.
EvictSleeper(d) ==
    /\ th.pc = "evict" /\ d \in th.goners
    /\ LET t == [th EXCEPT !.goners = @ \ {d}]
           on == IF t.goners = {} THEN Retry(sd[me]) ELSE Advance(sd[me], t)
       IN \/ ~Exists(pv[d]) /\ on /\ UNCHANGED <<api, budget>>
          \/ Exists(pv[d]) /\ d \in th.dirty /\ Retry(sd[me]) /\ UNCHANGED <<api, budget>>
          \/ pv[d].st = "deleting" /\ d \notin th.dirty /\ on /\ UNCHANGED <<api, budget>>
          \/ /\ pv[d].st = "live" /\ d \notin th.dirty /\ PutPv(d, Deleting(pv[d]))
             /\ \/ on /\ UNCHANGED budget
                \/ Retry(sd[me]) /\ Disrupt("lostReply")
          \/ Retry(sd[me]) /\ UNCHANGED api /\ Disrupt("callFails")
    /\ UNCHANGED <<cache, world, srv>>

\* getNominalServerProvidingPod, of a patch that applies and makes a valid Pod.
NominalProvidingPod(r, patch, gpu) ==
    [NoPv EXCEPT !.st = "live", !.bound = r, !.fin = TRUE, !.hash = <<patch, gpu>>]

\* The new provider, bound at creation.  Running out of names stands for the API
\* server refusing the Create.  The provider's name is not remembered.
CreateProvider ==
    /\ th.pc = "create"
    /\ LET free == {d \in Providers : pv[d].st = "none"}
           new == NominalProvidingPod(th.rqn, th.rq.patch, sd[me].gpu)
           made == [sd[me] EXCEPT !.sleeping = "false"]
           failed == Advance(sd[me], ReqState(th, "keep", "noPod", "retry"))
       IN \/ \E d \in free :
               /\ PutPv(d, new)
               /\ \/ Advance(made, ReqState(th, "keep", "ok", "done")) /\ UNCHANGED budget
                  \/ failed /\ Disrupt("lostReply")
          \/ free = {} /\ failed /\ UNCHANGED <<api, budget>>
          \/ failed /\ UNCHANGED api /\ Disrupt("callFails")
    /\ UNCHANGED <<cache, world, srv>>

------------------------------------------------------------------------------
(* The GPU map: a worker of its own processes the ConfigMap's item.            *)

ctl == <<cache, sd, queue>>

\* Somebody writes or removes the Node's entry of the ConfigMap, and the informer
\* enqueues the ConfigMap's item.
EditGpuMap ==
    /\ \/ cm.obj = {} /\ cm' = [cm EXCEPT !.obj = Gpus, !.queued = TRUE] /\ UNCHANGED budget
       \/ cm.obj # {} /\ cm' = [cm EXCEPT !.obj = {}, !.queued = TRUE] /\ Disrupt("mapGone")
    /\ UNCHANGED <<api, ctl, srv, spi, gpuMap, th>>

\* Mutant of ProcessGpuMap: nobody is told of the new map.
StoreGpuMap ==
    /\ cm.queued /\ gpuMap' = cm.obj /\ cm' = [cm EXCEPT !.queued = FALSE]
    /\ UNCHANGED <<api, ctl, srv, spi, th, budget>>

\* cmItem.process: read the ConfigMap and store the map; if it has something new,
\* every known inference server is enqueued after that (enqueueRequesters).
ProcessGpuMap ==
    /\ cm.queued /\ ~cm.enqueue
    /\ gpuMap' = cm.obj
    /\ cm' = [cm EXCEPT !.queued = FALSE, !.enqueue = ~(cm.obj \subseteq gpuMap)]
    /\ UNCHANGED <<api, ctl, srv, spi, th, budget>>

EnqueueRequesters ==
    /\ cm.enqueue
    /\ cm' = [cm EXCEPT !.enqueue = FALSE]
    /\ queue' = queue \cup {r \in Requesters : sd[r].known}
    /\ UNCHANGED <<api, cache, sd, srv, spi, gpuMap, th, budget>>

------------------------------------------------------------------------------
(* Everybody else: users, scheduler, kubelet, vLLM, and the disruptions.       *)

\* A requester is created and scheduled, with an accelerator that no requester holds.
CreateRequester(r) ==
    /\ req[r].st = "none"
    /\ \E c \in Patches, g \in Gpus :
         /\ \A x \in Requesters : Exists(req[x]) => req[x].gpu # g
         /\ PutReq(r, [NoReq EXCEPT !.st = "live", !.patch = c, !.gpu = g])
    /\ Touch(r)
    /\ UNCHANGED <<ctl, world, srv, budget>>

\* kubelet reports the outcome of the requester's readiness probe.
RequesterStatus(r) ==
    /\ Exists(req[r]) /\ req[r].ready # spi[r]
    /\ PutReq(r, [req[r] EXCEPT !.ready = spi[r]]) /\ Touch(r)
    /\ UNCHANGED <<ctl, world, srv, budget>>

UserDeletesRequester(r) ==
    /\ req[r].st = "live" /\ PutReq(r, Deleting(req[r])) /\ Touch(r)
    /\ UNCHANGED <<ctl, world, srv, budget>>

RequesterGone(r) ==
    /\ req[r].st = "deleting" /\ ~req[r].fin
    /\ PutReq(r, [req[r] EXCEPT !.st = "gone"]) /\ Touch(r)
    /\ UNCHANGED <<ctl, world, srv, budget>>

\* A provider is scheduled and its container started, also after a crash; vLLM then
\* starts, awake.
ProviderStarts(d) ==
    /\ pv[d].st = "live" /\ pv[d].up # "running"
    /\ PutPv(d, [pv[d] EXCEPT !.up = "running", !.again = pv[d].up = "down"]) /\ Touch(d)
    /\ srv' = [srv EXCEPT ![d] = "starting"]
    /\ UNCHANGED <<ctl, world, budget>>

VllmServes(d) ==
    /\ srv[d] = "starting" /\ srv' = [srv EXCEPT ![d] = "awake"]
    /\ UNCHANGED <<api, ctl, world, th, budget>>

\* kubelet reports the outcome of the provider's readiness probe.
ProviderReady(d) ==
    /\ pv[d].st = "live" /\ pv[d].up = "running" /\ ~pv[d].ready /\ Serving(d)
    /\ PutPv(d, [pv[d] EXCEPT !.ready = TRUE]) /\ Touch(d)
    /\ UNCHANGED <<ctl, world, srv, budget>>

\* The container ends: in a crash, or because the Pod is being deleted.
ProviderStops(d) ==
    /\ Exists(pv[d]) /\ pv[d].up # "down"
    /\ \/ pv[d].st = "live" /\ pv[d].up = "running" /\ Disrupt("crash")
       \/ pv[d].st = "deleting" /\ UNCHANGED budget
    /\ PutPv(d, [pv[d] EXCEPT !.up = "down", !.ready = FALSE]) /\ Touch(d)
    /\ srv' = [srv EXCEPT ![d] = "none"]
    /\ UNCHANGED <<ctl, world>>

EvictProvider(d) ==
    /\ pv[d].st = "live" /\ Disrupt("evict")
    /\ PutPv(d, Deleting(pv[d])) /\ Touch(d)
    /\ UNCHANGED <<ctl, world, srv>>

ProviderGone(d) ==
    /\ pv[d].st = "deleting" /\ ~pv[d].fin /\ pv[d].up = "down"
    /\ PutPv(d, [pv[d] EXCEPT !.st = "gone"]) /\ Touch(d)
    /\ UNCHANGED <<ctl, world, srv, budget>>

\* The controller crashes and restarts: memory lost, caches filled by a fresh list,
\* every listed object notified as added.
RestartController ==
    /\ Disrupt("restart")
    /\ creq' = req /\ cpv' = pv /\ stream' = <<>>
    /\ sd' = [r \in Requesters |-> NoServerData] /\ th' = Idle
    /\ gpuMap' = {} /\ cm' = [cm EXCEPT !.queued = cm.obj # {}, !.enqueue = FALSE]
    /\ queue' = {r \in Requesters : Exists(req[r])}
                \cup UNION {CareAbout(d, pv[d]) : d \in {x \in Providers : Exists(pv[x])}}
    /\ UNCHANGED <<req, pv, srv, spi>>

------------------------------------------------------------------------------
Init ==
    /\ req = [r \in Requesters |-> NoReq] /\ creq = req
    /\ pv = [d \in Providers |-> NoPv] /\ cpv = pv
    /\ stream = <<>>
    /\ srv = [d \in Providers |-> "none"]
    /\ spi = [r \in Requesters |-> FALSE]
    /\ cm = [obj |-> Gpus, queued |-> TRUE, enqueue |-> FALSE] /\ gpuMap = {}
    /\ sd = [r \in Requesters |-> NoServerData]
    /\ queue = {} /\ th = Idle /\ budget = MaxDisruptions

\* The calls of the worker while it processes an inference server.
WorkerStep ==
    \/ FetchGpus \/ RemoveRequesterFinalizer \/ AddRequesterFinalizer
    \/ DeleteRequester \/ RemoveProviderFinalizer \/ DeleteTroubledProvider
    \/ PutToSleep \/ Unbind \/ QuerySleeping \/ WakeUp \/ EnsureSleepingLabel
    \/ RelayReadiness \/ EnsureReqState \/ Bind \/ EnforceSleeperBudget
    \/ CreateProvider \/ \E d \in Providers : EvictSleeper(d)

Next ==
    \/ DeliverPod
    \/ \E r \in Requesters : TakeItem(r)
    \/ WorkerStep
    \/ EditGpuMap
    \/ ProcessGpuMap
    \/ EnqueueRequesters
    \/ \E r \in Requesters : CreateRequester(r)
    \/ \E r \in Requesters : RequesterStatus(r)
    \/ \E r \in Requesters : UserDeletesRequester(r)
    \/ \E r \in Requesters : RequesterGone(r)
    \/ \E d \in Providers : ProviderStarts(d)
    \/ \E d \in Providers : VllmServes(d)
    \/ \E d \in Providers : ProviderReady(d)
    \/ \E d \in Providers : ProviderStops(d)
    \/ \E d \in Providers : EvictProvider(d)
    \/ \E d \in Providers : ProviderGone(d)
    \/ RestartController

Spec == Init /\ [][Next]_vars

\* The informer delivers, both workers go on and take every queued item sooner or
\* later, kubelet and vLLM do their part.  Users and the disruptions owe nothing.
Fairness ==
    /\ WF_vars(DeliverPod) /\ WF_vars(WorkerStep)
    /\ WF_vars(ProcessGpuMap) /\ WF_vars(EnqueueRequesters)
    /\ \A r \in Requesters :
         SF_vars(TakeItem(r)) /\ WF_vars(RequesterStatus(r)) /\ WF_vars(RequesterGone(r))
    /\ \A d \in Providers :
         /\ WF_vars(ProviderStarts(d)) /\ WF_vars(VllmServes(d))
         /\ WF_vars(ProviderReady(d)) /\ WF_vars(ProviderGone(d))
         /\ WF_vars(pv[d].st = "deleting" /\ ProviderStops(d))

FairSpec == Spec /\ Fairness

------------------------------------------------------------------------------
(* Properties.                                                                 *)

\* Every variable stays in its type.
DirectTypeOK ==
    /\ req \in [Requesters -> ReqPod] /\ creq \in [Requesters -> ReqPod]
    /\ pv \in [Providers -> ProvPod] /\ cpv \in [Providers -> ProvPod]
    /\ stream \in Seq(Events)
    /\ srv \in [Providers -> {"none", "starting", "awake", "asleep"}]
    /\ spi \in [Requesters -> BOOLEAN]
    /\ cm \in [obj : SUBSET Gpus, queued : BOOLEAN, enqueue : BOOLEAN]
    /\ gpuMap \in SUBSET Gpus
    /\ sd \in [Requesters -> ServerData]
    /\ queue \in SUBSET Requesters
    /\ th \in Thread
    /\ budget \in 0..MaxDisruptions

\* The processing of one requester never takes the provider of another live one, by
\* binding it or by deleting it: neither the hash match nor the sleeper budget looks
\* at the requester annotation, both count on the accelerator being free.
TakesOnlyReleased ==
    [][\A d \in Providers, r \in Requesters :
         pv[d].st = "live" /\ pv[d].bound = r /\ req[r].st = "live" =>
            pv'[d].bound = r /\ (th.pc = "evict" /\ me # r => pv'[d].st = "live")]_vars

\* The requester's finalizer goes only when the provider bound to it, or just unbound
\* from it and still named by its dual label, is not awake; a container that restarts
\* is awake behind the controller's back.
DirectFinalizerGuardsSleep ==
    [][\A r \in Requesters, d \in Providers :
         /\ req[r].fin /\ ~req'[r].fin
         /\ Exists(pv[d]) /\ (pv[d].bound = r \/ req[r].dual = d) /\ ~pv[d].again
         => srv[d] \notin {"starting", "awake"}]_vars

\* "vllm awake implies provider Pod is bound", as far as direct providers go.
DirectAwakeImpliesBound ==
    \A d \in Providers :
        Exists(pv[d]) /\ srv[d] \in {"starting", "awake"} => pv[d].bound # None

Quiet == stream = <<>> /\ queue = {} /\ th.pc = "idle"

\* Once the controller is at rest, the server of a requester that shows Ready is awake.
ReadyServerIsAwake ==
    Quiet => \A r \in Requesters, d \in Providers :
        req[r].st = "live" /\ req[r].ready /\ pv[d].st = "live" /\ pv[d].bound = r
            => srv[d] = "awake"

\* "They have to be sleeping": the provider that is about to be bound.
MatchIsAsleep == th.pc = "bind" => srv[th.pvn] = "asleep"

\* The controller gives up on a requester with two providers: a second one is
\* created when the first is not yet in the informer cache.
NeverTwo ==
    [](\A d, e \in Providers : pv[d].bound # None /\ pv[d].bound = pv[e].bound => d = e)

\* A deleted requester goes away.
DirectDeletionCompletes ==
    NeverTwo => \A r \in Requesters : req[r].st = "deleting" ~> req[r].st = "gone"

\* A requester becomes Ready, unless it is deleted or cannot be served: its
\* accelerator is not in the GPU map, which may arrive at any moment of the
\* processing that misses it, no provider can be made, or the container of its
\* provider has restarted.
Unservable(r) ==
    \/ req[r].gpu \notin cm.obj
    \/ \A d \in Providers : pv[d].st # "none" /\ (~Exists(pv[d]) \/ pv[d].bound # r)
    \/ \E d \in Providers : pv[d].bound = r /\ pv[d].again
DirectRequesterServed ==
    NeverTwo => \A r \in Requesters :
        req[r].st = "live" ~> req[r].ready \/ req[r].st # "live" \/ Unservable(r)

\* A provider whose requester is gone gets unbound, taken over or deleted.
ProviderReleased ==
    NeverTwo => \A d \in Providers, r \in Requesters :
        pv[d].bound = r /\ req[r].st = "gone" ~> ~Exists(pv[d]) \/ pv[d].bound # r
===============================================================================
