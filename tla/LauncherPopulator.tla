--------------------------- MODULE LauncherPopulator ---------------------------
(* The launcher-populator for one Node and one LauncherConfig: the digested    *)
(* policy (PolicyDigest), the launcher Pods with their informer, and the key   *)
(* worker that runs processKey (reconcileKey and the pending expectations)     *)
(* against a cache that may be stale, while the dual-pods controller binds and *)
(* unbinds launchers.  One step of the worker is one API call.                 *)
EXTENDS PolicyDigest, Sequences

CONSTANTS
    Pods,             \* the launcher Pods there may ever be
    MaxLag            \* Pod events on their way to the informer

ASSUME PopulatorConstants == IsFiniteSet(Pods) /\ MaxLag \in Nat \ {0}

VARIABLES
    pod,              \* the launcher Pods in the API
    cpod, stream,     \* the informer's copy, the events that are on their way
    overdue,          \* the Pods not Ready for longer than the stuck threshold
    timer,            \* the Pods for which keyQueue.AddAfter is pending
    expected,         \* the pending expectations
    th                \* the key worker

podVars == <<pod, cpod, stream, overdue>>
keyVars == <<timer, expected, th>>
vars == <<digestVars, podVars, keyVars>>

NoPod == [st |-> "none", bound |-> FALSE, hash |-> 0, ready |-> FALSE, stuck |-> FALSE]
NoView == [u \in Pods |-> NoPod]
Idle == [pc |-> "idle", desired |-> 0, hash |-> 0, template |-> FALSE, view |-> NoView,
         dirty |-> {}, todo |-> {}, kept |-> 0, left |-> 0, deleted |-> FALSE]
NoExpectations == [creations |-> {}, deletions |-> {}, expired |-> FALSE]

\* The Pods that are there, that are not being deleted, that are unbound.
Present(ps) == {u \in Pods : ps[u].st \in {"live", "deleting"}}
Live(ps) == {u \in Pods : ps[u].st = "live"}
Unbound(ps) == {u \in Live(ps) : ~ps[u].bound}

PodObjects ==
    [st : {"none", "live", "deleting", "gone"}, bound : BOOLEAN, hash : 0..MaxVer,
     ready : BOOLEAN, stuck : BOOLEAN]

\* Every variable has its type.
TypeOK ==
    /\ DigestTypeOK
    /\ {pod, cpod} \subseteq [Pods -> PodObjects]
    /\ stream \in Seq([pod : Pods, obj : PodObjects]) /\ Len(stream) <= MaxLag
    /\ overdue \subseteq Pods /\ timer \subseteq Pods
    /\ expected \in [creations : SUBSET Pods, deletions : SUBSET Pods, expired : BOOLEAN]
    /\ th.pc \in {"idle", "list", "stale", "excess", "report", "create"}
    /\ th.view \in [Pods -> PodObjects] /\ th.dirty \subseteq Pods /\ th.todo \subseteq Pods
    /\ th.left \in 0..Cardinality(Pods) \cup Counts /\ th.kept \in 0..Cardinality(Pods)
    /\ th.desired \in Counts \cup {0, HandsOff} /\ th.hash \in 0..MaxVer
    /\ {th.template, th.deleted} \subseteq BOOLEAN

\* A Pod of the API changes: the event is sent and every snapshot of it is old.
Put(u, new) ==
    /\ Len(stream) < MaxLag
    /\ pod' = [pod EXCEPT ![u] = new]
    /\ stream' = Append(stream, [pod |-> u, obj |-> new])
NoPut == UNCHANGED <<pod, stream>>

Soil(t, u) == [t EXCEPT !.dirty = @ \cup ({u} \cap Unbound(t.view))]

Init ==
    /\ DigestInit
    /\ pod = NoView /\ cpod = NoView /\ stream = <<>> /\ overdue = {} /\ timer = {}
    /\ expected = NoExpectations /\ th = Idle
--------------------------------------------------------------------------------
(* The cluster.                                                                *)

ClusterFrame ==
    UNCHANGED <<objects, informers, news, digestQueue, batch, digest, edits, cpod, timer,
                expected>>

\* The dual-pods controller binds an unbound launcher, unbinds a bound one, or
\* creates one bound.
BindLauncher(u) ==
    /\ u \in Unbound(pod) /\ Disrupt("bind")
    /\ Put(u, [pod[u] EXCEPT !.bound = TRUE]) /\ th' = Soil(th, u)
    /\ ClusterFrame /\ UNCHANGED <<overdue, keyQueued>>

UnbindLauncher(u) ==
    /\ u \in Present(pod) /\ pod[u].bound
    /\ Put(u, [pod[u] EXCEPT !.bound = FALSE]) /\ th' = Soil(th, u)
    /\ ClusterFrame /\ UNCHANGED <<overdue, keyQueued, disruptions>>

CreateBoundLauncher(u) ==
    /\ pod[u].st = "none" /\ lc.ver > 0 /\ Disrupt("create")
    /\ Put(u, [NoPod EXCEPT !.st = "live", !.bound = TRUE, !.hash = lc.ver, !.ready = TRUE])
    /\ ClusterFrame /\ UNCHANGED <<overdue, keyQueued, th>>

\* Somebody deletes a launcher.
EvictLauncher(u) ==
    /\ pod[u].st = "live" /\ Disrupt("evict")
    /\ Put(u, [pod[u] EXCEPT !.st = "deleting"]) /\ th' = Soil(th, u)
    /\ ClusterFrame /\ UNCHANGED <<overdue, keyQueued>>

\* A launcher being deleted goes away once it is not bound (a bound one carries the
\* dual-pods controller's finalizer).
LauncherGone(u) ==
    /\ pod[u].st = "deleting" /\ ~pod[u].bound
    /\ Put(u, [NoPod EXCEPT !.st = "gone"]) /\ th' = Soil(th, u)
    /\ ClusterFrame /\ UNCHANGED <<overdue, keyQueued, disruptions>>

LauncherReady(u) ==
    /\ u \in Present(pod) /\ ~pod[u].ready
    /\ Put(u, [pod[u] EXCEPT !.ready = TRUE]) /\ th' = Soil(th, u)
    /\ overdue' = overdue \ {u}
    /\ ClusterFrame /\ UNCHANGED <<keyQueued, disruptions>>

\* The stuck threshold passes, and with it the delay of a pending AddAfter.
LauncherOverdue(u) ==
    /\ u \in Present(pod) \ overdue /\ ~pod[u].ready
    /\ overdue' = overdue \cup {u} /\ timer' = timer \ {u}
    /\ keyQueued' = (keyQueued \/ u \in timer)
    /\ UNCHANGED <<objects, informers, news, digestQueue, batch, digest, edits, disruptions,
                   pod, cpod, stream, expected, th>>

\* OnAdd, OnUpdate and OnDelete of a launcher Pod.
DeliverPod ==
    /\ stream # <<>>
    /\ cpod' = [cpod EXCEPT ![Head(stream).pod] = Head(stream).obj]
    /\ stream' = Tail(stream) /\ keyQueued' = TRUE
    /\ UNCHANGED <<objects, informers, news, digestQueue, batch, digest, edits, disruptions,
                   pod, overdue, keyVars>>

\* A controller starts with nothing in memory and caches just filled.
Started ==
    /\ UNCHANGED <<objects, pod, overdue>>
    /\ DigestStart
    /\ cpod' = pod /\ stream' = <<>> /\ keyQueued' = (Present(pod) # {})
    /\ timer' = {} /\ expected' = NoExpectations /\ th' = Idle

RestartController == Started /\ Disrupt("restart") /\ UNCHANGED edits
--------------------------------------------------------------------------------
(* reconcileKey: what the worker goes on to when a loop is through.            *)

Done == [Idle EXCEPT !.pc = "done"]

\* Mutant of Requeue: the key is dropped.
Drop == [Idle EXCEPT !.pc = "done"]

Requeue == [Idle EXCEPT !.pc = "requeue"]

\* The unbound launchers of the present template; the others are stale.
Current(t) == {u \in Unbound(t.view) : t.view[u].hash = t.hash}

\* desiredCount - effectiveRemaining.
Diff(t) ==
    t.desired - (Cardinality(Live(t.view) \ Unbound(t.view)) + Cardinality(Current(t)) + t.kept)

\* Launchers are created only when none was or is being deleted.
ToCreate(t) ==
    IF t.deleted \/ Present(t.view) # Live(t.view) THEN Requeue
    ELSE IF Diff(t) > 0
    THEN [Idle EXCEPT !.pc = "create", !.desired = t.desired, !.hash = t.hash,
                      !.template = t.template, !.left = Diff(t)]
    ELSE Done

\* launcherPhaseOf says stuck_scheduling or stuck_starting.
IsStuck(t, u) == ~t.view[u].ready /\ u \in overdue

\* The retained launchers whose stuck label is not right.
ToReport(t) ==
    LET wrong == {u \in t.todo : t.template /\ t.view[u].stuck # IsStuck(t, u)} IN
    IF wrong = {} THEN ToCreate(t) ELSE [t EXCEPT !.pc = "report", !.todo = wrong]

\* Excess launchers are deleted until there are enough or none is left to try.
MoreExcess(t) == IF t.left = 0 \/ t.todo = {} THEN ToReport(t) ELSE [t EXCEPT !.pc = "excess"]

\* Mutant of ToExcess: the sign of the difference is not looked at.
ToExcessAnyway(t) == MoreExcess([t EXCEPT !.todo = Current(t), !.left = -Diff(t)])

ToExcess(t) ==
    MoreExcess([t EXCEPT !.todo = Current(t), !.left = IF Diff(t) < 0 THEN -Diff(t) ELSE 0])

MoreStale(t) == IF t.todo = {} THEN ToExcess(t) ELSE [t EXCEPT !.pc = "stale"]
MoreReports(t) == IF t.todo = {} THEN ToCreate(t) ELSE t

\* The worker goes on as t or, when it is through, drops or retries the key.
Become(next) ==
    \E t \in {next} :
       /\ th' = IF t.pc \in {"done", "requeue"} THEN Idle ELSE t
       /\ keyQueued' = (keyQueued \/ t.pc = "requeue")

WorkerFrame == UNCHANGED <<objects, informers, news, digestQueue, batch, digest, edits, cpod, overdue>>
--------------------------------------------------------------------------------
(* The key worker.                                                             *)

\* Mutant of MayStart: the key worker does not wait for the initial batch.
MayStartAtOnce == TRUE

\* keyQueue's workers are started once the initial digest items are processed.
MayStart == batch = {}

\* processKey takes its snapshot of the digest; a key without an entry is to have
\* no launchers, and no template is passed on.
TakeKey ==
    /\ keyQueued /\ th.pc = "idle" /\ MayStart
    /\ keyQueued' = FALSE
    /\ th' = [Idle EXCEPT !.pc = "list", !.desired = entry.desired,
                          !.hash = IF dlc > 0 THEN dlc ELSE 0,
                          !.template = dlc > 0 /\ \E p \in Policies : entry.refs[p] # NotWanted]
    /\ WorkerFrame /\ UNCHANGED <<disruptions, pod, stream, timer, expected>>

\* check: the expectations that the cache does not satisfy yet.
Pruned ==
    LET pending == [expected EXCEPT !.creations = @ \ Present(cpod),
                                    !.deletions = @ \cap Present(cpod)]
    IN IF pending.creations \cup pending.deletions = {} THEN NoExpectations ELSE pending

\* The deadline of the expectations passes, which is a disruption when the events
\* that would satisfy them are still on their way.
ExpectationsExpire ==
    /\ Pruned # NoExpectations /\ ~expected.expired
    /\ expected' = [expected EXCEPT !.expired = TRUE]
    /\ IF stream = <<>> THEN UNCHANGED disruptions ELSE Disrupt("timeout")
    /\ UNCHANGED <<objects, informers, news, digestQueue, batch, digest, keyQueued, edits,
                   podVars, timer, th>>

\* The worker starts on the listed launchers, of which some have changed since.
Reconcile(view, dirty) ==
    MoreStale([th EXCEPT !.view = view, !.dirty = dirty,
                         !.todo = {u \in Unbound(view) : view[u].hash # th.hash}])

\* Mutant of BecomesOverdue: nothing is scheduled.
NothingBecomesOverdue == {}

\* computeKeyPhases: the launchers with a transition to stuck still to come.
BecomesOverdue == {u \in Unbound(cpod) \ overdue : cpod[u].hash = th.hash /\ ~cpod[u].ready}

\* The launchers are listed from the cache, whose metrics ask for another look when
\* a launcher would be overdue, or from the API when expectations time out.
ListLaunchers ==
    /\ th.pc = "list"
    /\ timer' = timer \cup BecomesOverdue
    /\ \/ /\ th.desired = HandsOff \/ cnode = "gone"
          /\ Become(Done) /\ UNCHANGED <<expected, disruptions>>
       \/ /\ th.desired # HandsOff /\ cnode # "gone"
          /\ \/ /\ Pruned = NoExpectations /\ expected' = Pruned
                /\ Become(Reconcile(cpod, {stream[i].pod : i \in DOMAIN stream} \cap Unbound(cpod)))
                /\ UNCHANGED disruptions
             \/ /\ Pruned # NoExpectations /\ ~Pruned.expired /\ expected' = Pruned
                /\ Become(Requeue) /\ UNCHANGED disruptions
             \/ /\ Pruned.expired /\ expected' = NoExpectations
                /\ \/ Become(Reconcile(pod, {})) /\ UNCHANGED disruptions
                   \/ Become(Requeue) /\ Disrupt("callFails")
    /\ WorkerFrame /\ NoPut

\* Mutant of Refused: the resourceVersion precondition is dropped.
NeverRefused(u) == FALSE

\* The preconditions of the Delete fail: the Pod is not as in the snapshot.
Refused(u) == u \in th.dirty

\* Mutant of ExpectCreation: a creation is forgotten.
ForgetCreation(u) == UNCHANGED expected

\* Each new expectation extends the deadline.
ExpectDeletion(u) ==
    expected' = [expected EXCEPT !.deletions = @ \cup {u}, !.expired = FALSE]
ExpectCreation(u) ==
    expected' = [expected EXCEPT !.creations = @ \cup {u}, !.expired = FALSE]

\* Delete with preconditions on UID and resourceVersion; what follows depends on
\* whether the Pod was there to be deleted, had changed or was gone already.
DeletePod(u, ifDeleted, ifConflict, ifGone) ==
    /\ \/ /\ pod[u].st = "gone" /\ NoPut /\ ExpectDeletion(u) /\ Become(ifGone)
          /\ UNCHANGED disruptions
       \/ /\ pod[u].st # "gone" /\ Refused(u) /\ NoPut /\ Become(ifConflict)
          /\ UNCHANGED <<expected, disruptions>>
       \/ /\ pod[u].st # "gone" /\ ~Refused(u) /\ Put(u, [pod[u] EXCEPT !.st = "deleting"])
          /\ \/ ExpectDeletion(u) /\ Become(ifDeleted) /\ UNCHANGED disruptions
             \/ UNCHANGED expected /\ Become(Requeue) /\ Disrupt("lostReply")
       \/ NoPut /\ UNCHANGED expected /\ Become(Requeue) /\ Disrupt("callFails")
    /\ WorkerFrame /\ UNCHANGED timer

DeleteStale ==
    /\ th.pc = "stale"
    /\ \E u \in th.todo :
          LET t == [th EXCEPT !.todo = @ \ {u}] IN
          DeletePod(u, MoreStale([t EXCEPT !.deleted = TRUE]),
                    MoreStale([t EXCEPT !.kept = @ + 1]), MoreStale(t))

DeleteExcess ==
    /\ th.pc = "excess"
    /\ \E u \in th.todo :
          LET t == [th EXCEPT !.todo = @ \ {u}] IN
          DeletePod(u, MoreExcess([t EXCEPT !.deleted = TRUE, !.left = @ - 1]),
                    MoreExcess(t), MoreExcess([t EXCEPT !.left = @ - 1]))

\* setStuckLabel: a Patch without precondition; a Pod that is gone is passed over.
ReportStuckLauncher ==
    /\ th.pc = "report"
    /\ \E u \in th.todo :
          LET t == [th EXCEPT !.todo = @ \ {u}] IN
          \/ /\ IF pod[u].st = "gone" THEN NoPut
                ELSE Put(u, [pod[u] EXCEPT !.stuck = ~th.view[u].stuck])
             /\ \/ Become(MoreReports(t)) /\ UNCHANGED disruptions
                \/ Become(Requeue) /\ Disrupt("lostReply")
          \/ NoPut /\ Become(Requeue) /\ Disrupt("callFails")
    /\ WorkerFrame /\ UNCHANGED <<timer, expected>>

\* createLaunchers, one Create at a time.  The API server refuses when there is no
\* name left; a launcher may be slow to become Ready.
CreateLauncher ==
    /\ th.pc = "create" /\ th.template
    /\ LET next == IF th.left = 1 THEN Done ELSE [th EXCEPT !.left = @ - 1]
           new == [NoPod EXCEPT !.st = "live", !.hash = th.hash, !.ready = TRUE]
           free == {u \in Pods : pod[u].st = "none"}
       IN \/ \E u \in free :
                \/ /\ Put(u, new) /\ ExpectCreation(u) /\ Become(next) /\ UNCHANGED disruptions
                \/ /\ Put(u, [new EXCEPT !.ready = FALSE]) /\ ExpectCreation(u) /\ Become(next)
                   /\ Disrupt("slow")
                \/ /\ Put(u, new) /\ UNCHANGED expected /\ Become(Requeue) /\ Disrupt("lostReply")
          \/ /\ free = {} /\ NoPut /\ UNCHANGED <<expected, disruptions>> /\ Become(Requeue)
          \/ NoPut /\ UNCHANGED expected /\ Become(Requeue) /\ Disrupt("callFails")
    /\ WorkerFrame /\ UNCHANGED timer

\* SpecializeLauncherTemplateToNode dereferences a nil template: the controller
\* panics and is started again.
CreateWithoutTemplate ==
    /\ th.pc = "create" /\ ~th.template
    /\ Started /\ UNCHANGED <<edits, disruptions>>

Cluster ==
    \E u \in Pods :
       \/ BindLauncher(u) \/ UnbindLauncher(u) \/ CreateBoundLauncher(u) \/ EvictLauncher(u)
       \/ LauncherGone(u) \/ LauncherReady(u) \/ LauncherOverdue(u)

Worker ==
    \/ TakeKey \/ ListLaunchers \/ DeleteStale \/ DeleteExcess \/ ReportStuckLauncher
    \/ CreateLauncher \/ CreateWithoutTemplate

Next ==
    \/ DigestNext /\ UNCHANGED <<podVars, keyVars>>
    \/ Cluster
    \/ DeliverPod
    \/ ExpectationsExpire
    \/ Worker
    \/ RestartController

Spec == Init /\ [][Next]_vars

\* Informers deliver, both workers take what is queued and their calls return, a
\* launcher being deleted is released by the dual-pods controller and goes away.
Fairness ==
    /\ WF_vars(DigestWork /\ UNCHANGED <<podVars, keyVars>>)
    /\ WF_vars(DeliverPod)
    /\ WF_vars(ExpectationsExpire)
    /\ WF_vars(Worker)
    /\ WF_vars(\E u \in Pods :
                  LauncherGone(u) \/ (pod[u].st = "deleting" /\ UnbindLauncher(u)))

FairSpec == Spec /\ Fairness
--------------------------------------------------------------------------------
(* Properties.                                                                 *)

\* The worker deletes a launcher, the worker creates one.
Deletes(u) == th.pc \in {"stale", "excess"} /\ pod[u].st = "live" /\ pod'[u].st = "deleting"
Creates(u) == th.pc = "create" /\ pod[u].st = "none" /\ pod'[u].st = "live"

\* However stale the cache, the populator deletes no launcher that is bound: the
\* preconditions of reconcileKey's Delete protect a launcher that the dual-pods
\* controller has bound since.
BoundKept == [][\A u \in Pods : Deletes(u) /\ th' # th => ~pod[u].bound]_vars

\* The populator creates a launcher only when fewer than the desired number are
\* there, those on their way out included: what it created and deleted itself is
\* accounted for before the cache shows it.
RoomBeforeCreate ==
    [][\A u \in Pods : Creates(u) /\ th' # th => Cardinality(Present(pod)) < th.desired]_vars

\* As long as nobody changes a policy, a LauncherConfig or the Node, the populator
\* deletes no launcher that the policies call for, even right after a start.
PopulationKept ==
    [][edits = 0 /\ th' # th =>
          \A u \in Pods : Deletes(u) => Cardinality(Live(pod)) > PopulationPolicy]_vars

\* The populator has brought the launchers in line with what the policies call
\* for, or has run out of names.
InLine ==
    PopulationPolicy # HandsOff /\ node # "gone" =>
        LET bound == Cardinality(Live(pod) \ Unbound(pod))
            wanted == IF PopulationPolicy > bound THEN PopulationPolicy - bound ELSE 0
        IN \/ Cardinality(Unbound(pod)) = wanted
           \/ Cardinality(Unbound(pod)) < wanted /\ \A u \in Pods : pod[u].st # "none"

\* When edits and disruptions are over, the number of launchers becomes and stays
\* what the policies and the bound launchers call for.
Populated == <>[]InLine

\* A launcher that is not Ready in time comes to carry the stuck label, and one that
\* recovers to lose it, without any event at the time it becomes overdue.
StuckReported ==
    <>[](PopulationPolicy # HandsOff /\ node # "gone" =>
            \A u \in Unbound(pod) : pod[u].stuck = (~pod[u].ready /\ u \in overdue))

\* While the LauncherConfig is digested as missing or malformed the populator
\* deletes no launcher of it.
HandsOffKept == [][th.hash = 0 /\ th' # th => \A u \in Pods : ~Deletes(u)]_vars

\* A template is at hand whenever reconcileKey goes on to create launchers.
TemplateAtHand == th.pc = "create" => th.template

\* An unbound launcher of another template than the LauncherConfig's is replaced.
StaleReplaced ==
    <>[](lc.ver > 0 /\ node # "gone" => \A u \in Unbound(pod) : pod[u].hash = lc.ver)
================================================================================
