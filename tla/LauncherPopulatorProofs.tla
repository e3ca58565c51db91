------------------------ MODULE LauncherPopulatorProofs -----------------------
(* The key worker of the launcher-populator, and the populator as a whole, for  *)
(* any launcher Pods, lag of the informer and number of disruptions.            *)
EXTENDS LauncherPopulator, PolicyDigestProofs

\* The worker's state, its numbers among the values of D.
ThreadsOf(D) ==
    [pc : {"idle", "list", "stale", "excess", "report", "create", "done", "requeue"},
     desired : D, hash : 0..MaxVer, template : BOOLEAN, view : [Pods -> PodObjects],
     dirty : SUBSET Pods, todo : SUBSET Pods, kept : D, left : D, deleted : BOOLEAN]
IsThread(t) == t \in ThreadsOf({t.desired, t.kept, t.left})

PodEvents == [pod : Pods, obj : PodObjects]
PodTypes ==
    /\ pod \in [Pods -> PodObjects] /\ cpod \in [Pods -> PodObjects]
    /\ stream \in Seq(PodEvents)
    /\ IsThread(th)

\* The informer's copy of a Pod is the Pod once every event about it is delivered:
\* the last of them tells its state.
PodStreamOK ==
    /\ \A u \in Pods : (\A i \in 1..Len(stream) : stream[i].pod # u) => cpod[u] = pod[u]
    /\ \A i \in 1..Len(stream) :
          (\A j \in 1..Len(stream) : j > i => stream[j].pod # stream[i].pod) =>
             stream[i].obj = pod[stream[i].pod]

\* A Pod that was unbound and that nobody but the worker has changed since.
Intact(o) == o.st # "none" /\ (o.st = "live" => ~o.bound)

\* While the worker deletes launchers it tries only unbound ones of its snapshot, and
\* those that the preconditions of the Delete let through are unbound in the API.
SnapshotOK(t, ps) ==
    t.pc \in {"stale", "excess"} =>
       /\ t.todo \subseteq Unbound(t.view)
       /\ \A u \in Unbound(t.view) \ t.dirty : Intact(ps[u])

LEMMA ThreadIs ==
    ASSUME NEW D, NEW t \in ThreadsOf(D)
    PROVE  IsThread(t)
  BY Zenon DEF ThreadsOf, IsThread

LEMMA PodConstants ==
    /\ NoPod \in PodObjects /\ NoView \in [Pods -> PodObjects] /\ Unbound(NoView) = {}
    /\ IsThread(Idle) /\ IsThread(Done) /\ IsThread(Requeue)
    /\ Idle.pc = "idle" /\ Done.pc = "done" /\ Requeue.pc = "requeue"
<1>1. NoPod \in PodObjects /\ NoView \in [Pods -> PodObjects] /\ 0 \in 0..MaxVer
  BY DigestConstants DEF NoPod, NoView, PodObjects
<1>2. Unbound(NoView) = {}
  BY Zenon DEF Unbound, Live, NoView, NoPod
<1>3. Idle \in ThreadsOf({0}) /\ Idle.pc = "idle"
  BY <1>1, Zenon DEF Idle, ThreadsOf
<1>4. Done \in ThreadsOf({0}) /\ Done.pc = "done"
  BY <1>1, Zenon DEF Done, Idle, ThreadsOf
<1>5. Requeue \in ThreadsOf({0}) /\ Requeue.pc = "requeue"
  BY <1>1, Zenon DEF Requeue, Idle, ThreadsOf
<1> QED BY <1>1, <1>2, <1>3, <1>4, <1>5, ThreadIs, Zenon

\* What the worker goes on to from t: the same snapshot as long as it deletes.
GoesOn(t, n) ==
    /\ IsThread(n)
    /\ n.pc \in {"stale", "excess"} =>
          n.view = t.view /\ n.dirty = t.dirty /\ n.todo \subseteq Unbound(t.view)

LEMMA ToCreateGoesOn ==
    ASSUME NEW t, IsThread(t)
    PROVE  GoesOn(t, ToCreate(t)) /\ ToCreate(t).pc \notin {"stale", "excess"}
<1> DEFINE d == Diff(t)
           c == [Idle EXCEPT !.pc = "create", !.desired = t.desired, !.hash = t.hash,
                             !.template = t.template, !.left = d]
<1> HIDE DEF d
<1>1. c \in ThreadsOf({t.desired, 0, d}) /\ c.pc = "create"
  BY PodConstants, ZenonT(40) DEF IsThread, ThreadsOf, Idle
<1>2. IsThread(c)
  BY <1>1, ThreadIs, Zenon
<1>3. ToCreate(t) \in {Requeue, c, Done}
  BY Zenon DEF ToCreate, d
<1> QED BY <1>1, <1>2, <1>3, PodConstants, Zenon DEF GoesOn

LEMMA ToReportGoesOn ==
    ASSUME NEW t, IsThread(t)
    PROVE  GoesOn(t, ToReport(t))
<1>1. PICK w \in SUBSET Pods : w = {u \in t.todo : t.template /\ t.view[u].stuck # IsStuck(t, u)}
  BY Zenon DEF IsThread, ThreadsOf
<1> DEFINE n == [t EXCEPT !.pc = "report", !.todo = w]
<1>2. n \in ThreadsOf({t.desired, t.kept, t.left}) /\ n.pc = "report"
  BY Zenon DEF IsThread, ThreadsOf
<1>3. IsThread(n)
  BY <1>2, ThreadIs, Zenon
<1>4. ToReport(t) = IF w = {} THEN ToCreate(t) ELSE n
  BY <1>1, Zenon DEF ToReport
<1> QED BY <1>2, <1>3, <1>4, ToCreateGoesOn, Zenon DEF GoesOn

LEMMA MoreExcessGoesOn ==
    ASSUME NEW t, IsThread(t), t.todo \subseteq Unbound(t.view)
    PROVE  GoesOn(t, MoreExcess(t))
<1> DEFINE n == [t EXCEPT !.pc = "excess"]
<1>1. /\ n \in ThreadsOf({t.desired, t.kept, t.left})
      /\ n.view = t.view /\ n.dirty = t.dirty /\ n.todo = t.todo
  BY Zenon DEF IsThread, ThreadsOf
<1>2. IsThread(n)
  BY <1>1, ThreadIs, Zenon
<1>3. MoreExcess(t) = ToReport(t) \/ MoreExcess(t) = n
  BY Zenon DEF MoreExcess
<1> QED BY <1>1, <1>2, <1>3, ToReportGoesOn, Zenon DEF GoesOn

LEMMA MoreStaleGoesOn ==
    ASSUME NEW t, IsThread(t), t.todo \subseteq Unbound(t.view)
    PROVE  GoesOn(t, MoreStale(t))
<1>1. PICK d : d = IF Diff(t) < 0 THEN -Diff(t) ELSE 0
  BY Zenon
<1> DEFINE n == [t EXCEPT !.pc = "stale"]
           m == [t EXCEPT !.todo = Current(t), !.left = d]
<1>2. /\ n \in ThreadsOf({t.desired, t.kept, t.left})
      /\ n.view = t.view /\ n.dirty = t.dirty /\ n.todo = t.todo
  BY Zenon DEF IsThread, ThreadsOf
<1>3. Current(t) \subseteq Unbound(t.view) /\ Current(t) \in SUBSET Pods
  BY Zenon DEF Current, Unbound, Live
<1>4. /\ m \in ThreadsOf({t.desired, t.kept, t.left, d})
      /\ m.view = t.view /\ m.dirty = t.dirty /\ m.todo \subseteq Unbound(m.view)
  BY <1>3, Zenon DEF IsThread, ThreadsOf
<1>5. IsThread(n) /\ IsThread(m)
  BY <1>2, <1>4, ThreadIs, Zenon
<1>6. GoesOn(m, MoreExcess(m))
  BY <1>4, <1>5, MoreExcessGoesOn, Zenon
<1>7. MoreStale(t) = IF t.todo = {} THEN MoreExcess(m) ELSE n
  BY <1>1, Zenon DEF MoreStale, ToExcess
<1> QED BY <1>2, <1>4, <1>5, <1>6, <1>7, Zenon DEF GoesOn

\* The worker's next state, when its present one was right about the Pods.
LEMMA BecomeKeeps ==
    ASSUME NEW t, NEW n, NEW ps, GoesOn(t, n), Become(n),
           \A u \in Unbound(t.view) \ t.dirty : Intact(ps[u])
    PROVE  IsThread(th)' /\ SnapshotOK(th', ps)
<1>1. th' = Idle \/ th' = n
  BY Zenon DEF Become
<1> QED BY <1>1, PodConstants, Zenon DEF GoesOn, SnapshotOK, IsThread

LEMMA BecomeThrough ==
    ASSUME NEW n \in {Done, Requeue}, Become(n)
    PROVE  th' = Idle
  BY PodConstants, Zenon DEF Become

LEMMA IdleOK ==
    ASSUME NEW ps
    PROVE  SnapshotOK(Idle, ps)
  BY PodConstants, Zenon DEF SnapshotOK

PodStreamTypes ==
    /\ pod \in [Pods -> PodObjects] /\ cpod \in [Pods -> PodObjects]
    /\ stream \in Seq(PodEvents)

LEMMA PutKeeps ==
    ASSUME PodStreamTypes, PodStreamOK, NEW u \in Pods, NEW new \in PodObjects, Put(u, new),
           cpod' = cpod
    PROVE  /\ PodStreamTypes' /\ PodStreamOK' /\ pod'[u] = new
           /\ \A v \in Pods : v # u => pod'[v] = pod[v]
<1> USE DEF PodStreamTypes
<1>1. PICK e \in PodEvents : e = [pod |-> u, obj |-> new]
  BY Zenon DEF PodEvents
<1>2. pod' = [pod EXCEPT ![u] = new] /\ stream' = Append(stream, e)
  BY <1>1, Zenon DEF Put
<1>3. pod'[u] = new /\ \A v \in Pods : v # u => pod'[v] = pod[v]
  BY <1>2, Zenon
<1>4. PodStreamTypes'
  BY <1>2
<1>5. /\ Len(stream) \in Nat /\ Len(stream') = Len(stream) + 1
      /\ stream'[Len(stream) + 1] = e /\ \A i \in 1..Len(stream) : stream'[i] = stream[i]
  BY <1>2
<1>6. ASSUME NEW v \in Pods, \A i \in 1..Len(stream') : stream'[i].pod # v
      PROVE  cpod'[v] = pod'[v]
  <2>1. v # u
    BY <1>1, <1>5, <1>6
  <2>2. \A i \in 1..Len(stream) : stream[i].pod # v
    BY <1>5, <1>6
  <2> QED BY <1>3, <2>1, <2>2, Zenon DEF PodStreamOK
<1>7. ASSUME NEW i \in 1..Len(stream'),
             \A j \in 1..Len(stream') : j > i => stream'[j].pod # stream'[i].pod
      PROVE  stream'[i].obj = pod'[stream'[i].pod]
  <2>1. CASE i = Len(stream) + 1
    BY <1>1, <1>3, <1>5, <2>1
  <2>2. CASE i # Len(stream) + 1
    <3>1. i \in 1..Len(stream) /\ stream'[i] = stream[i]
      BY <1>5, <2>2
    <3>2. stream[i].pod # u /\ stream[i].pod \in Pods
      <4>1. stream[i] \in PodEvents /\ Len(stream) + 1 > i /\ Len(stream) + 1 \in 1..Len(stream')
        BY <1>5, <3>1
      <4>2. stream'[Len(stream) + 1].pod # stream'[i].pod
        BY <1>7, <4>1, Zenon
      <4> QED BY <1>1, <1>5, <3>1, <4>1, <4>2 DEF PodEvents
    <3>3. \A j \in 1..Len(stream) : j > i => stream[j].pod # stream[i].pod
      BY <1>5, <1>7, <3>1
    <3> QED BY <1>3, <3>1, <3>2, <3>3 DEF PodStreamOK
  <2> QED BY <2>1, <2>2, Zenon
<1> QED BY <1>3, <1>4, <1>6, <1>7, Zenon DEF PodStreamOK

LEMMA DeliverPodKeeps ==
    ASSUME PodStreamTypes, PodStreamOK, DeliverPod
    PROVE  PodStreamTypes' /\ PodStreamOK'
<1> USE DEF PodStreamTypes
<1>1. PICK e \in PodEvents : e = Head(stream)
  <2>1. Head(stream) \in PodEvents
    BY DEF DeliverPod
  <2> QED BY <2>1, Zenon
<1>2. cpod' = [cpod EXCEPT ![e.pod] = e.obj] /\ stream' = Tail(stream) /\ pod' = pod
  BY <1>1, Zenon DEF DeliverPod
<1>3. PodStreamTypes'
  <2>1. Tail(stream) \in Seq(PodEvents)
    BY DEF DeliverPod
  <2>2. e.pod \in Pods /\ e.obj \in PodObjects
    BY Zenon DEF PodEvents
  <2> QED BY <1>2, <2>1, <2>2, Zenon
<1>4. /\ Len(stream) \in Nat \ {0} /\ Len(stream') = Len(stream) - 1 /\ stream[1] = e
      /\ \A i \in 1..Len(stream') : stream'[i] = stream[i + 1]
  BY <1>1, <1>2 DEF DeliverPod
<1>5. \A j \in 1..Len(stream) : j > 1 => j - 1 \in 1..Len(stream') /\ stream'[j - 1] = stream[j]
  BY <1>4
<1>6. ASSUME NEW v \in Pods, \A i \in 1..Len(stream') : stream'[i].pod # v
      PROVE  cpod'[v] = pod'[v]
  <2>1. \A j \in 1..Len(stream) : j > 1 => stream[j].pod # v
    BY <1>5, <1>6, Zenon
  <2>2. CASE v = e.pod
    <3>1. 1 \in 1..Len(stream) /\ stream[1].obj = pod[v]
      BY <1>4, <2>1, <2>2 DEF PodStreamOK
    <3> QED BY <1>2, <1>4, <2>2, <3>1, Zenon
  <2>3. CASE v # e.pod
    <3>1. \A j \in 1..Len(stream) : stream[j].pod # v
      BY <1>4, <2>1, <2>3
    <3> QED BY <1>2, <2>3, <3>1, Zenon DEF PodStreamOK
  <2> QED BY <2>2, <2>3, Zenon
<1>7. ASSUME NEW i \in 1..Len(stream'),
             \A j \in 1..Len(stream') : j > i => stream'[j].pod # stream'[i].pod
      PROVE  stream'[i].obj = pod'[stream'[i].pod]
  <2>1. i + 1 \in 1..Len(stream) /\ stream'[i] = stream[i + 1]
    BY <1>4
  <2>2. ASSUME NEW j \in 1..Len(stream), j > i + 1 PROVE stream[j].pod # stream[i + 1].pod
    <3>1. j - 1 \in 1..Len(stream') /\ stream'[j - 1] = stream[j] /\ j - 1 > i
      BY <1>5, <2>2
    <3>2. stream'[j - 1].pod # stream'[i].pod
      BY <1>7, <3>1, Zenon
    <3> QED BY <2>1, <3>1, <3>2, Zenon
  <2> QED BY <1>2, <2>1, <2>2, Zenon DEF PodStreamOK
<1> QED BY <1>3, <1>6, <1>7, Zenon DEF PodStreamOK

\* A step in which a Pod keeps what the snapshot relied on.
LEMMA SnapshotKeeps ==
    ASSUME SnapshotOK(th, pod), th' = th,
           \A u \in Pods : Intact(pod[u]) => Intact(pod'[u])
    PROVE  SnapshotOK(th, pod)'
  BY Zenon DEF SnapshotOK, Unbound, Live

\* A Pod that somebody else changes is refused to the worker.
LEMMA SoilKeeps ==
    ASSUME IsThread(th), SnapshotOK(th, pod), NEW u \in Pods, th' = Soil(th, u),
           \A v \in Pods : v # u => pod'[v] = pod[v]
    PROVE  IsThread(th)' /\ SnapshotOK(th, pod)'
<1>1. PICK x \in SUBSET Pods : x = th.dirty \cup ({u} \cap Unbound(th.view))
  BY Zenon DEF IsThread, ThreadsOf
<1>2. /\ th' = [th EXCEPT !.dirty = x]
      /\ th' \in ThreadsOf({th.desired, th.kept, th.left})
  BY <1>1, Zenon DEF Soil, IsThread, ThreadsOf
<1>3. IsThread(th)'
  BY <1>2, ThreadIs, Zenon DEF IsThread, ThreadsOf
<1>4. th'.view = th.view /\ th'.todo = th.todo /\ th'.pc = th.pc /\ th'.dirty = x
  BY <1>2, Zenon DEF IsThread, ThreadsOf
<1>5. SnapshotOK(th, pod)'
  BY <1>1, <1>4 DEF SnapshotOK, Unbound, Live
<1> QED BY <1>3, <1>5, Zenon

\* The versions of the LauncherConfig, which become those of the Pods.
VersionTypes == lc \in ConfigObjects /\ clc \in ConfigObjects /\ dlc \in ConfigVersions

PodInv == PodTypes /\ PodStreamOK /\ SnapshotOK(th, pod)

\* What BoundKept says of a step.
BoundStep == \A u \in Pods : Deletes(u) /\ th' # th => ~pod[u].bound

\* A step that changes no Pod and leaves the worker alone.
LEMMA PodIdle ==
    ASSUME PodInv, UNCHANGED <<pod, cpod, stream, th>>
    PROVE  PodInv' /\ BoundStep
<1>1. PodTypes'
  BY Zenon DEF PodInv, PodTypes, IsThread
<1>2. PodStreamOK'
  BY Zenon DEF PodInv, PodStreamOK
<1>3. SnapshotOK(th, pod)'
  BY SnapshotKeeps, Zenon DEF PodInv
<1> QED BY <1>1, <1>2, <1>3, Zenon DEF PodInv, BoundStep

\* Somebody else changes a Pod: if the worker was still going to try it, it was intact.
LEMMA OthersKeep ==
    ASSUME PodInv, NEW u \in Pods, NEW new \in PodObjects, Put(u, new), th' = Soil(th, u),
           cpod' = cpod
    PROVE  PodInv' /\ BoundStep
<1>1. PodStreamTypes' /\ PodStreamOK' /\ \A v \in Pods : v # u => pod'[v] = pod[v]
  BY PutKeeps, Zenon DEF PodInv, PodTypes, PodStreamTypes
<1>2. IsThread(th)' /\ SnapshotOK(th, pod)'
  BY <1>1, SoilKeeps, Zenon DEF PodInv, PodTypes
<1>3. ASSUME NEW v \in Pods, Deletes(v), th' # th PROVE ~pod[v].bound
  <2>1. v = u /\ pod[u].st = "live" /\ th.pc \in {"stale", "excess"}
    BY <1>1, <1>3, Zenon DEF Deletes
  <2>2. u \in Unbound(th.view) \ th.dirty
    <3>1. CASE u \notin Unbound(th.view) \/ u \in th.dirty
      <4>1. th.dirty \cup ({u} \cap Unbound(th.view)) = th.dirty
        BY <3>1, Zenon
      <4>2. Soil(th, u) = th
        BY <4>1, Zenon DEF Soil, PodInv, PodTypes, IsThread, ThreadsOf
      <4> QED BY <1>3, <4>2, Zenon
    <3> QED BY <3>1, Zenon
  <2> QED BY <2>1, <2>2, Zenon DEF PodInv, SnapshotOK, Intact
<1> QED BY <1>1, <1>2, <1>3, Zenon DEF PodInv, PodTypes, PodStreamTypes, BoundStep

LEMMA ClusterKeeps ==
    ASSUME PodInv, VersionTypes, Cluster
    PROVE  PodInv' /\ BoundStep
<1>1. PICK u \in Pods :
         \/ BindLauncher(u) \/ UnbindLauncher(u) \/ CreateBoundLauncher(u) \/ EvictLauncher(u)
         \/ LauncherGone(u) \/ LauncherReady(u) \/ LauncherOverdue(u)
  BY Zenon DEF Cluster
<1>2. pod[u] \in PodObjects
  BY Zenon DEF PodInv, PodTypes
<1>3. /\ [pod[u] EXCEPT !.bound = TRUE] \in PodObjects
      /\ [pod[u] EXCEPT !.bound = FALSE] \in PodObjects
      /\ [pod[u] EXCEPT !.st = "deleting"] \in PodObjects
      /\ [pod[u] EXCEPT !.ready = TRUE] \in PodObjects
  BY <1>2, Zenon DEF PodObjects
<1>4. [NoPod EXCEPT !.st = "gone"] \in PodObjects
  BY PodConstants, Zenon DEF PodObjects
<1>5. CASE CreateBoundLauncher(u)
  <2>1. PICK new : new = [NoPod EXCEPT !.st = "live", !.bound = TRUE, !.hash = lc.ver,
                                       !.ready = TRUE]
    BY Zenon
  <2>2. lc.ver \in 0..MaxVer
    BY <1>5, DigestConstants
       DEF CreateBoundLauncher, VersionTypes, ConfigObjects, ConfigVersions, NoConfig,
           Malformed
  <2>3. new \in PodObjects
    BY <2>1, <2>2, PodConstants, Zenon DEF PodObjects
  <2>4. Put(u, new) /\ cpod' = cpod /\ th' = th /\ pod[u].st = "none"
    BY <1>5, <2>1, Zenon DEF CreateBoundLauncher, ClusterFrame
  <2>5. PodStreamTypes' /\ PodStreamOK' /\ \A v \in Pods : v # u => pod'[v] = pod[v]
    BY <2>3, <2>4, PutKeeps, Zenon DEF PodInv, PodTypes, PodStreamTypes
  <2>6. SnapshotOK(th, pod)'
    BY <2>4, <2>5, SnapshotKeeps, Zenon DEF Intact, PodInv
  <2> QED BY <2>4, <2>5, <2>6, Zenon DEF PodInv, PodTypes, PodStreamTypes, IsThread, BoundStep
<1>6. CASE LauncherOverdue(u)
  BY <1>6, PodIdle, Zenon DEF LauncherOverdue
<1>7. CASE ~CreateBoundLauncher(u) /\ ~LauncherOverdue(u)
  <2>1. \E new \in PodObjects : Put(u, new) /\ th' = Soil(th, u) /\ cpod' = cpod
    BY <1>1, <1>3, <1>4, <1>7, Zenon
       DEF BindLauncher, UnbindLauncher, EvictLauncher, LauncherGone, LauncherReady, ClusterFrame
  <2> QED BY <2>1, OthersKeep, Zenon
<1> QED BY <1>5, <1>6, <1>7, Zenon

\* One Delete of the worker: a Pod that is not refused is intact.
LEMMA DeletePodKeeps ==
    ASSUME PodInv, th.pc \in {"stale", "excess"}, NEW u \in th.todo, NEW a, NEW b, NEW c,
           GoesOn(th, a), GoesOn(th, b), GoesOn(th, c), DeletePod(u, a, b, c)
    PROVE  PodInv' /\ BoundStep
<1>1. /\ u \in Unbound(th.view) /\ u \in Pods /\ pod[u] \in PodObjects
      /\ \A v \in Unbound(th.view) \ th.dirty : Intact(pod[v])
  BY Zenon DEF PodInv, PodTypes, SnapshotOK, IsThread, ThreadsOf
<1>2. PICK n : Become(n) /\ (n = Requeue \/ GoesOn(th, n))
  BY Zenon DEF DeletePod
<1>3. GoesOn(th, n) /\ cpod' = cpod
  BY <1>2, PodConstants, Zenon DEF GoesOn, DeletePod, WorkerFrame
<1>4. CASE NoPut
  <2>1. pod' = pod /\ stream' = stream
    BY <1>4, Zenon DEF NoPut
  <2>2. PICK ps : ps = pod
    BY Zenon
  <2>3. IsThread(th)' /\ SnapshotOK(th', ps)
    BY <1>1, <1>2, <1>3, <2>2, BecomeKeeps, Zenon
  <2>4. SnapshotOK(th, pod)'
    BY <2>1, <2>2, <2>3, Zenon DEF SnapshotOK
  <2> QED BY <1>3, <2>1, <2>3, <2>4, Zenon DEF PodInv, PodTypes, PodStreamOK, BoundStep, Deletes
<1>5. CASE u \notin th.dirty /\ Put(u, [pod[u] EXCEPT !.st = "deleting"])
  <2>1. PICK new : new = [pod[u] EXCEPT !.st = "deleting"]
    BY Zenon
  <2>2. new \in PodObjects /\ new.st = "deleting"
    BY <1>1, <2>1, Zenon DEF PodObjects
  <2>3. /\ PodStreamTypes' /\ PodStreamOK' /\ pod'[u] = new
        /\ \A v \in Pods : v # u => pod'[v] = pod[v]
    BY <1>1, <1>3, <1>5, <2>1, <2>2, PutKeeps, Zenon DEF PodInv, PodTypes, PodStreamTypes
  <2>4. PICK ps : ps = pod'
    BY Zenon
  <2>5. \A v \in Unbound(th.view) \ th.dirty : Intact(ps[v])
    BY <1>1, <2>2, <2>3, <2>4, Zenon DEF Intact, Unbound, Live
  <2>6. IsThread(th)' /\ SnapshotOK(th', ps)
    BY <1>2, <1>3, <2>5, BecomeKeeps, Zenon
  <2>7. SnapshotOK(th, pod)'
    BY <2>4, <2>6, Zenon DEF SnapshotOK
  <2>8. BoundStep
    BY <1>1, <1>5, <2>3, Zenon DEF BoundStep, Deletes, Intact
  <2> QED BY <2>3, <2>6, <2>7, <2>8, Zenon DEF PodInv, PodTypes, PodStreamTypes
<1> QED BY <1>4, <1>5, Zenon DEF DeletePod, Refused

\* The same snapshot under another name: what the worker goes on to from m it goes on
\* to from t.
LEMMA SameSnapshot ==
    ASSUME NEW t, NEW m, NEW n, GoesOn(m, n), m.view = t.view, m.dirty = t.dirty
    PROVE  GoesOn(t, n)
  BY Zenon DEF GoesOn

\* A thread with one launcher less to try, and its counters changed.
Less(t, m) ==
    /\ IsThread(m) /\ m.view = t.view /\ m.dirty = t.dirty
    /\ m.todo \subseteq Unbound(m.view)

LEMMA DeleteStaleKeeps ==
    ASSUME PodInv, DeleteStale
    PROVE  PodInv' /\ BoundStep
<1>1. PICK u \in th.todo :
         LET t == [th EXCEPT !.todo = @ \ {u}] IN
         DeletePod(u, MoreStale([t EXCEPT !.deleted = TRUE]),
                   MoreStale([t EXCEPT !.kept = @ + 1]), MoreStale(t))
  BY Zenon DEF DeleteStale
<1>2. th \in ThreadsOf({th.desired, th.kept, th.left}) /\ th.pc = "stale"
  BY Zenon DEF PodInv, PodTypes, IsThread, DeleteStale
<1>3. th.todo \subseteq Unbound(th.view)
  BY <1>2, Zenon DEF PodInv, SnapshotOK
<1>4. PICK t : t = [th EXCEPT !.todo = @ \ {u}]
  BY Zenon
<1>5. /\ t \in ThreadsOf({th.desired, th.kept, th.left})
      /\ t.view = th.view /\ t.dirty = th.dirty /\ t.todo = th.todo \ {u} /\ t.kept = th.kept
  BY <1>2, <1>4, Zenon DEF ThreadsOf
<1>6. PICK a : a = [t EXCEPT !.deleted = TRUE]
  BY Zenon
<1>7. PICK b : b = [t EXCEPT !.kept = @ + 1]
  BY Zenon
<1>8. /\ a \in ThreadsOf({th.desired, th.kept, th.left})
      /\ a.view = th.view /\ a.dirty = th.dirty /\ a.todo = th.todo \ {u}
  BY <1>5, <1>6, Zenon DEF ThreadsOf
<1>9. /\ b \in ThreadsOf({th.desired, th.kept, th.left, th.kept + 1})
      /\ b.view = th.view /\ b.dirty = th.dirty /\ b.todo = th.todo \ {u}
  BY <1>5, <1>7, Zenon DEF ThreadsOf
<1>10. Less(th, a) /\ Less(th, b) /\ Less(th, t)
  BY <1>3, <1>5, <1>8, <1>9, ThreadIs, Zenon DEF Less
<1>11. GoesOn(th, MoreStale(a)) /\ GoesOn(th, MoreStale(b)) /\ GoesOn(th, MoreStale(t))
  BY <1>10, MoreStaleGoesOn, SameSnapshot, Zenon DEF Less
<1>12. DeletePod(u, MoreStale(a), MoreStale(b), MoreStale(t))
  BY <1>1, <1>4, <1>6, <1>7, Zenon
<1> QED BY <1>2, <1>11, <1>12, DeletePodKeeps, Zenon

LEMMA DeleteExcessKeeps ==
    ASSUME PodInv, DeleteExcess
    PROVE  PodInv' /\ BoundStep
<1>1. PICK u \in th.todo :
         LET t == [th EXCEPT !.todo = @ \ {u}] IN
         DeletePod(u, MoreExcess([t EXCEPT !.deleted = TRUE, !.left = @ - 1]),
                   MoreExcess(t), MoreExcess([t EXCEPT !.left = @ - 1]))
  BY Zenon DEF DeleteExcess
<1>2. th \in ThreadsOf({th.desired, th.kept, th.left}) /\ th.pc = "excess"
  BY Zenon DEF PodInv, PodTypes, IsThread, DeleteExcess
<1>3. th.todo \subseteq Unbound(th.view)
  BY <1>2, Zenon DEF PodInv, SnapshotOK
<1>4. PICK t : t = [th EXCEPT !.todo = @ \ {u}]
  BY Zenon
<1>5. /\ t \in ThreadsOf({th.desired, th.kept, th.left})
      /\ t.view = th.view /\ t.dirty = th.dirty /\ t.todo = th.todo \ {u} /\ t.left = th.left
  BY <1>2, <1>4, Zenon DEF ThreadsOf
<1>6. PICK a : a = [t EXCEPT !.deleted = TRUE, !.left = @ - 1]
  BY Zenon
<1>7. PICK c : c = [t EXCEPT !.left = @ - 1]
  BY Zenon
<1>8. /\ a \in ThreadsOf({th.desired, th.kept, th.left, th.left - 1})
      /\ a.view = th.view /\ a.dirty = th.dirty /\ a.todo = th.todo \ {u}
  BY <1>5, <1>6, Zenon DEF ThreadsOf
<1>9. /\ c \in ThreadsOf({th.desired, th.kept, th.left, th.left - 1})
      /\ c.view = th.view /\ c.dirty = th.dirty /\ c.todo = th.todo \ {u}
  BY <1>5, <1>7, Zenon DEF ThreadsOf
<1>10. Less(th, a) /\ Less(th, t) /\ Less(th, c)
  BY <1>3, <1>5, <1>8, <1>9, ThreadIs, Zenon DEF Less
<1>11. GoesOn(th, MoreExcess(a)) /\ GoesOn(th, MoreExcess(t)) /\ GoesOn(th, MoreExcess(c))
  BY <1>10, MoreExcessGoesOn, SameSnapshot DEF Less
<1>12. DeletePod(u, MoreExcess(a), MoreExcess(t), MoreExcess(c))
  BY <1>1, <1>4, <1>6, <1>7, Zenon
<1> QED BY <1>2, <1>11, <1>12, DeletePodKeeps, Zenon

\* The worker starts on a list of which every unbound launcher that has not changed
\* since is unbound.
LEMMA ReconcileKeeps ==
    ASSUME PodInv, NEW view \in [Pods -> PodObjects], NEW dirty \in SUBSET Pods,
           Become(Reconcile(view, dirty)),
           \A u \in Unbound(view) \ dirty : pod[u] = view[u]
    PROVE  IsThread(th)' /\ SnapshotOK(th', pod)
<1>1. PICK t : t = [th EXCEPT !.view = view, !.dirty = dirty,
                              !.todo = {u \in Unbound(view) : view[u].hash # th.hash}]
  BY Zenon
<1>2. Unbound(view) \subseteq Pods
  BY Zenon DEF Unbound, Live
<1>3. /\ t \in ThreadsOf({th.desired, th.kept, th.left})
      /\ t.view = view /\ t.dirty = dirty /\ t.todo \subseteq Unbound(view)
  BY <1>1, <1>2, Zenon DEF PodInv, PodTypes, IsThread, ThreadsOf
<1>4. GoesOn(t, MoreStale(t))
  BY <1>3, ThreadIs, MoreStaleGoesOn, Zenon
<1>5. \A u \in Unbound(t.view) \ t.dirty : Intact(pod[u])
  BY <1>3, Zenon DEF Intact, Unbound, Live
<1>6. Become(MoreStale(t))
  BY <1>1, Zenon DEF Reconcile
<1>7. PICK ps : ps = pod
  BY Zenon
<1>8. IsThread(th)' /\ SnapshotOK(th', ps)
  BY <1>4, <1>5, <1>6, <1>7, BecomeKeeps, Zenon
<1> QED BY <1>7, <1>8, Zenon

LEMMA ListKeeps ==
    ASSUME PodInv, ListLaunchers
    PROVE  PodInv' /\ BoundStep
<1>1. UNCHANGED <<pod, cpod, stream>> /\ th.pc = "list"
  BY Zenon DEF ListLaunchers, WorkerFrame, NoPut
<1>2. PICK late \in SUBSET Pods :
         late = {stream[i].pod : i \in DOMAIN stream} \cap Unbound(cpod)
  BY Zenon DEF Unbound, Live
<1>3. \A u \in Unbound(cpod) \ late : pod[u] = cpod[u]
  <2>1. DOMAIN stream = 1..Len(stream)
    BY DEF PodInv, PodTypes
  <2> QED BY <1>2, <2>1, Zenon DEF PodInv, PodStreamOK, Unbound, Live
<1>4. /\ pod \in [Pods -> PodObjects] /\ cpod \in [Pods -> PodObjects]
  BY Zenon DEF PodInv, PodTypes
<1>5. \/ Become(Done) \/ Become(Requeue)
      \/ Become(Reconcile(cpod, late)) \/ Become(Reconcile(pod, {}))
  BY <1>2, Zenon DEF ListLaunchers
<1>6. IsThread(th)' /\ SnapshotOK(th', pod)
  <2>1. CASE Become(Done) \/ Become(Requeue)
    <3>1. th' = Idle
      BY <2>1, BecomeThrough, Zenon
    <3> QED BY <3>1, IdleOK, PodConstants, Zenon DEF IsThread
  <2>2. CASE Become(Reconcile(cpod, late))
    BY <1>3, <1>4, <2>2, ReconcileKeeps, Zenon
  <2>3. CASE Become(Reconcile(pod, {}))
    BY <1>4, <2>3, ReconcileKeeps, Zenon
  <2> QED BY <1>5, <2>1, <2>2, <2>3, Zenon
<1> QED BY <1>1, <1>6, Zenon DEF PodInv, PodTypes, PodStreamOK, SnapshotOK, BoundStep, Deletes

\* The phases in which the worker deletes nothing.
Quiet(t) == IsThread(t) /\ t.pc \notin {"stale", "excess"}

LEMMA QuietKeeps ==
    ASSUME PodStreamTypes', PodStreamOK', Quiet(th)', Quiet(th)
    PROVE  PodInv' /\ BoundStep
  BY Zenon DEF Quiet, PodInv, PodTypes, PodStreamTypes, SnapshotOK, BoundStep, Deletes

LEMMA BecomeQuiet ==
    ASSUME NEW n, Quiet(n), Become(n)
    PROVE  Quiet(th)'
<1>1. th' = Idle \/ th' = n
  BY Zenon DEF Become
<1> QED BY <1>1, PodConstants, Zenon DEF Quiet, IsThread

LEMMA NoPutKeeps ==
    ASSUME PodInv, NoPut, cpod' = cpod
    PROVE  PodStreamTypes' /\ PodStreamOK'
  BY Zenon DEF PodInv, PodTypes, PodStreamTypes, PodStreamOK, NoPut

LEMMA TakeKeyKeeps ==
    ASSUME PodInv, VersionTypes, TakeKey
    PROVE  PodInv' /\ BoundStep
<1>1. PICK h \in 0..MaxVer : h = IF dlc > 0 THEN dlc ELSE 0
  <2>1. (IF dlc > 0 THEN dlc ELSE 0) \in 0..MaxVer
    BY DigestConstants DEF VersionTypes, ConfigVersions, NoConfig, Malformed
  <2> QED BY <2>1, Zenon
<1>2. PICK d : d = entry.desired
  BY Zenon
<1>3. PICK b \in BOOLEAN : b = (dlc > 0 /\ \E p \in Policies : entry.refs[p] # NotWanted)
  BY Zenon
<1>4. th' = [Idle EXCEPT !.pc = "list", !.desired = d, !.hash = h, !.template = b]
  BY <1>1, <1>2, <1>3, Zenon DEF TakeKey
<1>5. th' \in ThreadsOf({d, 0}) /\ th'.pc = "list"
  BY <1>4, PodConstants, Zenon DEF Idle, ThreadsOf
<1>6. Quiet(th)'
  BY <1>5, ThreadIs, Zenon DEF Quiet, IsThread
<1>7. Quiet(th) /\ NoPut /\ cpod' = cpod
  BY Zenon DEF TakeKey, Quiet, PodInv, PodTypes, NoPut, WorkerFrame
<1> QED BY <1>6, <1>7, NoPutKeeps, QuietKeeps, Zenon

LEMMA ReportKeeps ==
    ASSUME PodInv, ReportStuckLauncher
    PROVE  PodInv' /\ BoundStep
<1>1. PICK u \in th.todo :
         LET t == [th EXCEPT !.todo = @ \ {u}] IN
         \/ /\ IF pod[u].st = "gone" THEN NoPut
               ELSE Put(u, [pod[u] EXCEPT !.stuck = ~th.view[u].stuck])
            /\ Become(MoreReports(t)) \/ Become(Requeue)
         \/ NoPut /\ Become(Requeue)
  BY Zenon DEF ReportStuckLauncher
<1>2. th \in ThreadsOf({th.desired, th.kept, th.left}) /\ th.pc = "report" /\ cpod' = cpod
  BY Zenon DEF PodInv, PodTypes, IsThread, ReportStuckLauncher, WorkerFrame
<1>3. PICK t : t = [th EXCEPT !.todo = @ \ {u}]
  BY Zenon
<1>4. t \in ThreadsOf({th.desired, th.kept, th.left}) /\ t.pc = "report"
  BY <1>2, <1>3, Zenon DEF ThreadsOf
<1>5. Quiet(MoreReports(t)) /\ Quiet(Requeue) /\ Quiet(th)
  BY <1>2, <1>4, ThreadIs, ToCreateGoesOn, PodConstants, Zenon DEF MoreReports, Quiet, GoesOn
<1>6. Quiet(th)'
  BY <1>1, <1>3, <1>5, BecomeQuiet, Zenon
<1>7. u \in Pods /\ [pod[u] EXCEPT !.stuck = ~th.view[u].stuck] \in PodObjects
  <2>1. u \in Pods /\ th.view[u].stuck \in BOOLEAN /\ pod[u] \in PodObjects
    BY <1>2, Zenon DEF ThreadsOf, PodInv, PodTypes, PodObjects
  <2>2. PICK x \in BOOLEAN : x = ~th.view[u].stuck
    BY Zenon
  <2>3. [pod[u] EXCEPT !.stuck = x] \in PodObjects
    BY <2>1, Zenon DEF PodObjects
  <2> QED BY <2>1, <2>2, <2>3, Zenon
<1>8. PodStreamTypes' /\ PodStreamOK'
  <2>1. CASE NoPut
    BY <1>2, <2>1, NoPutKeeps, Zenon
  <2>2. CASE Put(u, [pod[u] EXCEPT !.stuck = ~th.view[u].stuck])
    BY <1>2, <1>7, <2>2, PutKeeps, Zenon DEF PodInv, PodTypes, PodStreamTypes
  <2> QED BY <1>1, <2>1, <2>2, Zenon
<1> QED BY <1>5, <1>6, <1>8, QuietKeeps, Zenon

LEMMA CreateKeeps ==
    ASSUME PodInv, CreateLauncher
    PROVE  PodInv' /\ BoundStep
<1>1. th \in ThreadsOf({th.desired, th.kept, th.left}) /\ th.pc = "create" /\ cpod' = cpod
  BY Zenon DEF PodInv, PodTypes, IsThread, CreateLauncher, WorkerFrame
<1>2. PICK n : n = [th EXCEPT !.left = @ - 1]
  BY Zenon
<1>3. n \in ThreadsOf({th.desired, th.kept, th.left, th.left - 1}) /\ n.pc = "create"
  BY <1>1, <1>2, Zenon DEF ThreadsOf
<1>4. Quiet(n) /\ Quiet(Done) /\ Quiet(Requeue) /\ Quiet(th)
  BY <1>1, <1>3, ThreadIs, PodConstants, Zenon DEF Quiet
<1>5. Become(n) \/ Become(Done) \/ Become(Requeue)
  BY <1>2, Zenon DEF CreateLauncher
<1>6. Quiet(th)'
  BY <1>4, <1>5, BecomeQuiet, Zenon
<1>7. PICK new : new = [NoPod EXCEPT !.st = "live", !.hash = th.hash, !.ready = TRUE]
  BY Zenon
<1>8. new \in PodObjects
  BY <1>1, <1>7, PodConstants, Zenon DEF ThreadsOf, PodObjects
<1>9. [new EXCEPT !.ready = FALSE] \in PodObjects
  BY <1>8, Zenon DEF PodObjects
<1>10. NoPut \/ \E u \in Pods : Put(u, new) \/ Put(u, [new EXCEPT !.ready = FALSE])
  BY <1>7, Zenon DEF CreateLauncher
<1>11. PodStreamTypes' /\ PodStreamOK'
  <2>1. CASE NoPut
    BY <1>1, <2>1, NoPutKeeps, Zenon
  <2>2. CASE \E u \in Pods : Put(u, new) \/ Put(u, [new EXCEPT !.ready = FALSE])
    BY <1>1, <1>8, <1>9, <2>2, PutKeeps, Zenon DEF PodInv, PodTypes, PodStreamTypes
  <2> QED BY <1>10, <2>1, <2>2, Zenon
<1> QED BY <1>4, <1>6, <1>11, QuietKeeps, Zenon

\* A controller that is started anew has an idle worker and an up to date cache.
LEMMA StartedKeeps ==
    ASSUME PodInv, Started
    PROVE  PodInv' /\ BoundStep
<1>1. pod' = pod /\ cpod' = pod /\ stream' = <<>> /\ th' = Idle
  BY Zenon DEF Started
<1>2. Len(stream') = 0 /\ stream' \in Seq(PodEvents)
  BY <1>1
<1>3. PodStreamOK'
  BY <1>1, <1>2 DEF PodStreamOK
<1>4. PodTypes' /\ SnapshotOK(th, pod)'
  BY <1>1, <1>2, PodConstants, Zenon DEF PodInv, PodTypes, IsThread, SnapshotOK
<1>5. BoundStep
  BY <1>1, Zenon DEF BoundStep, Deletes
<1> QED BY <1>3, <1>4, <1>5, Zenon DEF PodInv

LEMMA PodInvInit == Init => PodInv
<1> SUFFICES ASSUME Init PROVE PodInv
  BY Zenon
<1>1. pod = NoView /\ cpod = NoView /\ stream = <<>> /\ th = Idle
  BY Zenon DEF Init
<1>2. Len(stream) = 0 /\ stream \in Seq(PodEvents)
  BY <1>1
<1>3. PodStreamOK
  BY <1>1, <1>2 DEF PodStreamOK
<1> QED BY <1>1, <1>2, <1>3, PodConstants, Zenon DEF PodInv, PodTypes, SnapshotOK

\* The steps of the populator, seen from the Pods.
LEMMA PodInvNext ==
    ASSUME PodInv, VersionTypes, [Next]_vars
    PROVE  PodInv' /\ BoundStep
<1>1. CASE UNCHANGED vars \/ (DigestNext /\ UNCHANGED <<podVars, keyVars>>) \/ ExpectationsExpire
  <2>1. UNCHANGED <<pod, cpod, stream, th>>
    BY <1>1, Zenon DEF vars, podVars, keyVars, ExpectationsExpire
  <2> QED BY <2>1, PodIdle, Zenon
<1>2. CASE DeliverPod
  <2>1. PodStreamTypes' /\ PodStreamOK' /\ th' = th /\ pod' = pod
    BY <1>2, DeliverPodKeeps, Zenon DEF PodInv, PodTypes, PodStreamTypes, DeliverPod, keyVars
  <2>2. SnapshotOK(th, pod)'
    BY <2>1, SnapshotKeeps, Zenon DEF PodInv
  <2> QED BY <2>1, <2>2, Zenon DEF PodInv, PodTypes, PodStreamTypes, IsThread, BoundStep
<1>3. CASE Started
  BY <1>3, StartedKeeps, Zenon
<1>4. CASE Cluster
  BY <1>4, ClusterKeeps, Zenon
<1>5. CASE Worker
  BY <1>3, <1>5, TakeKeyKeeps, ListKeeps, DeleteStaleKeeps, DeleteExcessKeeps, ReportKeeps,
     CreateKeeps, Zenon DEF Worker, CreateWithoutTemplate
<1> QED BY <1>1, <1>2, <1>3, <1>4, <1>5, Zenon DEF Next, RestartController


\* What the steps other than the digest's leave alone of it.
LEMMA NextFrame ==
    ASSUME [Next]_vars, ~DigestNext
    PROVE  Started \/ UNCHANGED digestState
<1>1. CASE UNCHANGED vars
  BY <1>1, Zenon DEF vars, digestVars, digestState, objects, informers, digest, Started
<1>2. CASE RestartController
  BY <1>2, Zenon DEF RestartController
<1>3. CASE Cluster
  <2>1. UNCHANGED <<objects, informers, news, digestQueue, batch, digest>>
    BY <1>3, Zenon DEF Cluster, ClusterFrame, BindLauncher, UnbindLauncher, CreateBoundLauncher,
       EvictLauncher, LauncherGone, LauncherReady, LauncherOverdue
  <2> QED BY <2>1, Zenon DEF digestState, objects, informers, digest
<1>4. CASE DeliverPod
  BY <1>4, Zenon DEF DeliverPod, digestState, objects, informers, digest
<1>5. CASE ExpectationsExpire
  BY <1>5, Zenon DEF ExpectationsExpire, digestState, objects, informers, digest
<1>6. CASE TakeKey \/ ListLaunchers \/ DeleteStale \/ DeleteExcess \/ ReportStuckLauncher
           \/ CreateLauncher
  <2>1. WorkerFrame
    BY <1>6, Zenon DEF TakeKey, ListLaunchers, DeleteStale, DeleteExcess, DeletePod, ReportStuckLauncher,
       CreateLauncher
  <2> QED BY <2>1, Zenon DEF WorkerFrame, digestState, objects, informers, digest
<1>7. CASE CreateWithoutTemplate
  BY <1>7, Zenon DEF CreateWithoutTemplate
<1> QED BY <1>1, <1>2, <1>3, <1>4, <1>5, <1>6, <1>7, Zenon DEF Next, Worker

LEMMA VersionsNext ==
    ASSUME VersionTypes, [Next]_vars
    PROVE  VersionTypes'
<1>1. ASSUME UNCHANGED <<lc, clc, dlc>> PROVE VersionTypes'
  BY <1>1, Zenon DEF VersionTypes
<1>2. CASE DigestNext
  <2>1. CASE EditConfig \/ SpoilConfig
    <3>1. \E v \in ConfigVersions : lc' = [ver |-> v, reported |-> FALSE]
      BY <2>1, Zenon DEF EditConfig, SpoilConfig, ConfigVersions
    <3>2. clc' = clc /\ dlc' = dlc
      BY <2>1, Zenon DEF EditConfig, SpoilConfig, Edit, informers, digest
    <3> QED BY <3>1, <3>2 DEF VersionTypes, ConfigObjects
  <2>2. CASE EditNode \/ \E p \in Policies : EditPolicy(p) \/ DeletePolicy(p) \/ CreatePolicy(p)
    BY <1>1, <2>2, Zenon
       DEF EditNode, EditPolicy, DeletePolicy, CreatePolicy, Edit, informers, digest
  <2>3. CASE \E o \in DigestItems : Deliver(o)
    BY <2>3, Zenon DEF Deliver, objects, digest, VersionTypes
  <2>4. CASE UpdateDigestForLC
    <3>1. clc' = clc /\ (dlc' = clc.ver \/ dlc' = dlc)
      BY <2>4, Zenon DEF UpdateDigestForLC, ReportStatus, informers, digest
    <3>2. lc' = lc \/ lc' = [lc EXCEPT !.reported = TRUE]
      BY <2>4, Zenon DEF UpdateDigestForLC, ReportStatus, objects
    <3> QED BY <3>1, <3>2, Zenon DEF VersionTypes, ConfigObjects
  <2>5. CASE UpdateDigestForNode
    BY <1>1, <2>5, Zenon DEF UpdateDigestForNode, objects, informers
  <2>6. ASSUME NEW p \in Policies, UpdateDigestForLPP(p) PROVE VersionTypes'
    BY <1>1, <2>6, Zenon DEF UpdateDigestForLPP, ReportStatus, informers, digest
  <2> QED BY <1>2, <2>1, <2>2, <2>3, <2>4, <2>5, <2>6, Zenon DEF DigestNext, DigestWork
<1>3. CASE Started
  BY <1>3, NoEntryTypes, Zenon DEF Started, DigestStart, objects, VersionTypes
<1>4. CASE ~DigestNext /\ ~Started
  <2>1. UNCHANGED digestState
    BY <1>4, NextFrame, Zenon
  <2> QED BY <1>1, <2>1, Zenon DEF digestState
<1> QED BY <1>2, <1>3, <1>4, Zenon

\* The populator never deletes a launcher that is bound, however late its informers
\* are and whatever the dual-pods controller does between the list and the Delete
\* (reconcileKey, with the preconditions of its Delete calls).
THEOREM BoundLaunchersAreKept == Spec => BoundKept
<1>1. Init => PodInv /\ VersionTypes
  <2>1. Init => VersionTypes
    BY DigestConstants, NoEntryTypes
       DEF Init, DigestInit, VersionTypes, ConfigObjects, ConfigVersions
  <2> QED BY <2>1, PodInvInit, Zenon
<1>2. PodInv /\ VersionTypes /\ [Next]_vars => (PodInv /\ VersionTypes)'
  BY PodInvNext, VersionsNext, Zenon
<1>3. PodInv /\ VersionTypes /\ [Next]_vars
         => [\A u \in Pods : Deletes(u) /\ th' # th => ~pod[u].bound]_vars
  BY PodInvNext, Zenon DEF BoundStep
<1> QED BY <1>1, <1>2, <1>3, PTL DEF Spec, BoundKept

\* The digest of the populator as a whole, its restarts included, agrees with the API
\* objects once everything is delivered and digested, under the same condition.
THEOREM PopulatorDigestIsRight == Spec /\ FreshNames => []DigestAgrees
<1>1. DigestInv /\ [Next]_vars /\ [\A p \in Policies : Fresh(p)]_digestVars => DigestInv'
  <2> SUFFICES ASSUME DigestInv, [Next]_vars, [\A p \in Policies : Fresh(p)]_digestVars
               PROVE  DigestInv'
    BY Zenon
  <2>1. CASE DigestNext
    BY <2>1, DigestInvNext, FreshStep, Zenon
  <2>2. CASE ~DigestNext /\ Started
    <3>1. UNCHANGED objects /\ DigestStart
      BY <2>2, Zenon DEF Started
    <3> QED BY <3>1, DigestInvStart, Zenon
  <2>3. CASE ~DigestNext /\ ~Started
    BY <2>3, NextFrame, DigestIdle, Zenon
  <2> QED BY <2>1, <2>2, <2>3, Zenon
<1>2. Init => DigestInv
  BY DigestInvInit, Zenon DEF Init
<1> QED BY <1>1, <1>2, DigestInvAgrees, PTL DEF Spec, FreshNames
===============================================================================
