---------------------------- MODULE DualPodsProofs ----------------------------
(* Proofs about DualPods, for every number of requesters, launchers and        *)
(* InferenceServerConfigs, every lag of the informer and every disruption.     *)
EXTENDS DualPodsTypeProofs

------------------------------------------------------------------------------
(* The informer cache is coherent.                                             *)

\* What a step may do to the API server's Pods and to the informer cache.
CacheStep ==
    \/ UNCHANGED <<req, lp, stream, creq, clp>>
    \/ \E r \in Requesters : \E o : PutReq(r, o) /\ UNCHANGED <<creq, clp>>
    \/ \E l \in Launchers : \E o : PutLp(l, o) /\ UNCHANGED <<creq, clp>>
    \/ DeliverPod
    \/ RestartController

LEMMA CoherentPutReq ==
    ASSUME TypeInv, CacheCoherent, NEW r \in Requesters, NEW o \in ReqPod, PutReq(r, o),
           UNCHANGED <<creq, clp>>
    PROVE  CacheCoherent'
PROOF
  <1> DEFINE n == Len(stream)
             e == [pod |-> r, obj |-> o]
  <1>1. n \in Nat /\ stream \in Seq(Events) /\ e \in Events /\ stream' = Append(stream, e)
    BY TypeParts, SMTT(30) DEF ApiOK, PutReq, Events
  <1>2. /\ Len(stream') = n + 1 /\ stream'[n + 1] = e
        /\ \A k \in 1..n : stream'[k] = stream[k]
    BY <1>1
  <1>3. req' = [req EXCEPT ![r] = o] /\ lp' = lp /\ req \in [Requesters -> ReqPod]
    BY TypeParts, Zenon DEF ApiOK, PutReq
  <1>4. r \notin Launchers
    BY ConstantsOK, Zenon
  <1> HIDE DEF n
  <1>5. ASSUME NEW k \in 1..(n + 1),
               \A m \in 1..(n + 1) : m > k => stream'[m].pod # stream'[k].pod
        PROVE  /\ stream'[k].pod \in Requesters => stream'[k].obj = req'[stream'[k].pod]
               /\ stream'[k].pod \in Launchers => stream'[k].obj = lp'[stream'[k].pod]
    <2>1. CASE k = n + 1
      BY <1>2, <1>3, <1>4, <2>1, SMTT(30)
    <2>2. CASE k \in 1..n
      <3>1. stream'[k] = stream[k] /\ stream[k].pod # r
        BY <1>1, <1>2, <1>5, <2>2, SMTT(30)
      <3>2. \A m \in 1..n : m > k => stream[m].pod # stream[k].pod
        BY <1>1, <1>2, <1>5, <2>2
      <3> QED
        BY <1>3, <2>2, <3>1, <3>2, Zenon DEF CacheCoherent, n
    <2>3. k = n + 1 \/ k \in 1..n
      BY <1>1, SMTT(30)
    <2> QED
      BY <2>1, <2>2, <2>3, Zenon
  <1>6. Pending' = Pending \cup {r}
    <2>1. Pending' = {stream'[k].pod : k \in 1..(n + 1)}
      BY <1>2, Zenon DEF Pending
    <2>2. 1..(n + 1) = (1..n) \cup {n + 1}
      BY <1>1, SMTT(30)
    <2> QED
      BY <1>2, <2>1, <2>2, SMTT(30) DEF Pending, n
  <1> QED
    BY <1>2, <1>3, <1>4, <1>5, <1>6, Zenon DEF CacheCoherent

LEMMA CoherentPutLp ==
    ASSUME TypeInv, CacheCoherent, NEW l \in Launchers, NEW o \in LaunPod, PutLp(l, o),
           UNCHANGED <<creq, clp>>
    PROVE  CacheCoherent'
PROOF
  <1> DEFINE n == Len(stream)
             e == [pod |-> l, obj |-> o]
  <1>1. n \in Nat /\ stream \in Seq(Events) /\ e \in Events /\ stream' = Append(stream, e)
    BY TypeParts DEF ApiOK, PutLp, Events
  <1>2. /\ Len(stream') = n + 1 /\ stream'[n + 1] = e
        /\ \A k \in 1..n : stream'[k] = stream[k]
    BY <1>1
  <1>3. lp' = [lp EXCEPT ![l] = o] /\ req' = req /\ lp \in [Launchers -> LaunPod]
    BY TypeParts, Zenon DEF ApiOK, PutLp
  <1>4. l \notin Requesters
    BY ConstantsOK, Zenon
  <1> HIDE DEF n
  <1>5. ASSUME NEW k \in 1..(n + 1),
               \A m \in 1..(n + 1) : m > k => stream'[m].pod # stream'[k].pod
        PROVE  /\ stream'[k].pod \in Requesters => stream'[k].obj = req'[stream'[k].pod]
               /\ stream'[k].pod \in Launchers => stream'[k].obj = lp'[stream'[k].pod]
    <2>1. CASE k = n + 1
      BY <1>2, <1>3, <1>4, <2>1, SMTT(30)
    <2>2. CASE k \in 1..n
      <3>1. stream'[k] = stream[k] /\ stream[k].pod # l
        BY <1>1, <1>2, <1>5, <2>2
      <3>2. \A m \in 1..n : m > k => stream[m].pod # stream[k].pod
        BY <1>1, <1>2, <1>5, <2>2
      <3> QED
        BY <1>3, <2>2, <3>1, <3>2, Zenon DEF CacheCoherent, n
    <2>3. k = n + 1 \/ k \in 1..n
      BY <1>1
    <2> QED
      BY <2>1, <2>2, <2>3, Zenon
  <1>6. Pending' = Pending \cup {l}
    <2>1. Pending' = {stream'[k].pod : k \in 1..(n + 1)}
      BY <1>2 DEF Pending
    <2>2. 1..(n + 1) = (1..n) \cup {n + 1}
      BY <1>1
    <2> QED
      BY <1>2, <2>1, <2>2 DEF Pending, n
  <1> QED
    BY <1>2, <1>3, <1>4, <1>5, <1>6, ZenonT(40) DEF CacheCoherent

LEMMA CoherentDeliverPod ==
    ASSUME TypeInv, CacheCoherent, DeliverPod
    PROVE  CacheCoherent'
PROOF
  <1> DEFINE n == Len(stream)
             e == Head(stream)
  <1>1. stream \in Seq(Events) /\ stream # <<>> /\ stream' = Tail(stream)
    BY TypeParts, Zenon DEF ApiOK, DeliverPod
  <1>2. n \in Nat /\ n > 0 /\ e = stream[1]
    BY <1>1
  <1>3. Len(stream') = n - 1 /\ \A k \in 1..(n - 1) : stream'[k] = stream[k + 1]
    BY <1>1, <1>2, SMTT(30)
  <1>4. /\ creq' = IF e.pod \in Requesters THEN [creq EXCEPT ![e.pod] = e.obj] ELSE creq
        /\ clp' = IF e.pod \in Launchers THEN [clp EXCEPT ![e.pod] = e.obj] ELSE clp
        /\ req' = req /\ lp' = lp
        /\ creq \in [Requesters -> ReqPod] /\ clp \in [Launchers -> LaunPod]
    BY TypeParts, Zenon DEF DeliverPod, CacheOK
  <1> HIDE DEF n, e
  <1>5. ASSUME NEW k \in 1..(n - 1),
               \A m \in 1..(n - 1) : m > k => stream'[m].pod # stream'[k].pod
        PROVE  /\ stream'[k].pod \in Requesters => stream'[k].obj = req'[stream'[k].pod]
               /\ stream'[k].pod \in Launchers => stream'[k].obj = lp'[stream'[k].pod]
    <2>1. k + 1 \in 1..n /\ stream'[k] = stream[k + 1]
      BY <1>2, <1>3
    <2>2. ASSUME NEW m \in 1..n, m > k + 1
          PROVE  stream[m].pod # stream[k + 1].pod
      <3>1. m - 1 \in 1..(n - 1) /\ m - 1 > k /\ (m - 1) + 1 = m
        BY <1>2, <2>2
      <3> QED
        BY <1>3, <1>5, <2>1, <3>1, Zenon
    <2> QED
      BY <1>4, <2>1, <2>2 DEF CacheCoherent, n
  <1>6. ASSUME NEW p, p \notin Pending'
        PROVE  \A k \in 1..n : k > 1 => stream[k].pod # p
    <2> SUFFICES ASSUME NEW k \in 1..n, k > 1 PROVE stream[k].pod # p
      BY Zenon
    <2>1. k - 1 \in 1..(n - 1) /\ (k - 1) + 1 = k
      BY <1>2
    <2> QED
      BY <1>3, <1>6, <2>1, Zenon DEF Pending
  <1>7. ASSUME NEW p, p \notin Pending', p # e.pod
        PROVE  p \notin Pending
    <2>1. \A k \in 1..n : k = 1 \/ k > 1
      BY <1>2
    <2> QED
      BY <1>2, <1>6, <1>7, <2>1, ZenonT(40) DEF Pending, n
  <1>8. ASSUME e.pod \notin Pending'
        PROVE  /\ e.pod \in Requesters => e.obj = req[e.pod]
               /\ e.pod \in Launchers => e.obj = lp[e.pod]
    BY <1>2, <1>6, <1>8, SMTT(30) DEF CacheCoherent, n
  <1>9. \A r \in Requesters \ Pending' : creq'[r] = req'[r]
    BY <1>4, <1>7, <1>8, Zenon DEF CacheCoherent
  <1>10. \A l \in Launchers \ Pending' : clp'[l] = lp'[l]
    BY <1>4, <1>7, <1>8, Zenon DEF CacheCoherent
  <1> QED
    BY <1>3, <1>5, <1>9, <1>10, ZenonT(40) DEF CacheCoherent

\* The informer cache is a prefix of the history of the API server.
LEMMA CacheStepCoherent ==
    ASSUME TypeInv, TypeInv', CacheCoherent, CacheStep
    PROVE  CacheCoherent'
PROOF
  <1>1. CASE UNCHANGED <<req, lp, stream, creq, clp>>
    BY <1>1 DEF CacheCoherent, Pending
  <1>2. ASSUME NEW r \in Requesters, NEW o, PutReq(r, o), UNCHANGED <<creq, clp>>
        PROVE  CacheCoherent'
    <2>1. o \in ReqPod
      BY <1>2, Zenon DEF PutReq, TypeInv, TypeOK
    <2> QED
      BY <1>2, <2>1, CoherentPutReq, Zenon
  <1>3. ASSUME NEW l \in Launchers, NEW o, PutLp(l, o), UNCHANGED <<creq, clp>>
        PROVE  CacheCoherent'
    <2>1. o \in LaunPod
      BY <1>3, Zenon DEF PutLp, TypeInv, TypeOK
    <2> QED
      BY <1>3, <2>1, CoherentPutLp
  <1>4. CASE RestartController
    BY <1>4, SMTT(30) DEF RestartController, CacheCoherent, Pending
  <1> QED
    BY <1>1, <1>2, <1>3, <1>4, CoherentDeliverPod, Zenon DEF CacheStep

LEMMA UpdateCacheStep ==
    /\ \A r \in Requesters : \A o, s0, s1, t : Update(r, PutReq(r, o), s0, s1, t) => CacheStep
    /\ \A l \in Launchers : \A o, s0, s1, t : Update(l, PutLp(l, o), s0, s1, t) => CacheStep
PROOF
  BY ZenonT(40) DEF Update, CacheStep, api, cache

LEMMA DeleteCacheStep ==
    /\ \A r \in Requesters : DeleteReq(r) /\ UNCHANGED cache => CacheStep
    /\ \A r \in Requesters : \A rv, s0, s1, t : DeleteRequester(r, rv, s0, s1, t) => CacheStep
PROOF
  BY ZenonT(40) DEF DeleteReq, DeleteRequester, CacheStep, api, cache

LEMMA QuietCacheStep ==
    UNCHANGED <<api, cache>> => CacheStep
PROOF
  BY Zenon DEF CacheStep, api, cache

LEMMA WorkerCacheStep ==
    ASSUME TypeInv, WorkerStep
    PROVE  CacheStep
PROOF
  <1>1. /\ th.pc # "idle" => me \in Requesters
        /\ th.pc \in RequesterSteps => th.rqn \in Requesters
        /\ th.pc \in ProviderSteps => th.pvn \in Launchers
    BY WorkerObjects, Zenon DEF Equipped, me
  <1>2. CASE RemoveRequesterFinalizer \/ AddRequesterFinalizer \/ EnsureReqState
    <2>1. th.rqn \in Requesters
      BY <1>1, <1>2, Zenon
      DEF RemoveRequesterFinalizer, AddRequesterFinalizer, EnsureReqState, RequesterSteps, Steps
    <2> QED
      BY <1>2, <2>1, UpdateCacheStep, QuietCacheStep, Zenon
      DEF RemoveRequesterFinalizer, AddRequesterFinalizer, EnsureReqState, CacheStep, cache
  <1>3. CASE DeleteRequesterOfGoneProvider \/ DeleteRequesterOfStoppedInstance
             \/ DeleteRequesterOfInvalidMetadata
    BY <1>1, <1>3, DeleteCacheStep, Zenon
    DEF DeleteRequesterOfGoneProvider, DeleteRequesterOfStoppedInstance,
        DeleteRequesterOfInvalidMetadata, RequesterSteps, Steps
  <1>4. CASE DeleteRequesterOnCordonedNode
    BY <1>4, DeleteCacheStep, QuietCacheStep, Zenon DEF DeleteRequesterOnCordonedNode
  <1>5. CASE RemoveProviderFinalizer \/ RemoveRoutingLabels \/ Unbind \/ ApplyLabels \/ Bind
    <2>1. th.pvn \in Launchers
      BY <1>1, <1>5, Zenon
      DEF RemoveProviderFinalizer, RemoveRoutingLabels, Unbind, ApplyLabels, Bind, ProviderSteps
    <2> QED
      BY <1>5, <2>1, UpdateCacheStep, QuietCacheStep, Zenon
      DEF RemoveProviderFinalizer, RemoveRoutingLabels, Unbind, ApplyLabels, Bind
  <1>6. CASE DeleteTroubledProvider
    <2>1. th.pvn \in Launchers
      BY <1>1, <1>6, Zenon DEF DeleteTroubledProvider, ProviderSteps
    <2> QED
      BY <1>6, <2>1, Zenon DEF DeleteTroubledProvider, CacheStep, api, cache
  <1>7. CASE CreateLauncher
    BY <1>7, Zenon DEF CreateLauncher, CacheStep, api, cache
  <1>8. CASE FetchGpus \/ PutToSleep \/ SyncBoundLauncher \/ CreateInstance \/ QuerySleeping
             \/ WakeUp \/ RelayReadiness \/ SelectOrReclaimLauncher
    BY <1>8, QuietCacheStep, Zenon
    DEF FetchGpus, PutToSleep, DeleteObsolete, SyncBoundLauncher, CreateInstance, QuerySleeping,
        WakeUp, RelayReadiness, SelectOrReclaimLauncher, HttpCall
  <1> QED
    BY <1>2, <1>3, <1>4, <1>5, <1>6, <1>7, <1>8, Zenon DEF WorkerStep

LEMMA NextCacheStep ==
    ASSUME TypeInv, Next
    PROVE  CacheStep
PROOF
  <1>1. ASSUME \/ \E r \in Requesters : TakeInfSvrItem(r)
               \/ \E c \in Iscs : DeliverIsc(c) \/ ProcessInstanceGCItem(c) \/ EditIsc(c)
               \/ \E l \in Launchers : ProcessLauncherItem(l)
               \/ \E l \in Launchers, i \in InstanceIDs : VllmServes(l, i) \/ VllmDies(l, i)
               \/ NodeTrouble
        PROVE  CacheStep
    BY <1>1, Zenon
    DEF TakeInfSvrItem, DeliverIsc, ProcessInstanceGCItem, EditIsc, ProcessLauncherItem,
                VllmServes, VllmDies, NodeTrouble, CacheStep, api, cache, ctl
  <1>2. ASSUME NEW r \in Requesters,
               \/ CreateRequester(r) \/ RequesterStatus(r)
               \/ UserDeletesRequester(r) \/ RequesterGone(r)
        PROVE  CacheStep
    BY <1>2, Zenon DEF CreateRequester, RequesterStatus, UserDeletesRequester, RequesterGone, CacheStep,
                cache, ctl
  <1>3. ASSUME NEW l \in Launchers,
               \/ PopulateLauncher(l) \/ LauncherStatus(l) \/ LauncherStops(l)
               \/ DeleteLauncher(l) \/ LauncherGone(l)
        PROVE  CacheStep
    BY <1>3, Zenon DEF PopulateLauncher, LauncherStatus, LauncherStops, DeleteLauncher, LauncherGone,
                CacheStep, cache, ctl
  <1>4. CASE DeliverPod \/ RestartController
    BY <1>4, Zenon DEF CacheStep
  <1> QED
    BY <1>1, <1>2, <1>3, <1>4, WorkerCacheStep, Zenon DEF Next

------------------------------------------------------------------------------
(* A launcher Pod is bound, and stays bound until it is unbound.               *)

\* What a step may do to a launcher Pod: o before, n after.
LauncherStep(o, n) ==
    \/ n = o
    \/ /\ n.st # "none"
       /\ o.bound # None => \/ n.bound = None /\ n.iid = None
                            \/ n.bound = o.bound /\ n.iid = o.iid

LEMMA OneLauncherWritten ==
    ASSUME TypeInv, NEW l \in Launchers, NEW o, PutLp(l, o), LauncherStep(lp[l], o)
    PROVE  \A m \in Launchers : LauncherStep(lp[m], lp'[m])
PROOF
  BY ZenonT(40) DEF TypeInv, TypeOK, PutLp, LauncherStep

LEMMA OneLauncherUpdated ==
    ASSUME TypeInv, NEW l \in Launchers, NEW o, NEW s0, NEW s1, NEW t,
           Update(l, PutLp(l, o), s0, s1, t), l \notin th.dirty => LauncherStep(lp[l], o)
    PROVE  \A m \in Launchers : LauncherStep(lp[m], lp'[m])
PROOF
  <1>1. CASE UNCHANGED api
    BY <1>1, Zenon DEF api, LauncherStep
  <1> QED
    BY <1>1, OneLauncherWritten, ZenonT(40) DEF Update

\* A write that leaves the binding alone, on a Pod that exists.
LEMMA BindingKept ==
    ASSUME NEW o \in LaunPod, o.st # "none"
    PROVE  /\ \A b \in BOOLEAN : LauncherStep(o, [o EXCEPT !.fin = b])
           /\ \A b \in BOOLEAN : LauncherStep(o, [o EXCEPT !.routed = b])
           /\ \A p \in Phases : LauncherStep(o, [o EXCEPT !.phase = p])
           /\ LauncherStep(o, [o EXCEPT !.st = "gone"])
           /\ LauncherStep(o, Deleting(o))
           /\ LauncherStep(o, Unbound(o))
           /\ \A b \in BOOLEAN : LauncherStep(o, [o EXCEPT !.lab = "false", !.routed = b])
           /\ o.bound = None =>
                \A r \in Requesters : \A i : LauncherStep(o, Bound(o, r, i))
PROOF
  BY Zenon DEF LaunPod, LauncherStep, Deleting, Unbound, Bound

LEMMA NewLauncher ==
    /\ LauncherStep(NoLp, [NoLp EXCEPT !.st = "live"])
    /\ \A r, i : LauncherStep(NoLp, Bound([NoLp EXCEPT !.st = "live"], r, i))
PROOF
  BY Zenon DEF NoLp, LauncherStep, Bound

\* The snapshot the worker writes over.
LEMMA SnapshotFacts ==
    ASSUME BindingInv, th.pc \in ProviderSteps
    PROVE  /\ th.pvn \in Launchers /\ th.pv \in LaunPod /\ th.pv.st # "none"
           /\ th.pvn \notin th.dirty => th.pv = lp[th.pvn]
PROOF
  BY ZenonT(40) DEF BindingInv, ProviderFresh, Equipped, Exists, TypeOK, Thread

LEMMA WorkerLauncherStep ==
    ASSUME BindingInv, WorkerStep
    PROVE  \A l \in Launchers : LauncherStep(lp[l], lp'[l])
PROOF
  <1>0. TypeInv
    BY Zenon DEF BindingInv, TypeInv
  <1>1. ASSUME th.pc \in ProviderSteps, NEW o, LauncherStep(th.pv, o)
        PROVE  th.pvn \in Launchers /\ (th.pvn \notin th.dirty => LauncherStep(lp[th.pvn], o))
    BY <1>1, SnapshotFacts, Zenon
  <1>2. CASE lp' = lp
    BY <1>2, Zenon DEF LauncherStep
  <1>3. CASE RemoveProviderFinalizer
    <2>1. th.pc \in ProviderSteps
      BY <1>3, Zenon DEF RemoveProviderFinalizer, ProviderSteps
    <2>2. LauncherStep(th.pv, [th.pv EXCEPT !.fin = FALSE])
      BY <2>1, SnapshotFacts, BindingKept, Zenon
    <2> QED
      BY <1>0, <1>1, <1>2, <1>3, <2>1, <2>2, OneLauncherUpdated, Zenon DEF RemoveProviderFinalizer, api
  <1>4. CASE DeleteTroubledProvider
    <2>1. th.pc \in ProviderSteps
      BY <1>4, Zenon DEF DeleteTroubledProvider, ProviderSteps
    <2>2. LauncherStep(th.pv, Deleting(th.pv))
      BY <2>1, SnapshotFacts, BindingKept, Zenon
    <2> QED
      BY <1>0, <1>1, <1>2, <1>4, <2>1, <2>2, OneLauncherWritten, Zenon DEF DeleteTroubledProvider, api
  <1>5. CASE RemoveRoutingLabels
    <2>1. th.pc \in ProviderSteps
      BY <1>5, Zenon DEF RemoveRoutingLabels, ProviderSteps
    <2>2. LauncherStep(th.pv, [th.pv EXCEPT !.routed = FALSE])
      BY <2>1, SnapshotFacts, BindingKept, ZenonT(40)
    <2> QED
      BY <1>0, <1>1, <1>2, <1>5, <2>1, <2>2, OneLauncherUpdated, Zenon DEF RemoveRoutingLabels, api
  <1>6. CASE Unbind
    <2>1. th.pc \in ProviderSteps
      BY <1>6, Zenon DEF Unbind, ProviderSteps
    <2>2. LauncherStep(th.pv, Unbound(th.pv))
      BY <2>1, SnapshotFacts, BindingKept, Zenon
    <2> QED
      BY <1>0, <1>1, <1>6, <2>1, <2>2, OneLauncherUpdated, ZenonT(40) DEF Unbind
  <1>7. CASE ApplyLabels
    <2>1. th.pc \in ProviderSteps
      BY <1>7, Zenon DEF ApplyLabels, ProviderSteps
    <2> DEFINE b == th.pv.routed \/ ~sd[me].labels
    <2>2. LauncherStep(th.pv, [th.pv EXCEPT !.lab = "false", !.routed = b])
      BY <2>1, SnapshotFacts, BindingKept, Zenon
    <2>3. \/ lp' = lp
          \/ \E t, s1 : Update(th.pvn, PutLp(th.pvn, [th.pv EXCEPT !.lab = "false", !.routed = b]),
                               sd[me], s1, t)
      <3>1. th.pv \in LaunPod
        BY <2>1, SnapshotFacts, Zenon
      <3>2. [th.pv EXCEPT !.lab = "false", !.routed = b]
              = [th.pv EXCEPT !.lab = "false", !.routed = @ \/ ~sd[me].labels]
        BY <3>1, Zenon DEF LaunPod
      <3> HIDE DEF b
      <3> QED
        BY <1>7, <3>2, Zenon DEF ApplyLabels, api
    <2> HIDE DEF b
    <2> QED
      BY <1>0, <1>1, <1>2, <2>1, <2>2, <2>3, OneLauncherUpdated, Zenon
  <1>8. CASE Bind
    <2>1. th.pc \in ProviderSteps /\ th.rqn \in Requesters /\ th.pv.bound = None
      BY <1>8, Zenon DEF Bind, ProviderSteps, RequesterSteps, Steps, BindingInv, Equipped
    <2>2. LauncherStep(th.pv, Bound(th.pv, th.rqn, th.want))
      BY <2>1, SnapshotFacts, BindingKept, Zenon
    <2> QED
      BY <1>0, <1>1, <1>8, <2>1, <2>2, OneLauncherUpdated, Zenon DEF Bind
  <1>9. CASE CreateLauncher
    <2>1. \A l \in Launchers : lp[l].st = "none" =>
            LauncherStep(lp[l], Bound([NoLp EXCEPT !.st = "live"], th.rqn, th.want))
      BY NewLauncher, InitialObjects, Zenon DEF BindingInv
    <2> QED
      BY <1>0, <1>2, <1>9, <2>1, OneLauncherWritten, Zenon DEF CreateLauncher, api
  <1>10. CASE RemoveRequesterFinalizer \/ AddRequesterFinalizer \/ EnsureReqState
             \/ DeleteRequesterOfGoneProvider \/ DeleteRequesterOfStoppedInstance
             \/ DeleteRequesterOfInvalidMetadata \/ DeleteRequesterOnCordonedNode
    BY <1>10, <1>2, ZenonT(40)
    DEF RemoveRequesterFinalizer, AddRequesterFinalizer, EnsureReqState,
        DeleteRequesterOfGoneProvider, DeleteRequesterOfStoppedInstance,
        DeleteRequesterOfInvalidMetadata, DeleteRequesterOnCordonedNode, Update, DeleteRequester,
        DeleteReq, PutReq, api
  <1>11. CASE FetchGpus \/ PutToSleep \/ SyncBoundLauncher \/ CreateInstance \/ QuerySleeping
             \/ WakeUp \/ RelayReadiness \/ SelectOrReclaimLauncher
    BY <1>11, <1>2, ZenonT(40)
    DEF FetchGpus, PutToSleep, DeleteObsolete, SyncBoundLauncher, CreateInstance, QuerySleeping,
        WakeUp, RelayReadiness, SelectOrReclaimLauncher, HttpCall, api
  <1> QED
    BY <1>3, <1>4, <1>5, <1>6, <1>7, <1>8, <1>9, <1>10, <1>11, Zenon DEF WorkerStep

LEMMA NextLauncherStep ==
    ASSUME BindingInv, Next
    PROVE  \A l \in Launchers : LauncherStep(lp[l], lp'[l])
PROOF
  <1>0. TypeInv /\ lp \in [Launchers -> LaunPod]
    BY Zenon DEF BindingInv, TypeInv, TypeOK
  <1>1. CASE lp' = lp
    BY <1>1 DEF LauncherStep
  <1>2. ASSUME NEW l \in Launchers,
               \/ PopulateLauncher(l) \/ LauncherStatus(l) \/ LauncherStops(l)
               \/ DeleteLauncher(l) \/ LauncherGone(l)
        PROVE  \E o : PutLp(l, o) /\ LauncherStep(lp[l], o)
    <2>1. CASE PopulateLauncher(l)
      BY <2>1, NewLauncher, InitialObjects, Zenon DEF PopulateLauncher, BindingInv
    <2>2. CASE LauncherStatus(l) \/ LauncherStops(l) \/ DeleteLauncher(l) \/ LauncherGone(l)
      <3>1. lp[l].st # "none"
        BY <2>2, Zenon DEF LauncherStatus, LauncherStops, DeleteLauncher, LauncherGone, Exists
      <3>2. /\ \A p \in Phases : LauncherStep(lp[l], [lp[l] EXCEPT !.phase = p])
            /\ LauncherStep(lp[l], [lp[l] EXCEPT !.st = "gone"])
            /\ LauncherStep(lp[l], Deleting(lp[l]))
        BY <1>0, <3>1, BindingKept, ZenonT(40)
      <3> QED
        BY <2>2, <3>2, Zenon DEF LauncherStatus, LauncherStops, DeleteLauncher, LauncherGone, Phases
    <2> QED
      BY <1>2, <2>1, <2>2, Zenon
  <1>3. ASSUME \/ \E r \in Requesters :
                    \/ CreateRequester(r) \/ RequesterStatus(r)
                    \/ UserDeletesRequester(r) \/ RequesterGone(r)
               \/ \E r \in Requesters : TakeInfSvrItem(r)
               \/ \E c \in Iscs : DeliverIsc(c) \/ ProcessInstanceGCItem(c) \/ EditIsc(c)
               \/ \E l \in Launchers : ProcessLauncherItem(l)
               \/ \E l \in Launchers, i \in InstanceIDs : VllmServes(l, i) \/ VllmDies(l, i)
               \/ NodeTrouble \/ DeliverPod \/ RestartController
        PROVE  lp' = lp
    BY <1>3, Zenon DEF CreateRequester, RequesterStatus, UserDeletesRequester, RequesterGone,
                TakeInfSvrItem, DeliverIsc, ProcessInstanceGCItem, EditIsc, ProcessLauncherItem,
                VllmServes, VllmDies, NodeTrouble, DeliverPod, RestartController, PutReq, api
  <1> QED
    BY <1>0, <1>1, <1>2, <1>3, WorkerLauncherStep, OneLauncherWritten, Zenon DEF Next

------------------------------------------------------------------------------
(* The worker's snapshot of the provider is fresh unless marked dirty.         *)

FreshSteps == ProviderSteps \cup {"gpus"}

\* What BindingInv says of thread t when the launcher Pods are ls.
SnapshotOK(t, ls) ==
    /\ t.pc \in FreshSteps /\ t.pvn \in Launchers \ t.dirty => t.pv = ls[t.pvn]
    /\ t.pc = "bind" => t.pv.bound = None

\* Threads that make no claim, and threads that make no new one.
Released(t) == t.pc \notin FreshSteps
Carried(t) ==
    /\ th.pc \in FreshSteps /\ t.pc # "bind"
    /\ t.pvn = th.pvn /\ t.pv = th.pv /\ t.dirty = th.dirty

LEMMA ReleasedThreads ==
    /\ Released(Idle)
    /\ \A t \in Thread : \A fin, rpt, next : Released(ReqState(t, fin, rpt, next))
    /\ \A t \in Thread : Released(AfterReqState(t))
PROOF
  BY Zenon DEF Released, FreshSteps, ProviderSteps, Idle, ReqState, AfterReqState, Thread

LEMMA ReleasedOrCarried ==
    ASSUME SnapshotOK(th, lp), lp' = lp, Released(th') \/ Carried(th')
    PROVE  SnapshotOK(th, lp)'
PROOF
  BY Zenon DEF SnapshotOK, Released, Carried, FreshSteps, ProviderSteps

LEMMA ReleasedOK ==
    ASSUME Released(th')
    PROVE  SnapshotOK(th, lp)'
PROOF
  BY Zenon DEF SnapshotOK, Released, FreshSteps, ProviderSteps

LEMMA UpdatedReq ==
    ASSUME NEW r, NEW o, NEW s0, NEW s1, NEW t, Update(r, PutReq(r, o), s0, s1, t)
    PROVE  lp' = lp /\ th' \in {Idle, t}
PROOF
  BY Zenon DEF Update, PutReq, Advance, Retry, api

LEMMA DeletedRequester ==
    ASSUME NEW r, NEW rv, NEW s0, NEW s1, NEW t, DeleteRequester(r, rv, s0, s1, t)
    PROVE  lp' = lp /\ th' \in {Idle, t}
PROOF
  BY Zenon DEF DeleteRequester, DeleteReq, PutReq, Advance, Retry, api

LEMMA HttpCalled ==
    ASSUME NEW ok, NEW is, NEW s0, NEW s1, NEW t, HttpCall(ok, is, s0, s1, t)
    PROVE  lp' = lp /\ th' \in {Idle, t}
PROOF
  BY Zenon DEF HttpCall, Advance, Retry, api

LEMMA CarriedGoto ==
    ASSUME th \in Thread, th.pc \in FreshSteps, NEW pc \in Steps \ {"bind"}
    PROVE  Carried(Goto(pc))
PROOF
  BY Zenon DEF Carried, Goto, Thread

LEMMA ProceedCarried ==
    ASSUME th \in Thread, th.pc = "gpus", NEW s
    PROVE  Released(Proceed(th, s)) \/ Carried(Proceed(th, s))
PROOF
  <1>1. CASE Proceed(th, s) = Idle
    BY <1>1, ReleasedThreads, Zenon
  <1>2. CASE Proceed(th, s) = ReqState(th, "keep", "noISC", "done")
    BY <1>2, ReleasedThreads, Zenon
  <1>3. ASSUME NEW pc \in {"sync", "delReqCordon"}, Proceed(th, s) = [th EXCEPT !.pc = pc]
        PROVE  Carried(Proceed(th, s))
    BY <1>3, Zenon DEF Carried, FreshSteps, Thread
  <1>4. ASSUME NEW w, Proceed(th, s) = [th EXCEPT !.pc = "select", !.want = w]
        PROVE  Released(Proceed(th, s))
    BY <1>4, Zenon DEF Released, FreshSteps, ProviderSteps, Thread
  <1> QED
    BY <1>1, <1>2, <1>3, <1>4, ZenonT(40) DEF Proceed

LEMMA WorkerSnapshot ==
    ASSUME TypeInv, CacheCoherent, SnapshotOK(th, lp), WorkerStep
    PROVE  SnapshotOK(th, lp)'
PROOF
  <1>0. th \in Thread /\ Equipped(th)
    BY WorkerObjects, Zenon
  <1>1. CASE FetchGpus
    <2>1. th.pc = "gpus" /\ lp' = lp
      BY <1>1, Zenon DEF FetchGpus, api
    <2>2. \/ \E s : th' = Proceed(th, s)
          \/ th' = ReqState(th, "keep", "noGPUs", "retry")
      BY <1>1, Zenon DEF FetchGpus, Advance
    <2> QED
      BY <1>0, <2>1, <2>2, ProceedCarried, ReleasedThreads, ReleasedOrCarried, Zenon
  <1>2. CASE RemoveRequesterFinalizer \/ EnsureReqState
    <2>1. th' \in {Idle, AfterReqState(th)}
      BY <1>2, UpdatedReq, Zenon DEF RemoveRequesterFinalizer, EnsureReqState, Advance, Retry
    <2> QED
      BY <1>0, <2>1, ReleasedThreads, ReleasedOK, Zenon
  <1>3. CASE AddRequesterFinalizer
    <2> DEFINE o == [th.rq EXCEPT !.fin = TRUE, !.dual = th.pvn,
                                  !.ilab = IF sd[me].iid = None THEN @ ELSE sd[me].iid]
               t == [th EXCEPT !.pc = "delReqProvGone", !.rq = o]
    <2>1. th.pc \in FreshSteps /\ lp' = lp /\ th' \in {Idle, t}
      BY <1>3, UpdatedReq, Zenon DEF AddRequesterFinalizer, FreshSteps, ProviderSteps
    <2> HIDE DEF o
    <2>2. Carried(t)
      BY <1>0, <2>1, Zenon DEF Carried, Thread
    <2> HIDE DEF t
    <2> QED
      BY <2>1, <2>2, ReleasedThreads, ReleasedOrCarried, Zenon
  <1>4. CASE DeleteRequesterOfGoneProvider
    <2>1. th.pc \in FreshSteps /\ lp' = lp /\ th' \in {Idle, Goto("rmProvFin")}
      BY <1>4, DeletedRequester, Zenon DEF DeleteRequesterOfGoneProvider, FreshSteps, ProviderSteps
    <2>2. Carried(Goto("rmProvFin"))
      BY <1>0, <2>1, CarriedGoto, Zenon DEF Steps
    <2> QED
      BY <2>1, <2>2, ReleasedThreads, ReleasedOrCarried, Zenon
  <1>5. CASE RemoveProviderFinalizer
    <2>1. th' = Idle
      BY <1>5, Zenon DEF RemoveProviderFinalizer, Update, Advance, Retry
    <2> QED
      BY <2>1, ReleasedThreads, ReleasedOK, Zenon
  <1>6. CASE DeleteTroubledProvider
    <2>1. th.pc \in FreshSteps
      BY <1>6, Zenon DEF DeleteTroubledProvider, FreshSteps, ProviderSteps
    <2>2. CASE th' = Idle
      BY <2>2, ReleasedThreads, ReleasedOK, Zenon
    <2>3. CASE lp' = lp /\ th' = Goto("deroute")
      BY <1>0, <2>1, <2>3, CarriedGoto, ReleasedOrCarried, Zenon DEF Steps
    <2>4. CASE th' = [Goto("deroute") EXCEPT !.dirty = @ \cup {th.pvn}]
      BY <1>0, <2>4, Zenon DEF Goto, SnapshotOK, Thread
    <2> QED
      BY <1>6, <2>2, <2>3, <2>4, Zenon DEF DeleteTroubledProvider, Advance, api
  <1>7. CASE RemoveRoutingLabels
    <2> DEFINE o == [th.pv EXCEPT !.routed = FALSE]
    <2>1. th.pc \in FreshSteps /\ th.pvn \in Launchers
      BY <1>0, <1>7, Zenon DEF RemoveRoutingLabels, FreshSteps, ProviderSteps, Equipped
    <2>2. CASE th' = Idle
      BY <2>2, ReleasedThreads, ReleasedOK
    <2>3. CASE lp' = lp /\ th' = Goto("sleep")
      BY <1>0, <2>1, <2>3, CarriedGoto, ReleasedOrCarried, Zenon DEF Steps
    <2>4. CASE lp' = [lp EXCEPT ![th.pvn] = o] /\ th' = [th EXCEPT !.pc = "sleep", !.pv = o]
      <3> HIDE DEF o
      <3> QED
        BY <1>0, <2>1, <2>4, Zenon DEF SnapshotOK, Thread, TypeInv, TypeOK
    <2> QED
      BY <1>7, <2>2, <2>3, <2>4, Zenon DEF RemoveRoutingLabels, Update, Advance, Retry, PutLp, api
  <1>8. CASE PutToSleep
    <2>1. th.pc \in FreshSteps /\ lp' = lp /\ th' \in {Idle, Goto("unbind")}
      BY <1>8, HttpCalled, Zenon
      DEF PutToSleep, DeleteObsolete, Advance, Retry, FreshSteps, ProviderSteps, api
    <2>2. Carried(Goto("unbind"))
      BY <1>0, <2>1, CarriedGoto, Zenon DEF Steps
    <2> QED
      BY <2>1, <2>2, ReleasedThreads, ReleasedOrCarried, Zenon
  <1>9. CASE Unbind \/ Bind \/ CreateLauncher
    <2>1. th' = Idle \/ \E fin, rpt, next : th' = ReqState(th, fin, rpt, next)
      BY <1>9, Zenon DEF Unbind, Bind, CreateLauncher, Update, Advance, Retry
    <2> QED
      BY <1>0, <2>1, ReleasedThreads, ReleasedOK, Zenon
  <1>10. CASE SyncBoundLauncher \/ CreateInstance \/ QuerySleeping \/ WakeUp
    <2>1. th.pc \in FreshSteps
      BY <1>10, Zenon
      DEF SyncBoundLauncher, CreateInstance, QuerySleeping, WakeUp, FreshSteps, ProviderSteps
    <2>2. \A s : ServeStep(s) \in Steps \ {"bind"}
      BY Zenon DEF ServeStep, Steps
    <2>3. lp' = lp /\ (th' = Idle \/ \E pc \in Steps \ {"bind"} : th' = Goto(pc))
      BY <1>10, <2>2, HttpCalled, SMTT(30)
      DEF SyncBoundLauncher, CreateInstance, QuerySleeping, WakeUp, Advance, Retry, Steps, api
    <2> QED
      BY <1>0, <2>1, <2>3, CarriedGoto, ReleasedThreads, ReleasedOrCarried, Zenon
  <1>11. CASE DeleteRequesterOfStoppedInstance \/ DeleteRequesterOfInvalidMetadata
              \/ DeleteRequesterOnCordonedNode \/ RelayReadiness
    <2>1. th' = Idle
      BY <1>11, DeletedRequester, Zenon
      DEF DeleteRequesterOfStoppedInstance, DeleteRequesterOfInvalidMetadata,
          DeleteRequesterOnCordonedNode, RelayReadiness, Advance, Retry
    <2> QED
      BY <2>1, ReleasedThreads, ReleasedOK
  <1>12. CASE ApplyLabels
    <2> DEFINE t == ReqState(th, AddIf(ShouldAddFinalizer(th)), "ok", "relay")
               o == [th.pv EXCEPT !.lab = "false", !.routed = @ \/ ~sd[me].labels]
    <2>1. th' \in {Idle, t, Goto("delReqMeta"), [t EXCEPT !.pv = o]}
      BY <1>12, Zenon DEF ApplyLabels, Update, Advance, Retry
    <2>2. Released(t)
      BY <1>0, ReleasedThreads, Zenon
    <2>3. [t EXCEPT !.pv = o].pc = t.pc
      BY <1>0, Zenon DEF ReqState, Thread
    <2>4. Released(Goto("delReqMeta"))
      BY <1>0, Zenon DEF Released, Goto, FreshSteps, ProviderSteps, Thread
    <2> HIDE DEF t, o
    <2> QED
      BY <2>1, <2>2, <2>3, <2>4, ReleasedThreads, ReleasedOK, Zenon DEF Released
  <1>13. CASE SelectOrReclaimLauncher
    <2>1. lp' = lp
      BY <1>13, ZenonT(40) DEF SelectOrReclaimLauncher, api
    <2>2. \/ th' \in {Idle, Goto("newLauncher")}
          \/ \E l \in Candidates : th' = SelectedThread(l)
      BY <1>13, Zenon DEF SelectOrReclaimLauncher, Advance, Retry
    <2>3. CASE th' \in {Idle, Goto("newLauncher")}
      <3>1. Released(Goto("newLauncher"))
        BY <1>0, Zenon DEF Released, Goto, FreshSteps, ProviderSteps, Thread
      <3> QED
        BY <2>3, <3>1, ReleasedThreads, ReleasedOK, Zenon
    <2>4. ASSUME NEW l \in Candidates, th' = SelectedThread(l)
          PROVE  SnapshotOK(th, lp)'
      <3>1. l \in Launchers /\ clp[l].bound = None /\ (l \notin Pending => clp[l] = lp[l])
        BY Zenon DEF Candidates, CacheCoherent
      <3>2. th'.pvn = l /\ th'.pv = clp[l] /\ (l \in Pending => l \in th'.dirty)
        BY <1>0, <2>4, Zenon DEF SelectedThread, Thread
      <3> QED
        BY <2>1, <3>1, <3>2, ZenonT(40) DEF SnapshotOK
    <2> QED
      BY <2>2, <2>3, <2>4, Zenon
  <1> QED
    BY <1>1, <1>2, <1>3, <1>4, <1>5, <1>6, <1>7, <1>8, <1>9, <1>10, <1>11, <1>12, <1>13, Zenon
    DEF WorkerStep

LEMMA TakenSnapshot ==
    ASSUME TypeInv, CacheCoherent, SnapshotOK(th, lp), NEW r \in Requesters, TakeInfSvrItem(r)
    PROVE  SnapshotOK(th, lp)'
PROOF
  <1> DEFINE rq(x) == IF x = None THEN NoReq ELSE creq[x]
             pv(l) == IF l = None THEN NoLp ELSE clp[l]
             d(x, l) == Pending \cap {x, l}
             T(x, l) == [Idle EXCEPT !.item = r, !.rqn = x, !.pvn = l,
                            !.rq = rq(x), !.pv = pv(l), !.dirty = d(x, l)]
             S(l) == [sd[r] EXCEPT !.prov = IF l = None THEN @ ELSE l]
  <1>1. \/ th' = th
        \/ \E x \in Requesters \cup {None}, l \in Launchers \cup {None} :
             th' = FirstCall(T(x, l), S(l))
    BY ZenonT(40) DEF TakeInfSvrItem, RequestersNamed, ProvidersOf
  <1>2. lp' = lp
    BY Zenon DEF TakeInfSvrItem, api
  <1>3. CASE th' = th
    BY <1>2, <1>3, Zenon DEF SnapshotOK
  <1>4. ASSUME NEW x \in Requesters \cup {None}, NEW l \in Launchers \cup {None},
               th' = FirstCall(T(x, l), S(l))
        PROVE  SnapshotOK(th, lp)'
    <2>1. l # None /\ l \notin d(x, l) => pv(l) = lp[l]
      BY ConstantsOK, ZenonT(40) DEF CacheCoherent, Pods
    <2>2. l = None => l \notin Launchers
      BY ConstantsOK, Zenon DEF Pods
    <2> HIDE DEF rq, pv, d
    <2>3. /\ DOMAIN T(x, l) = DOMAIN Idle
          /\ T(x, l).pvn = l /\ T(x, l).pv = pv(l) /\ T(x, l).dirty = d(x, l)
      BY Zenon DEF Idle
    <2>4. th' = Idle \/ (th'.pc # "bind" /\ th'.pvn = l /\ th'.pv = pv(l) /\ th'.dirty = d(x, l))
      <3>1. ASSUME NEW t, t = T(x, l), NEW pc, pc # "bind"
            PROVE  LET u == [t EXCEPT !.pc = pc] IN
                   u.pc # "bind" /\ u.pvn = l /\ u.pv = pv(l) /\ u.dirty = d(x, l)
        BY <3>1, Zenon DEF Idle
      <3>2. ASSUME NEW t, t = T(x, l), NEW fin, NEW rpt, NEW next
            PROVE  LET u == ReqState(t, fin, rpt, next) IN
                   u.pc # "bind" /\ u.pvn = l /\ u.pv = pv(l) /\ u.dirty = d(x, l)
        BY <3>2, Zenon DEF Idle, ReqState
      <3> HIDE DEF T, S
      <3> QED
        BY <1>4, <3>1, <3>2 DEF FirstCall
    <2>5. CASE th' = Idle
      BY <2>5, ReleasedThreads, ReleasedOK, Zenon
    <2> QED
      BY <1>2, <2>1, <2>2, <2>4, <2>5, ZenonT(40) DEF SnapshotOK
  <1> QED
    BY <1>1, <1>3, <1>4, ZenonT(40)

LEMMA TouchedSnapshot ==
    ASSUME TypeInv, SnapshotOK(th, lp)
    PROVE  /\ \A r \in Requesters : \A o : PutReq(r, o) /\ Touch(r) => SnapshotOK(th, lp)'
           /\ \A l \in Launchers : \A o : PutLp(l, o) /\ Touch(l) => SnapshotOK(th, lp)'
PROOF
  <1>0. th \in Thread /\ lp \in [Launchers -> LaunPod]
    BY Zenon DEF TypeInv, TypeOK
  <1>1. ASSUME NEW p, Touch(p)
        PROVE  /\ th'.pc = th.pc /\ th'.pvn = th.pvn /\ th'.pv = th.pv
               /\ th.dirty \subseteq th'.dirty /\ (p = th.pvn => p \in th'.dirty)
    BY <1>0, <1>1, Zenon DEF Touch, Thread
  <1>2. ASSUME NEW r \in Requesters, NEW o, PutReq(r, o), Touch(r)
        PROVE  SnapshotOK(th, lp)'
    BY <1>1, <1>2, Zenon DEF PutReq, SnapshotOK
  <1>3. ASSUME NEW l \in Launchers, NEW o, PutLp(l, o), Touch(l)
        PROVE  SnapshotOK(th, lp)'
    <2>1. \A m \in Launchers \ {l} : lp'[m] = lp[m]
      BY <1>0, <1>3, Zenon DEF PutLp
    <2> QED
      BY <1>1, <1>3, <2>1, Zenon DEF SnapshotOK
  <1> QED
    BY <1>2, <1>3, Zenon

LEMMA NextSnapshot ==
    ASSUME TypeInv, CacheCoherent, SnapshotOK(th, lp), Next
    PROVE  SnapshotOK(th, lp)'
PROOF
  <1>1. ASSUME NEW r \in Requesters,
               \/ CreateRequester(r) \/ RequesterStatus(r)
               \/ UserDeletesRequester(r) \/ RequesterGone(r)
        PROVE  SnapshotOK(th, lp)'
    BY <1>1, TouchedSnapshot, Zenon
    DEF CreateRequester, RequesterStatus, UserDeletesRequester, RequesterGone
  <1>2. ASSUME NEW l \in Launchers,
               \/ PopulateLauncher(l) \/ LauncherStatus(l) \/ LauncherStops(l)
               \/ DeleteLauncher(l) \/ LauncherGone(l)
        PROVE  SnapshotOK(th, lp)'
    BY <1>2, TouchedSnapshot, Zenon
    DEF PopulateLauncher, LauncherStatus, LauncherStops, DeleteLauncher, LauncherGone
  <1>3. ASSUME \/ \E c \in Iscs : DeliverIsc(c) \/ ProcessInstanceGCItem(c) \/ EditIsc(c)
               \/ \E l \in Launchers : ProcessLauncherItem(l)
               \/ \E l \in Launchers, i \in InstanceIDs : VllmServes(l, i) \/ VllmDies(l, i)
               \/ NodeTrouble \/ DeliverPod
        PROVE  SnapshotOK(th, lp)'
    <2>1. lp' = lp /\ th' = th
      BY <1>3, ZenonT(40)
      DEF DeliverIsc, ProcessInstanceGCItem, EditIsc, ProcessLauncherItem, VllmServes,
                  VllmDies, NodeTrouble, DeliverPod, api
    <2> QED
      BY <2>1, Zenon DEF SnapshotOK
  <1>4. CASE RestartController
    BY <1>4, ReleasedThreads, ReleasedOK, ZenonT(40) DEF RestartController
  <1> QED
    BY <1>1, <1>2, <1>3, <1>4, WorkerSnapshot, TakenSnapshot, Zenon DEF Next

------------------------------------------------------------------------------
LEMMA BindingParts ==
    BindingInv <=> /\ TypeInv /\ CacheCoherent /\ SnapshotOK(th, lp)
                   /\ \A l \in Launchers : lp[l].st = "none" => lp[l] = NoLp
PROOF
  BY Zenon DEF BindingInv, TypeInv, ProviderFresh, SnapshotOK, FreshSteps

LEMMA BindingPartsNext ==
    BindingInv' <=> /\ TypeInv' /\ CacheCoherent' /\ SnapshotOK(th, lp)'
                    /\ \A l \in Launchers : lp'[l].st = "none" => lp'[l] = NoLp
PROOF
  BY Zenon DEF BindingInv, TypeInv, ProviderFresh, SnapshotOK, FreshSteps

LEMMA BindingInitial == Init => BindingInv
PROOF
  <1> SUFFICES ASSUME Init PROVE BindingInv
    BY Zenon
  <1>1. stream = <<>> /\ Pending = {}
    BY SMTT(30) DEF Init, Pending
  <1>2. CacheCoherent
    BY <1>1, SMTT(30) DEF Init, CacheCoherent
  <1>3. SnapshotOK(th, lp)
    BY ReleasedThreads, Zenon DEF Init, SnapshotOK, Released, FreshSteps, ProviderSteps
  <1> QED
    BY <1>2, <1>3, TypeInitial, BindingParts, Zenon DEF Init

LEMMA BindingStep == BindingInv /\ [Next]_vars => BindingInv'
PROOF
  <1> SUFFICES ASSUME BindingInv, [Next]_vars PROVE BindingInv'
    BY Zenon
  <1>1. TypeInv /\ CacheCoherent /\ SnapshotOK(th, lp)
    BY BindingParts, Zenon
  <1>2. TypeInv'
    BY <1>1, TypeStep, Zenon
  <1>3. CASE UNCHANGED vars
    BY <1>2, <1>3, BindingParts, BindingPartsNext, SMTT(30)
    DEF vars, CacheCoherent, Pending, SnapshotOK
  <1>4. CASE Next
    <2>1. CacheCoherent'
      BY <1>1, <1>2, <1>4, NextCacheStep, CacheStepCoherent, Zenon
    <2>2. SnapshotOK(th, lp)'
      BY <1>1, <1>4, NextSnapshot, Zenon
    <2>3. \A l \in Launchers : lp'[l].st = "none" => lp'[l] = NoLp
      BY <1>4, NextLauncherStep, Zenon DEF LauncherStep, BindingInv
    <2> QED
      BY <1>2, <2>1, <2>2, <2>3, BindingPartsNext, Zenon
  <1> QED
    BY <1>3, <1>4, Zenon

\* Optimistic concurrency protects the launcher Pods: what the worker of
\* infSvrItem.process writes over is what it has seen, and what it binds it has
\* seen unbound, however stale the informer cache and whatever fails.
THEOREM BindingInvariant == Spec => []BindingInv
PROOF
  BY BindingInitial, BindingStep, PTL DEF Spec

\* A launcher Pod leaves its requester only by being unbound, and keeps its
\* instance while bound.
THEOREM BindingStable == Spec => BoundAtMostOnce
PROOF
  <1> DEFINE Stable == \A l \in Launchers :
               lp[l].bound # None =>
                  \/ lp'[l].bound = None /\ lp'[l].iid = None
                  \/ lp'[l].bound = lp[l].bound /\ lp'[l].iid = lp[l].iid
  <1>1. BindingInv /\ [Next]_vars => [Stable]_vars
    BY NextLauncherStep, Zenon DEF LauncherStep
  <1> QED
    BY <1>1, BindingInvariant, PTL DEF Spec, BoundAtMostOnce
===============================================================================
