-------------------------- MODULE DualPodsTypeProofs --------------------------
(* The types of DualPods, for every number of requesters, launchers and        *)
(* InferenceServerConfigs, every lag of the informer and every disruption.     *)
EXTENDS DualPods, TLAPS

------------------------------------------------------------------------------
(* Types of the operators the actions are built from.                          *)

LEMMA InitialObjects ==
    /\ NoReq \in ReqPod /\ NoLp \in LaunPod /\ NoServerData \in ServerData
    /\ Idle \in Thread /\ Equipped(Idle)
PROOF
  <1>1. NoReq \in ReqPod
    BY Zenon DEF NoReq, ReqPod, PodStates, Reports
  <1>2. NoLp \in LaunPod
    BY Zenon DEF NoLp, LaunPod, PodStates, Phases
  <1>3. NoServerData \in ServerData
    BY Zenon DEF NoServerData, ServerData
  <1>4. NoArgs \in ReqArgs
    BY Zenon DEF NoArgs, ReqArgs, Reports
  <1>5. Idle \in Thread
    BY <1>1, <1>2, <1>4, Zenon DEF Idle, Thread, Steps
  <1>6. Equipped(Idle)
    BY Zenon DEF Equipped, Idle, RequesterSteps, ProviderSteps, Exists, NoReq, NoLp
  <1> QED
    BY <1>1, <1>2, <1>3, <1>5, <1>6, Zenon

LEMMA ReqStateType ==
    ASSUME NEW t \in Thread, Equipped(t), t.item \in Requesters, t.rqn \in Requesters,
           NEW fin \in {"keep", "add", "rm"}, NEW rpt \in Reports,
           NEW next \in {"done", "retry", "relay"}
    PROVE  ReqState(t, fin, rpt, next) \in Thread /\ Equipped(ReqState(t, fin, rpt, next))
PROOF
  <1> DEFINE a == [fin |-> fin, rpt |-> rpt, next |-> next]
  <1>1. a \in ReqArgs
    BY Zenon DEF ReqArgs
  <1>2. ReqState(t, fin, rpt, next) = [t EXCEPT !.pc = "reqState", !.args = a]
    BY Zenon DEF ReqState
  <1> HIDE DEF a
  <1> QED
    BY <1>1, <1>2, ZenonT(40) DEF Thread, Steps, Equipped, ProviderSteps, RequesterSteps, Exists

LEMMA GotoType ==
    ASSUME NEW t \in Thread, Equipped(t), t.item \in Requesters, NEW pc \in Steps,
           pc \in RequesterSteps => t.rqn \in Requesters,
           pc \in ProviderSteps => t.pvn \in Launchers /\ Exists(t.pv)
    PROVE  [t EXCEPT !.pc = pc] \in Thread /\ Equipped([t EXCEPT !.pc = pc])
PROOF
  BY Zenon DEF Thread, Equipped, Exists
------------------------------------------------------------------------------
(* TypeOK together with Equipped is inductive.                                 *)

TypeInv == TypeOK /\ Equipped(th)

\* The conjuncts of TypeInv that change together.
ApiOK ==
    /\ req \in [Requesters -> ReqPod] /\ lp \in [Launchers -> LaunPod]
    /\ stream \in Seq(Events)
CacheOK ==
    /\ creq \in [Requesters -> ReqPod] /\ clp \in [Launchers -> LaunPod]
    /\ ciscs \in [Iscs -> 0..MaxVer]
WorldOK ==
    /\ iscs \in [Iscs -> 0..MaxVer] /\ node \in {"ok", "cordoned", "gone"}
    /\ spi \in [Requesters -> BOOLEAN]
InstOK == inst \in [Launchers -> [InstanceIDs -> InstStates]] /\ ld \in SUBSET Launchers
CtlOK ==
    /\ sd \in [Requesters -> ServerData] /\ queue \in SUBSET (Pods \cup Iscs)
    /\ th \in Thread /\ Equipped(th)
BudgetOK == budget \in 0..MaxDisruptions

LEMMA TypeParts ==
    TypeInv <=> ApiOK /\ CacheOK /\ WorldOK /\ InstOK /\ CtlOK /\ BudgetOK
PROOF
  BY Zenon DEF TypeInv, TypeOK, ApiOK, CacheOK, WorldOK, InstOK, CtlOK, BudgetOK

LEMMA TypePartsNext ==
    ASSUME ApiOK', CacheOK', WorldOK', InstOK', CtlOK', BudgetOK'
    PROVE  TypeInv'
PROOF
  BY Zenon DEF TypeInv, TypeOK, ApiOK, CacheOK, WorldOK, InstOK, CtlOK, BudgetOK

LEMMA Unchanged ==
    /\ ApiOK /\ UNCHANGED api => ApiOK'
    /\ CacheOK /\ UNCHANGED cache => CacheOK'
    /\ WorldOK /\ UNCHANGED world => WorldOK'
    /\ InstOK /\ UNCHANGED <<inst, ld>> => InstOK'
    /\ CtlOK /\ UNCHANGED <<sd, queue, th>> => CtlOK'
    /\ BudgetOK /\ UNCHANGED budget => BudgetOK'
PROOF
  BY Zenon DEF ApiOK, CacheOK, WorldOK, InstOK, CtlOK, BudgetOK, api, cache, world, Equipped

LEMMA PutReqType ==
    ASSUME ApiOK, NEW r \in Requesters, NEW o \in ReqPod, PutReq(r, o)
    PROVE  ApiOK'
PROOF
  <1>1. [pod |-> r, obj |-> o] \in Events
    BY Zenon DEF Events
  <1>2. stream' \in Seq(Events)
    BY <1>1 DEF ApiOK, PutReq
  <1> QED
    BY <1>2, Zenon DEF ApiOK, PutReq

LEMMA PutLpType ==
    ASSUME ApiOK, NEW l \in Launchers, NEW o \in LaunPod, PutLp(l, o)
    PROVE  ApiOK'
PROOF
  <1>1. [pod |-> l, obj |-> o] \in Events
    BY Zenon DEF Events
  <1>2. stream' \in Seq(Events)
    BY <1>1 DEF ApiOK, PutLp
  <1> QED
    BY <1>2, Zenon DEF ApiOK, PutLp

LEMMA DisruptType ==
    ASSUME BudgetOK, NEW kind, Disrupt(kind)
    PROVE  BudgetOK'
PROOF
  BY ConstantsOK DEF BudgetOK, Disrupt

LEMMA AdvanceType ==
    ASSUME CtlOK, NEW s \in ServerData, NEW t \in Thread, Equipped(t), Advance(s, t)
    PROVE  CtlOK'
PROOF
  BY Zenon DEF CtlOK, Advance, me, Equipped

LEMMA RetryType ==
    ASSUME CtlOK, th.item \in Requesters, NEW s \in ServerData, Retry(s)
    PROVE  CtlOK'
PROOF
  BY InitialObjects, Zenon DEF CtlOK, Retry, ItemsRetry, me, Equipped, Pods

\* The calls of the worker keep the types, given well-typed arguments.
LEMMA UpdateReqType ==
    ASSUME TypeInv, th.item \in Requesters, NEW r \in Requesters, NEW o \in ReqPod,
           NEW s0 \in ServerData, NEW s1 \in ServerData, NEW t \in Thread, Equipped(t),
           Update(r, PutReq(r, o), s0, s1, t)
    PROVE  TypeInv'
PROOF
  <1>1. UNCHANGED <<cache, world, inst, ld>>
    BY Zenon DEF Update
  <1>2. ApiOK' /\ CtlOK' /\ BudgetOK'
    BY TypeParts, Unchanged, PutReqType, AdvanceType, RetryType, DisruptType, Zenon DEF Update
  <1> QED
    BY <1>1, <1>2, TypeParts, TypePartsNext, Unchanged, Zenon

LEMMA UpdateLpType ==
    ASSUME TypeInv, th.item \in Requesters, NEW l \in Launchers, NEW o \in LaunPod,
           NEW s0 \in ServerData, NEW s1 \in ServerData, NEW t \in Thread, Equipped(t),
           Update(l, PutLp(l, o), s0, s1, t)
    PROVE  TypeInv'
PROOF
  <1>1. UNCHANGED <<cache, world, inst, ld>>
    BY Zenon DEF Update
  <1>2. ApiOK' /\ CtlOK' /\ BudgetOK'
    BY TypeParts, Unchanged, PutLpType, AdvanceType, RetryType, DisruptType, Zenon DEF Update
  <1> QED
    BY <1>1, <1>2, TypeParts, TypePartsNext, Unchanged, Zenon

LEMMA DeletingType ==
    /\ \A o \in ReqPod : Deleting(o) \in ReqPod
    /\ \A o \in LaunPod : Deleting(o) \in LaunPod
PROOF
  BY DEF Deleting, ReqPod, LaunPod, PodStates

LEMMA DeleteReqType ==
    ASSUME ApiOK, NEW r \in Requesters, DeleteReq(r)
    PROVE  ApiOK'
PROOF
  <1>1. Deleting(req[r]) \in ReqPod
    BY DeletingType, Zenon DEF ApiOK
  <1> QED
    BY <1>1, PutReqType, Unchanged, Zenon DEF DeleteReq

LEMMA DeleteRequesterType ==
    ASSUME TypeInv, th.item \in Requesters, NEW uid \in Requesters, NEW rv \in BOOLEAN,
           NEW s0 \in ServerData, NEW s1 \in ServerData, NEW t \in Thread, Equipped(t),
           DeleteRequester(uid, rv, s0, s1, t)
    PROVE  TypeInv'
PROOF
  <1>1. UNCHANGED <<cache, world, inst, ld>>
    BY Zenon DEF DeleteRequester
  <1>2. ApiOK' /\ CtlOK' /\ BudgetOK'
    BY TypeParts, Unchanged, DeleteReqType, AdvanceType, RetryType, DisruptType, Zenon
    DEF DeleteRequester
  <1> QED
    BY <1>1, <1>2, TypeParts, TypePartsNext, Unchanged, Zenon

LEMMA HttpCallType ==
    ASSUME TypeInv, th.item \in Requesters, NEW ok \in BOOLEAN,
           NEW is \in [Launchers -> [InstanceIDs -> InstStates]],
           NEW s0 \in ServerData, NEW s1 \in ServerData, NEW t \in Thread, Equipped(t),
           HttpCall(ok, is, s0, s1, t)
    PROVE  TypeInv'
PROOF
  <1>1. UNCHANGED <<api, cache, world, ld>>
    BY Zenon DEF HttpCall
  <1>2. InstOK'
    BY <1>1, TypeParts, Zenon DEF HttpCall, InstOK
  <1>3. CtlOK' /\ BudgetOK'
    BY TypeParts, Unchanged, AdvanceType, RetryType, DisruptType, Zenon DEF HttpCall
  <1> QED
    BY <1>1, <1>2, <1>3, TypeParts, TypePartsNext, Unchanged, Zenon

LEMMA RecoverType ==
    ASSUME NEW s \in ServerData, NEW pv \in LaunPod
    PROVE  Recover(s, pv) \in ServerData
PROOF
  BY Zenon DEF Recover, ServerData, LaunPod

LEMMA ProceedType ==
    ASSUME CacheOK, NEW t \in Thread, Equipped(t), t.item \in Requesters,
           t.rqn \in Requesters, NEW s \in ServerData, s.gpu \in Gpus
    PROVE  /\ Proceed(t, s) \in Thread /\ Equipped(Proceed(t, s))
           /\ ProceedData(t, s) \in ServerData
PROOF
  <1> DEFINE c == IscOf[t.rqn]
  <1>1. t.pv \in LaunPod /\ c \in Iscs /\ ciscs[c] \in 0..MaxVer
    BY ConstantsOK, Zenon DEF Thread, CacheOK
  <1>2. ProceedData(t, s) \in ServerData
    BY <1>1, RecoverType, Zenon DEF ProceedData
  <1>3. CASE Exists(t.pv)
    <2>1. t.pvn \in Launchers
      BY <1>3, Zenon DEF Thread, Equipped
    <2>2. /\ [t EXCEPT !.pc = "sync"] \in Thread
          /\ Equipped([t EXCEPT !.pc = "sync"])
      BY <1>3, <2>1, GotoType, Zenon DEF Steps
    <2> QED
      BY <1>2, <1>3, <2>2, InitialObjects, Zenon DEF Proceed
  <1>4. CASE ~Exists(t.pv) /\ ciscs[c] = 0
    <2>1. Proceed(t, s) = ReqState(t, "keep", "noISC", "done")
      BY <1>4, Zenon DEF Proceed
    <2> QED
      BY <1>2, <2>1, ReqStateType DEF Reports
  <1>5. CASE ~Exists(t.pv) /\ ciscs[c] # 0
    <2>1. <<c, ciscs[c], s.gpu>> \in InstanceIDs
      BY <1>1, <1>5, ConstantsOK, SMTT(30) DEF InstanceIDs
    <2>2. /\ [t EXCEPT !.pc = "delReqCordon"] \in Thread
          /\ Equipped([t EXCEPT !.pc = "delReqCordon"])
      BY GotoType, ZenonT(40) DEF Steps, ProviderSteps
    <2>3. /\ [t EXCEPT !.pc = "select"] \in Thread
          /\ Equipped([t EXCEPT !.pc = "select"])
      BY GotoType, Zenon DEF Steps, ProviderSteps
    <2>4. ASSUME NEW w \in InstanceIDs
          PROVE  /\ [t EXCEPT !.pc = "select", !.want = w] \in Thread
                 /\ Equipped([t EXCEPT !.pc = "select", !.want = w])
      BY <2>3, Zenon DEF Thread, Equipped
    <2> QED
      BY <1>2, <1>5, <2>1, <2>2, <2>4, Zenon DEF Proceed
  <1> QED
    BY <1>3, <1>4, <1>5, Zenon

LEMMA FirstCallType ==
    ASSUME NEW t \in Thread, Equipped(t), t.item \in Requesters,
           t.rqn = None => ~Exists(t.rq), t.pvn = None => ~Exists(t.pv),
           NEW s \in ServerData
    PROVE  FirstCall(t, s) \in Thread /\ Equipped(FirstCall(t, s))
PROOF
  <1>1. Exists(t.rq) => t.rqn \in Requesters
    BY Zenon DEF Thread
  <1>2. Exists(t.pv) => t.pvn \in Launchers
    BY Zenon DEF Thread
  <1>3. CASE Exists(t.rq) /\ t.rq.fin /\ ~WantFinalizer(t.pv)
    BY <1>1, <1>3, GotoType, Zenon DEF FirstCall, Steps, ProviderSteps
  <1>4. CASE ~(Exists(t.rq) /\ t.rq.fin /\ ~WantFinalizer(t.pv)) /\ t.pv.st = "deleting"
    <2>1. t.rq.st = "live" => t.rqn \in Requesters
      BY <1>1, Zenon DEF Exists
    <2>2. t.pvn \in Launchers /\ Exists(t.pv)
      BY <1>2, <1>4, Zenon DEF Exists
    <2> DEFINE pc == IF t.rq.st # "live" THEN "rmProvFin"
                     ELSE IF ShouldAddFinalizer(t) THEN "addReqFin" ELSE "delReqProvGone"
    <2>3. pc \in Steps /\ (pc \in RequesterSteps => t.rqn \in Requesters)
      BY <2>1, Zenon DEF Steps, RequesterSteps
    <2>4. FirstCall(t, s) = [t EXCEPT !.pc = pc]
      BY <1>4, Zenon DEF FirstCall
    <2> HIDE DEF pc
    <2> QED
      BY <2>2, <2>3, <2>4, GotoType, Zenon
  <1>5. CASE /\ ~(Exists(t.rq) /\ t.rq.fin /\ ~WantFinalizer(t.pv)) /\ t.pv.st # "deleting"
             /\ t.rq.st # "live" /\ Exists(t.pv)
    <2> DEFINE pc == IF InTrouble(t.pv) THEN "delTrouble" ELSE "deroute"
    <2>1. pc \in Steps \ RequesterSteps
      BY Zenon DEF Steps, RequesterSteps
    <2>2. FirstCall(t, s) = [t EXCEPT !.pc = pc]
      BY <1>5, Zenon DEF FirstCall
    <2> HIDE DEF pc
    <2> QED
      BY <1>2, <1>5, <2>1, <2>2, GotoType, Zenon
  <1>6. CASE /\ ~(Exists(t.rq) /\ t.rq.fin /\ ~WantFinalizer(t.pv)) /\ t.pv.st # "deleting"
             /\ ~(t.rq.st # "live" /\ Exists(t.pv))
    <2>1. CASE t.rq.st # "live" \/ s.delreq \/ node = "gone"
      BY <1>6, <2>1, InitialObjects, Zenon DEF FirstCall
    <2>2. CASE ~(t.rq.st # "live" \/ s.delreq \/ node = "gone")
      <3>1. t.rqn \in Requesters
        BY <1>1, <2>2, Zenon DEF Exists
      <3>2. CASE t.rq.ip
        BY <1>6, <2>2, <3>1, <3>2, GotoType, Zenon DEF FirstCall, Steps, ProviderSteps
      <3>3. CASE ~t.rq.ip
        <4>1. AddIf(ShouldAddFinalizer(t)) \in {"keep", "add", "rm"}
          BY Zenon DEF AddIf
        <4>2. FirstCall(t, s) = ReqState(t, AddIf(ShouldAddFinalizer(t)), "noIP", "done")
          BY <1>6, <2>2, <3>3, Zenon DEF FirstCall
        <4> QED
          BY <3>1, <4>1, <4>2, ReqStateType DEF Reports
      <3> QED
        BY <3>2, <3>3, Zenon
    <2> QED
      BY <2>1, <2>2, Zenon
  <1> QED
    BY <1>3, <1>4, <1>5, <1>6, Zenon

LEMMA SetInstType ==
    ASSUME InstOK, NEW l, NEW i, NEW s \in InstStates
    PROVE  SetInst(l, i, s) \in [Launchers -> [InstanceIDs -> InstStates]]
PROOF
  BY Zenon DEF InstOK, SetInst

LEMMA SyncedType ==
    ASSUME InstOK, NEW l \in Launchers
    PROVE  Synced(l) \in [InstanceIDs -> InstStates]
PROOF
  BY Zenon DEF InstOK, Synced, InstStates

LEMMA LauncherObjects ==
    /\ \A o \in LaunPod : Unbound(o) \in LaunPod
    /\ \A o \in LaunPod, r \in Requesters, i \in InstanceIDs \cup {None} :
         Bound(o, r, i) \in LaunPod
    /\ \A o \in LaunPod, b \in BOOLEAN : [o EXCEPT !.fin = b] \in LaunPod
    /\ \A o \in LaunPod, b \in BOOLEAN : [o EXCEPT !.routed = b] \in LaunPod
    /\ \A o \in LaunPod, p \in Phases : [o EXCEPT !.phase = p] \in LaunPod
    /\ \A o \in LaunPod, p \in PodStates : [o EXCEPT !.st = p] \in LaunPod
PROOF
  BY Zenon DEF Unbound, Bound, LaunPod

LEMMA RequesterObjects ==
    /\ \A o \in ReqPod, b \in BOOLEAN : [o EXCEPT !.fin = b] \in ReqPod
    /\ \A o \in ReqPod, b \in BOOLEAN : [o EXCEPT !.ip = b] \in ReqPod
    /\ \A o \in ReqPod, b \in BOOLEAN : [o EXCEPT !.ready = b] \in ReqPod
    /\ \A o \in ReqPod, p \in PodStates : [o EXCEPT !.st = p] \in ReqPod
    /\ \A o \in ReqPod, s \in ServerData, a \in ReqArgs : Reported(o, s, a) \in ReqPod
PROOF
  <1>1. ASSUME NEW o \in ReqPod, NEW s \in ServerData, NEW a \in ReqArgs
        PROVE  Reported(o, s, a) \in ReqPod
    <2> DEFINE i == IF s.prov = None THEN None ELSE IF s.iid = None THEN o.ilab ELSE s.iid
               f == (o.fin \/ a.fin = "add") /\ a.fin # "rm"
    <2>1. /\ a.rpt \in Reports /\ s.gpu \in Gpus \cup {None} /\ s.prov \in Launchers \cup {None}
          /\ i \in InstanceIDs \cup {None} /\ f \in BOOLEAN
      BY Zenon DEF ReqPod, ServerData, ReqArgs
    <2>2. Reported(o, s, a) = [o EXCEPT !.rpt = a.rpt, !.acc = s.gpu, !.dual = s.prov,
                                        !.ilab = i, !.fin = f]
      BY Zenon DEF Reported, ReqPod
    <2> HIDE DEF i, f
    <2> QED
      BY <2>1, <2>2, Zenon DEF ReqPod
  <1> QED
    BY <1>1, Zenon DEF ReqPod

LEMMA MemoryObjects ==
    /\ \A s \in ServerData, g \in Gpus : [s EXCEPT !.gpu = g] \in ServerData
    /\ \A s \in ServerData, l \in Launchers : [s EXCEPT !.prov = l] \in ServerData
    /\ \A s \in ServerData : [s EXCEPT !.known = TRUE] \in ServerData
    /\ \A s \in ServerData : [s EXCEPT !.labels = TRUE] \in ServerData
    /\ \A s \in ServerData, b \in {"nil", "true", "false"} : [s EXCEPT !.sleeping = b] \in ServerData
    /\ \A s \in ServerData : [s EXCEPT !.relayed = TRUE] \in ServerData
    /\ \A s \in ServerData : [s EXCEPT !.delreq = TRUE] \in ServerData
    /\ \A s \in ServerData, l \in Launchers, i \in InstanceIDs \cup {None} :
         Committed(s, l, i) \in ServerData
PROOF
  BY ZenonT(40) DEF Committed, ServerData

\* What TypeInv says of the worker outside "idle".
LEMMA WorkerObjects ==
    ASSUME TypeInv
    PROVE  /\ th \in Thread /\ Equipped(th)
           /\ th.rq \in ReqPod /\ th.pv \in LaunPod
           /\ th.want \in InstanceIDs \cup {None} /\ th.args \in ReqArgs
           /\ th.pc # "idle" => th.item \in Requesters /\ sd[th.item] \in ServerData
PROOF
  BY Zenon DEF TypeInv, TypeOK, Thread, Equipped

LEMMA GotoStep ==
    ASSUME TypeInv, th.pc # "idle", NEW pc \in Steps,
           pc \in RequesterSteps => th.rqn \in Requesters,
           pc \in ProviderSteps => th.pvn \in Launchers /\ Exists(th.pv)
    PROVE  Goto(pc) \in Thread /\ Equipped(Goto(pc))
PROOF
  BY GotoType, WorkerObjects, Zenon DEF Goto

LEMMA NewPv ==
    ASSUME NEW t \in Thread, Equipped(t), NEW o \in LaunPod, Exists(o) <=> Exists(t.pv)
    PROVE  [t EXCEPT !.pv = o] \in Thread /\ Equipped([t EXCEPT !.pv = o])
PROOF
  BY Zenon DEF Thread, Equipped

LEMMA LocalStepType ==
    ASSUME TypeInv, NEW s \in ServerData, NEW t \in Thread, Equipped(t), Advance(s, t),
           UNCHANGED <<api, cache, world, inst, ld, budget>>
    PROVE  TypeInv'
PROOF
  BY TypeParts, TypePartsNext, Unchanged, AdvanceType, Zenon

\* Every call of the worker keeps TypeInv.
LEMMA WorkerType ==
    ASSUME TypeInv, WorkerStep
    PROVE  TypeInv'
PROOF
  <1> DEFINE s == sd[me]
  <1>0. th.pc # "idle" => me \in Requesters /\ s \in ServerData
    BY WorkerObjects, Zenon DEF me
  <1>1. CASE FetchGpus
    <2> DEFINE g == [s EXCEPT !.gpu = IF s.gpu = None THEN GpuOf[th.rqn] ELSE s.gpu]
    <2>1. th.pc = "gpus" /\ th.item \in Requesters /\ th.rqn \in Requesters /\ s \in ServerData
      BY <1>1, <1>0, WorkerObjects, Zenon DEF FetchGpus, Equipped, RequesterSteps, Steps
    <2>2. g \in ServerData /\ g.gpu \in Gpus
      BY <2>1, ConstantsOK, Zenon DEF ServerData
    <2>3. /\ Proceed(th, g) \in Thread /\ Equipped(Proceed(th, g))
          /\ ProceedData(th, g) \in ServerData
      BY <2>1, <2>2, ProceedType, WorkerObjects, TypeParts, Zenon
    <2>4. LET t == ReqState(th, "keep", "noGPUs", "retry") IN t \in Thread /\ Equipped(t)
      BY <2>1, ReqStateType, WorkerObjects, Zenon DEF Reports
    <2>5. CtlOK' /\ BudgetOK'
      <3> HIDE DEF g
      <3> QED
        BY <1>1, <2>1, <2>3, <2>4, TypeParts, AdvanceType, DisruptType, Unchanged, Zenon DEF FetchGpus, g
    <2>6. UNCHANGED <<api, cache, world, inst, ld>>
      BY <1>1, Zenon DEF FetchGpus
    <2> QED
      BY <2>5, <2>6, TypeParts, TypePartsNext, Unchanged, Zenon
  <1>2. CASE RemoveRequesterFinalizer
    <2>1. /\ th.item \in Requesters /\ th.rqn \in Requesters
          /\ [th.rq EXCEPT !.fin = FALSE] \in ReqPod
      BY <1>2, WorkerObjects, RequesterObjects, Zenon
      DEF RemoveRequesterFinalizer, Equipped, RequesterSteps, Steps
    <2> QED
      BY <1>0, <1>2, <2>1, UpdateReqType, InitialObjects, Zenon DEF RemoveRequesterFinalizer
  <1>3. CASE AddRequesterFinalizer
    <2> DEFINE o == [th.rq EXCEPT !.fin = TRUE, !.dual = th.pvn,
                                  !.ilab = IF s.iid = None THEN @ ELSE s.iid]
               t == [th EXCEPT !.pc = "delReqProvGone", !.rq = o]
    <2>1. /\ th.item \in Requesters /\ th.rqn \in Requesters /\ s \in ServerData
          /\ th.pvn \in Launchers /\ Exists(th.pv)
      BY <1>0, <1>3, WorkerObjects, Zenon
      DEF AddRequesterFinalizer, Equipped, RequesterSteps, ProviderSteps, Steps
    <2>2. o \in ReqPod
      BY <2>1, WorkerObjects, ZenonT(40) DEF ReqPod, ServerData
    <2>3. [th EXCEPT !.pc = "delReqProvGone"] \in Thread
          /\ Equipped([th EXCEPT !.pc = "delReqProvGone"])
      BY <2>1, GotoType, WorkerObjects, Zenon DEF Steps
    <2>4. t \in Thread /\ Equipped(t)
      <3> HIDE DEF o
      <3> QED
        BY <2>1, <2>2, <2>3, ConstantsOK, Zenon DEF Thread, Equipped, Pods
    <2>5. Update(th.rqn, PutReq(th.rqn, o), s, s, t)
      BY <1>3, Zenon DEF AddRequesterFinalizer
    <2> HIDE DEF o, t, s
    <2> QED
      BY <2>1, <2>2, <2>4, <2>5, UpdateReqType, Zenon
  <1>4. CASE DeleteRequesterOfGoneProvider
    <2>1. /\ me \in Requesters /\ s \in ServerData /\ [s EXCEPT !.delreq = TRUE] \in ServerData
          /\ th.item \in Requesters /\ th.pvn \in Launchers /\ Exists(th.pv) /\ th.pc # "idle"
      BY <1>0, <1>4, WorkerObjects, MemoryObjects, Zenon
      DEF DeleteRequesterOfGoneProvider, Equipped, ProviderSteps
    <2>2. Goto("rmProvFin") \in Thread /\ Equipped(Goto("rmProvFin"))
      BY <2>1, GotoStep, Zenon DEF Steps, RequesterSteps
    <2> QED
      BY <1>4, <2>1, <2>2, DeleteRequesterType, Zenon DEF DeleteRequesterOfGoneProvider
  <1>5. CASE RemoveProviderFinalizer
    <2>1. /\ th.item \in Requesters /\ s \in ServerData /\ th.pvn \in Launchers
          /\ [th.pv EXCEPT !.fin = FALSE] \in LaunPod
      BY <1>0, <1>5, WorkerObjects, LauncherObjects, Zenon
      DEF RemoveProviderFinalizer, Equipped, ProviderSteps
    <2> QED
      BY <1>5, <2>1, UpdateLpType, LocalStepType, InitialObjects, Zenon DEF RemoveProviderFinalizer
  <1>6. CASE DeleteTroubledProvider
    <2>1. /\ s \in ServerData /\ th.pvn \in Launchers /\ Deleting(th.pv) \in LaunPod
          /\ th.pc # "idle" /\ Exists(th.pv)
      BY <1>0, <1>6, WorkerObjects, DeletingType, Zenon
      DEF DeleteTroubledProvider, Equipped, ProviderSteps
    <2>2. Goto("deroute") \in Thread /\ Equipped(Goto("deroute"))
      BY <2>1, GotoStep, Zenon DEF Steps, RequesterSteps
    <2>3. LET t == [Goto("deroute") EXCEPT !.dirty = @ \cup {th.pvn}]
          IN  t \in Thread /\ Equipped(t)
      <3> DEFINE g == Goto("deroute")
      <3> HIDE DEF g
      <3> QED
        BY <2>1, <2>2, Zenon DEF Thread, Equipped, Pods, g
    <2>4. ApiOK' /\ CtlOK' /\ BudgetOK'
      BY <1>6, <2>1, <2>2, <2>3, TypeParts, PutLpType, AdvanceType, DisruptType, Unchanged,
         InitialObjects, Zenon DEF DeleteTroubledProvider
    <2>5. UNCHANGED <<cache, world, inst, ld>>
      BY <1>6, Zenon DEF DeleteTroubledProvider
    <2> QED
      BY <2>4, <2>5, TypeParts, TypePartsNext, Unchanged, Zenon
  <1>7. CASE RemoveRoutingLabels
    <2> DEFINE u == Recover(s, th.pv)
               o == [th.pv EXCEPT !.routed = FALSE]
    <2>1. /\ th.item \in Requesters /\ s \in ServerData /\ th.pvn \in Launchers
          /\ Exists(th.pv) /\ th.pc # "idle"
      BY <1>0, <1>7, WorkerObjects, Zenon DEF RemoveRoutingLabels, Equipped, ProviderSteps
    <2>2. u \in ServerData
      BY <2>1, RecoverType, WorkerObjects, Zenon
    <2>3. o \in LaunPod /\ Exists(o)
      BY <2>1, WorkerObjects, LauncherObjects, ZenonT(40) DEF Exists, LaunPod
    <2>4. Goto("sleep") \in Thread /\ Equipped(Goto("sleep"))
      BY <2>1, GotoStep, Zenon DEF Steps, RequesterSteps
    <2>5. [Goto("sleep") EXCEPT !.pv = o] \in Thread /\ Equipped([Goto("sleep") EXCEPT !.pv = o])
      <3>1. Goto("sleep").pv = th.pv
        BY WorkerObjects, Zenon DEF Goto, Thread
      <3> QED
        BY <2>1, <2>3, <2>4, <3>1, NewPv, Zenon
    <2>6. [Goto("sleep") EXCEPT !.pv = o] = [th EXCEPT !.pc = "sleep", !.pv = o]
      BY Zenon DEF Goto
    <2> HIDE DEF u, o, s
    <2> QED
      BY <1>7, <2>1, <2>2, <2>3, <2>4, <2>5, <2>6, UpdateLpType, LocalStepType, Zenon
      DEF RemoveRoutingLabels, u, o, s
  <1>8. CASE PutToSleep
    <2> DEFINE done == [s EXCEPT !.sleeping = "true"]
    <2>1. /\ th.item \in Requesters /\ s \in ServerData /\ done \in ServerData
          /\ th.pvn \in Launchers /\ Exists(th.pv) /\ th.pc # "idle"
      BY <1>0, <1>8, WorkerObjects, MemoryObjects, Zenon DEF PutToSleep, Equipped, ProviderSteps
    <2>2. Goto("unbind") \in Thread /\ Equipped(Goto("unbind"))
      BY <2>1, GotoStep, Zenon DEF Steps, RequesterSteps
    <2>3. ASSUME NEW x \in InstStates
          PROVE  SetInst(th.pvn, s.iid, x) \in [Launchers -> [InstanceIDs -> InstStates]]
      BY SetInstType, TypeParts, Zenon
    <2>4. CASE Advance(s, Goto("unbind")) /\ UNCHANGED <<api, cache, world, inst, ld, budget>>
      BY <2>1, <2>2, <2>4, LocalStepType, Zenon
    <2>5. CASE DeleteObsolete(th.pvn, s.iid, s, done)
      <3>1. InstOK'
        BY <2>3, <2>5, TypeParts, Zenon DEF DeleteObsolete, InstOK, InstStates
      <3>2. CtlOK' /\ BudgetOK'
        BY <2>1, <2>2, <2>5, TypeParts, AdvanceType, RetryType, DisruptType, Unchanged, Zenon
        DEF DeleteObsolete
      <3>3. UNCHANGED <<api, cache, world>>
        BY <2>5, Zenon DEF DeleteObsolete
      <3> QED
        BY <3>1, <3>2, <3>3, TypeParts, TypePartsNext, Unchanged, Zenon
    <2>6. ASSUME NEW ok \in BOOLEAN,
                 HttpCall(ok, SetInst(th.pvn, s.iid, "asleep"), s, done, Goto("unbind"))
          PROVE  TypeInv'
      <3>1. SetInst(th.pvn, s.iid, "asleep") \in [Launchers -> [InstanceIDs -> InstStates]]
        BY <2>3, Zenon DEF InstStates
      <3> QED
        BY <2>1, <2>2, <2>6, <3>1, HttpCallType, Zenon
    <2>7. (Reachable(th.pvn) /\ inst[th.pvn][s.iid] \in {"awake", "asleep"}) \in BOOLEAN
      BY Zenon
    <2> HIDE DEF done
    <2> QED
      BY <1>8, <2>4, <2>5, <2>6, <2>7, Zenon DEF PutToSleep, done
  <1>9. CASE Unbind
    <2> DEFINE t == IF Exists(th.rq) THEN ReqState(th, "rm", "ok", "done") ELSE Idle
    <2>1. /\ th.item \in Requesters /\ s \in ServerData /\ th.pvn \in Launchers
          /\ Unbound(th.pv) \in LaunPod
      BY <1>0, <1>9, WorkerObjects, LauncherObjects, Zenon DEF Unbind, Equipped, ProviderSteps
    <2>2. Exists(th.rq) => th.rqn \in Requesters
      BY WorkerObjects, Zenon DEF Equipped, Thread
    <2>3. t \in Thread /\ Equipped(t)
      BY <2>1, <2>2, WorkerObjects, InitialObjects, ReqStateType, Zenon DEF Reports
    <2> HIDE DEF t
    <2> QED
      BY <1>9, <2>1, <2>3, UpdateLpType, Zenon DEF Unbind, t
  <1>10. ASSUME th.pc \in {"sync", "create", "query", "wake", "labels"}
         PROVE  /\ th.item \in Requesters /\ s \in ServerData /\ th.rqn \in Requesters
                /\ th.pvn \in Launchers /\ Exists(th.pv) /\ th.pc # "idle"
                /\ \A x \in {"create", "query", "wake", "labels", "delReqStopped", "delReqMeta"} :
                     Goto(x) \in Thread /\ Equipped(Goto(x))
                /\ \A x \in ServerData : Goto(ServeStep(x)) \in Thread /\ Equipped(Goto(ServeStep(x)))
    <2>1. /\ th.item \in Requesters /\ s \in ServerData /\ th.rqn \in Requesters
          /\ th.pvn \in Launchers /\ Exists(th.pv) /\ th.pc # "idle"
      BY <1>0, <1>10, WorkerObjects, Zenon DEF Equipped, ProviderSteps, RequesterSteps, Steps
    <2>2. ASSUME NEW x \in {"create", "query", "wake", "labels", "delReqStopped", "delReqMeta"}
          PROVE  Goto(x) \in Thread /\ Equipped(Goto(x))
      BY <2>1, GotoStep, Zenon DEF Steps
    <2>3. \A x \in ServerData : ServeStep(x) \in {"query", "wake", "labels"}
      BY Zenon DEF ServeStep
    <2> QED
      BY <2>1, <2>2, <2>3, Zenon
  <1>11. CASE SyncBoundLauncher
    <2>1. th.pc \in {"sync", "create", "query", "wake", "labels"}
      BY <1>11, Zenon DEF SyncBoundLauncher
    <2>2. s \in ServerData /\ [s EXCEPT !.known = TRUE] \in ServerData
          /\ [s EXCEPT !.sleeping = "true"] \in ServerData
      BY <1>10, <2>1, MemoryObjects, Zenon
    <2>3. InstOK'
      BY <1>10, <1>11, <2>1, TypeParts, SyncedType, Unchanged, Zenon DEF SyncBoundLauncher, InstOK
    <2>4. CtlOK' /\ BudgetOK'
      BY <1>10, <1>11, <2>1, <2>2, TypeParts, AdvanceType, RetryType, DisruptType, Unchanged, Zenon
      DEF SyncBoundLauncher
    <2>5. UNCHANGED <<api, cache, world>>
      BY <1>11, Zenon DEF SyncBoundLauncher
    <2> QED
      BY <2>3, <2>4, <2>5, TypeParts, TypePartsNext, Unchanged
  <1>12. CASE DeleteRequesterOfStoppedInstance
    <2>1. /\ me \in Requesters /\ s \in ServerData /\ [s EXCEPT !.delreq = TRUE] \in ServerData
          /\ th.item \in Requesters
      BY <1>0, <1>12, WorkerObjects, MemoryObjects, Zenon DEF DeleteRequesterOfStoppedInstance
    <2> QED
      BY <1>12, <2>1, DeleteRequesterType, InitialObjects, Zenon
      DEF DeleteRequesterOfStoppedInstance
  <1>13. CASE CreateInstance
    <2>1. th.pc \in {"sync", "create", "query", "wake", "labels"}
      BY <1>13, Zenon DEF CreateInstance
    <2>2. s \in ServerData /\ [s EXCEPT !.known = TRUE] \in ServerData
      BY <1>10, <2>1, MemoryObjects, Zenon
    <2>3. SetInst(th.pvn, s.iid, "starting") \in [Launchers -> [InstanceIDs -> InstStates]]
      BY SetInstType, TypeParts, Zenon DEF InstStates
    <2>4. (Reachable(th.pvn) /\ inst[th.pvn][s.iid] = "absent") \in BOOLEAN
      BY Zenon
    <2> QED
      BY <1>10, <1>13, <2>1, <2>2, <2>3, <2>4, HttpCallType, Zenon DEF CreateInstance
  <1>14. CASE QuerySleeping
    <2> DEFINE is == inst[th.pvn][s.iid]
               u == [s EXCEPT !.sleeping = IF is = "asleep" THEN "true" ELSE "false"]
    <2>1. th.pc \in {"sync", "create", "query", "wake", "labels"}
      BY <1>14, Zenon DEF QuerySleeping
    <2>2. s \in ServerData /\ u \in ServerData
      BY <1>10, <2>1, MemoryObjects, Zenon
    <2>3. inst \in [Launchers -> [InstanceIDs -> InstStates]]
      BY TypeParts, Zenon DEF InstOK
    <2>4. (Reachable(th.pvn) /\ is \in {"awake", "asleep"}) \in BOOLEAN
      BY Zenon
    <2>5. HttpCall(Reachable(th.pvn) /\ is \in {"awake", "asleep"}, inst, s, u, Goto(ServeStep(u)))
      BY <1>14, Zenon DEF QuerySleeping
    <2> HIDE DEF is, u
    <2> QED
      BY <1>10, <2>1, <2>2, <2>3, <2>4, <2>5, HttpCallType, Zenon
  <1>15. CASE WakeUp
    <2>1. th.pc \in {"sync", "create", "query", "wake", "labels"}
      BY <1>15, Zenon DEF WakeUp
    <2>2. s \in ServerData /\ [s EXCEPT !.sleeping = "false"] \in ServerData
      BY <1>10, <2>1, MemoryObjects, Zenon
    <2>3. SetInst(th.pvn, s.iid, "awake") \in [Launchers -> [InstanceIDs -> InstStates]]
      BY SetInstType, TypeParts, Zenon DEF InstStates
    <2>4. (Reachable(th.pvn) /\ inst[th.pvn][s.iid] \in {"awake", "asleep"}) \in BOOLEAN
      OBVIOUS
    <2> QED
      BY <1>10, <1>15, <2>1, <2>2, <2>3, <2>4, HttpCallType, Zenon DEF WakeUp
  <1>16. CASE ApplyLabels
    <2> DEFINE o == [th.pv EXCEPT !.lab = "false", !.routed = @ \/ ~s.labels]
               t == ReqState(th, AddIf(ShouldAddFinalizer(th)), "ok", "relay")
               done == [s EXCEPT !.labels = TRUE]
    <2>0. th.pc \in {"sync", "create", "query", "wake", "labels"}
      BY <1>16, Zenon DEF ApplyLabels
    <2>1. s \in ServerData /\ done \in ServerData
      BY <1>10, <2>0, MemoryObjects, Zenon
    <2>2. o \in LaunPod /\ (Exists(o) <=> Exists(th.pv))
      BY <2>1, WorkerObjects, ZenonT(40) DEF LaunPod, ServerData, Exists
    <2>3. AddIf(ShouldAddFinalizer(th)) \in {"keep", "add", "rm"}
      BY Zenon DEF AddIf
    <2>4. t \in Thread /\ Equipped(t)
      BY <1>10, <2>0, <2>3, WorkerObjects, ReqStateType, Zenon DEF Reports
    <2>5. t.pv = th.pv
      BY WorkerObjects, Zenon DEF ReqState, Thread
    <2>6. [t EXCEPT !.pv = o] \in Thread /\ Equipped([t EXCEPT !.pv = o])
      <3> HIDE DEF t, o
      <3> QED
        BY <2>2, <2>4, <2>5, NewPv, Zenon
    <2>7. \/ Advance(s, t) /\ UNCHANGED <<api, cache, world, inst, ld, budget>>
          \/ Advance(s, Goto("delReqMeta")) /\ UNCHANGED <<api, cache, world, inst, ld, budget>>
          \/ Update(th.pvn, PutLp(th.pvn, o), s, done, [t EXCEPT !.pv = o])
      BY <1>16, Zenon DEF ApplyLabels
    <2> HIDE DEF o, t, done
    <2> QED
      BY <1>10, <2>0, <2>1, <2>2, <2>4, <2>6, <2>7, LocalStepType, UpdateLpType, Zenon
  <1>17. CASE DeleteRequesterOfInvalidMetadata
    <2>1. /\ th.rqn \in Requesters /\ s \in ServerData /\ [s EXCEPT !.delreq = TRUE] \in ServerData
          /\ th.item \in Requesters
      BY <1>0, <1>17, WorkerObjects, MemoryObjects, Zenon
      DEF DeleteRequesterOfInvalidMetadata, Equipped, RequesterSteps, Steps
    <2> QED
      BY <1>17, <2>1, DeleteRequesterType, InitialObjects, Zenon
      DEF DeleteRequesterOfInvalidMetadata
  <1>18. CASE RelayReadiness
    <2>1. th.item \in Requesters /\ s \in ServerData /\ [s EXCEPT !.relayed = TRUE] \in ServerData
      BY <1>0, <1>18, WorkerObjects, MemoryObjects, Zenon DEF RelayReadiness
    <2>2. WorldOK'
      BY <1>18, TypeParts, ZenonT(40) DEF RelayReadiness, WorldOK
    <2>3. CtlOK' /\ BudgetOK'
      BY <1>18, <2>1, TypeParts, AdvanceType, RetryType, DisruptType, Unchanged, InitialObjects, Zenon
      DEF RelayReadiness
    <2>4. UNCHANGED <<api, cache, inst, ld>>
      BY <1>18, Zenon DEF RelayReadiness
    <2> QED
      BY <2>2, <2>3, <2>4, TypeParts, TypePartsNext, Unchanged, Zenon
  <1>19. CASE EnsureReqState
    <2> DEFINE o == Reported(th.rq, s, th.args)
               t == AfterReqState(th)
    <2>1. th.item \in Requesters /\ th.rqn \in Requesters /\ s \in ServerData /\ th.pc # "idle"
      BY <1>0, <1>19, WorkerObjects, Zenon DEF EnsureReqState, Equipped, RequesterSteps, Steps
    <2>2. o \in ReqPod
      BY <2>1, WorkerObjects, RequesterObjects, Zenon
    <2>3. t \in Thread /\ Equipped(t)
      BY <2>1, WorkerObjects, GotoType, InitialObjects, ZenonT(40)
      DEF AfterReqState, Steps, ProviderSteps
    <2>4. \/ Advance(s, t) /\ UNCHANGED <<api, cache, world, inst, ld, budget>>
          \/ Retry(s) /\ UNCHANGED <<api, cache, world, inst, ld, budget>>
          \/ Update(th.rqn, PutReq(th.rqn, o), s, s, t)
          \/ /\ Retry(s) /\ (UNCHANGED api \/ PutReq(th.rqn, o))
             /\ UNCHANGED <<cache, world, inst, ld, budget>>
      BY <1>19, Zenon DEF EnsureReqState
    <2> HIDE DEF o, t
    <2>5. CASE Retry(s) /\ UNCHANGED <<cache, world, inst, ld, budget>> /\ (UNCHANGED api \/ PutReq(th.rqn, o))
      <3>1. ApiOK' /\ CtlOK'
        BY <2>1, <2>2, <2>5, TypeParts, PutReqType, RetryType, Unchanged, Zenon
      <3> QED
        BY <2>5, <3>1, TypeParts, TypePartsNext, Unchanged, Zenon
    <2> QED
      BY <2>1, <2>2, <2>3, <2>4, <2>5, LocalStepType, UpdateReqType, Zenon
  <1>20. CASE SelectOrReclaimLauncher
    <2>1. th.item \in Requesters /\ th.rqn \in Requesters /\ s \in ServerData /\ th.pc # "idle"
      BY <1>0, <1>20, WorkerObjects, Zenon
      DEF SelectOrReclaimLauncher, Equipped, RequesterSteps, Steps
    <2>2. Goto("newLauncher") \in Thread /\ Equipped(Goto("newLauncher"))
      BY <2>1, GotoStep, Zenon DEF Steps, ProviderSteps
    <2>3. /\ budget' = budget \/ Disrupt("callFails")
          /\ \/ \E l \in Candidates, seen \in SUBSET Candidates : \E victims :
                  /\ Selected(l, seen, victims)
                  /\ Advance(s, SelectedThread(l)) \/ Retry(s)
             \/ Retry(s) /\ UNCHANGED <<inst, ld>>
             \/ Advance(s, Goto("newLauncher")) /\ UNCHANGED <<inst, ld>>
      <3>1. PICK deaf \in SUBSET {l \in Candidates : clp[l].phase = "ready"} :
              SelectOrReclaimLauncher!2!(deaf)
        BY <1>20, Zenon DEF SelectOrReclaimLauncher
      <3> DEFINE usable == {l \in Candidates \ deaf : clp[l].phase = "ready" /\ Reachable(l)}
                 has == {l \in usable : th.want \in Listed(l)}
                 fits == {l \in usable : HasCapacity(Listed(l), th.want, InstPort, MaxInstances - 1)}
      <3>2. usable \in SUBSET Candidates /\ has \in SUBSET usable /\ fits \in SUBSET usable
        BY Zenon
      <3> HIDE DEF usable, has, fits
      <3> QED
        BY <3>1, <3>2, Zenon DEF usable, has, fits
    <2>4. ASSUME NEW l \in Candidates, NEW seen \in SUBSET Candidates, NEW victims,
                 Selected(l, seen, victims)
          PROVE  InstOK'
      <3> DEFINE v(x, i) == IF x = l /\ i \in victims THEN "absent"
                            ELSE IF x \in seen THEN Synced(x)[i] ELSE inst[x][i]
      <3>1. \A x \in Launchers, i \in InstanceIDs : v(x, i) \in InstStates
        BY TypeParts, SyncedType, Zenon DEF InstOK, InstStates
      <3>2. inst' = [x \in Launchers |-> [i \in InstanceIDs |-> v(x, i)]] /\ ld' = ld \cup seen
        BY <2>4, Zenon DEF Selected
      <3>3. ld \in SUBSET Launchers /\ seen \in SUBSET Launchers
        BY TypeParts, Zenon DEF InstOK, Candidates
      <3> HIDE DEF v
      <3> QED
        BY <3>1, <3>2, <3>3, Zenon DEF InstOK
    <2>5. ASSUME NEW l \in Candidates
          PROVE  SelectedThread(l) \in Thread /\ Equipped(SelectedThread(l))
      <3> DEFINE d == (th.dirty \ Launchers) \cup (Pending \cap {l})
      <3>1. /\ l \in Launchers /\ clp[l] \in LaunPod /\ Exists(clp[l])
            /\ th \in Thread /\ Equipped(th)
        BY TypeParts, WorkerObjects, Zenon DEF Candidates, CacheOK, Exists
      <3>2. d \in SUBSET Pods
        BY <3>1, Zenon DEF Thread, Pods
      <3>3. SelectedThread(l) = [th EXCEPT !.pc = "bind", !.pvn = l, !.pv = clp[l], !.dirty = d]
        BY <3>1, Zenon DEF SelectedThread, Thread
      <3>4. l # None
        BY <3>1, ConstantsOK, Zenon DEF Pods
      <3> HIDE DEF d
      <3>5. SelectedThread(l) \in Thread
        BY <3>1, <3>2, <3>3, ZenonT(40) DEF Thread, Steps
      <3>6. Equipped(SelectedThread(l))
        BY <2>1, <3>1, <3>3, <3>4, Zenon DEF Equipped, Thread
      <3> QED
        BY <3>5, <3>6, Zenon
    <2>6. InstOK' /\ CtlOK' /\ BudgetOK'
      BY <2>1, <2>2, <2>3, <2>4, <2>5, TypeParts, AdvanceType, RetryType, DisruptType, Unchanged, Zenon
    <2>7. UNCHANGED <<api, cache, world>>
      BY <1>20, Zenon DEF SelectOrReclaimLauncher
    <2> QED
      BY <2>6, <2>7, TypeParts, TypePartsNext, Unchanged, Zenon
  <1>21. CASE Bind
    <2> DEFINE o == Bound(th.pv, th.rqn, th.want)
               s0 == [s EXCEPT !.sleeping = "nil"]
               s1 == Committed(s, th.pvn, th.want)
               t == ReqState(th, AddIf(~th.rq.fin), "ok", "done")
    <2>1. /\ th.item \in Requesters /\ th.rqn \in Requesters /\ th.pvn \in Launchers
          /\ s \in ServerData
      BY <1>0, <1>21, WorkerObjects, Zenon DEF Bind, Equipped, RequesterSteps, ProviderSteps, Steps
    <2>2. o \in LaunPod /\ s0 \in ServerData /\ s1 \in ServerData
      BY <2>1, WorkerObjects, LauncherObjects, MemoryObjects, Zenon
    <2>3. AddIf(~th.rq.fin) \in {"keep", "add", "rm"}
      BY Zenon DEF AddIf
    <2>4. t \in Thread /\ Equipped(t)
      BY <2>1, <2>3, WorkerObjects, ReqStateType, Zenon DEF Reports
    <2>5. Update(th.pvn, PutLp(th.pvn, o), s0, s1, t)
      BY <1>21, Zenon DEF Bind
    <2> HIDE DEF o, s0, s1, t
    <2> QED
      BY <2>1, <2>2, <2>4, <2>5, UpdateLpType, Zenon
  <1>22. CASE CreateLauncher
    <2> DEFINE new == Bound([NoLp EXCEPT !.st = "live"], th.rqn, th.want)
               t0 == ReqState(th, "keep", "noLauncher", "retry")
               t1 == ReqState(th, "keep", "ok", "done")
    <2>1. th.item \in Requesters /\ th.rqn \in Requesters /\ s \in ServerData
      BY <1>0, <1>22, WorkerObjects, Zenon DEF CreateLauncher, Equipped, RequesterSteps, Steps
    <2>2. [NoLp EXCEPT !.st = "live"] \in LaunPod
      BY InitialObjects, LauncherObjects, Zenon DEF PodStates
    <2>3. new \in LaunPod /\ \A l \in Launchers : Committed(s, l, th.want) \in ServerData
      BY <2>1, <2>2, WorkerObjects, LauncherObjects, MemoryObjects, Zenon
    <2>4. t0 \in Thread /\ Equipped(t0) /\ t1 \in Thread /\ Equipped(t1)
      BY <2>1, WorkerObjects, ReqStateType, Zenon DEF Reports
    <2>5. \/ \E l \in Launchers :
               /\ PutLp(l, new)
               /\ \/ Advance(Committed(s, l, th.want), t1) /\ UNCHANGED budget
                  \/ Advance(s, t0) /\ Disrupt("lostReply")
          \/ Advance(s, t0) /\ UNCHANGED <<api, budget>>
          \/ Advance(s, t0) /\ UNCHANGED api /\ Disrupt("callFails")
      BY <1>22, Zenon DEF CreateLauncher
    <2> HIDE DEF new, t0, t1
    <2>6. ApiOK' /\ CtlOK' /\ BudgetOK'
      BY <2>1, <2>3, <2>4, <2>5, TypeParts, PutLpType, AdvanceType, DisruptType, Unchanged, Zenon
    <2>7. UNCHANGED <<cache, world, inst, ld>>
      BY <1>22, Zenon DEF CreateLauncher
    <2> QED
      BY <2>6, <2>7, TypeParts, TypePartsNext, Unchanged
  <1>23. CASE DeleteRequesterOnCordonedNode
    <2>1. s \in ServerData
      BY <1>0, <1>23, Zenon DEF DeleteRequesterOnCordonedNode
    <2>2. ApiOK' /\ CtlOK' /\ BudgetOK'
      BY <1>23, <2>1, TypeParts, DeleteReqType, AdvanceType, DisruptType, Unchanged, InitialObjects,
         Zenon
      DEF DeleteRequesterOnCordonedNode
    <2>3. UNCHANGED <<cache, world, inst, ld>>
      BY <1>23, Zenon DEF DeleteRequesterOnCordonedNode
    <2> QED
      BY <2>2, <2>3, TypeParts, TypePartsNext, Unchanged
  <1> QED
    BY <1>1, <1>2, <1>3, <1>4, <1>5, <1>6, <1>7, <1>8, <1>9, <1>11, <1>12, <1>13, <1>14, <1>15,
       <1>16, <1>17, <1>18, <1>19, <1>20, <1>21, <1>22, <1>23, Zenon DEF WorkerStep

LEMMA TouchType ==
    ASSUME CtlOK, NEW p \in Pods, Touch(p), UNCHANGED <<sd, queue>>
    PROVE  CtlOK'
PROOF
  BY Zenon DEF CtlOK, Touch, Thread, Equipped

\* A write of a Pod by somebody else.
LEMMA OtherWriteType ==
    ASSUME TypeInv, UNCHANGED <<ctl, world>>, InstOK', BudgetOK',
           \/ \E r \in Requesters, o \in ReqPod : PutReq(r, o) /\ Touch(r)
           \/ \E l \in Launchers, o \in LaunPod : PutLp(l, o) /\ Touch(l)
    PROVE  TypeInv'
PROOF
  <1>1. UNCHANGED <<cache, sd, ld, queue>>
    BY Zenon DEF ctl
  <1>2. ApiOK' /\ CtlOK'
    BY <1>1, TypeParts, PutReqType, PutLpType, TouchType, Zenon DEF Pods
  <1> QED
    BY <1>1, <1>2, TypeParts, TypePartsNext, Unchanged, Zenon

LEMMA QueueItemType ==
    ASSUME TypeInv, NEW r \in Requesters, TakeInfSvrItem(r)
    PROVE  TypeInv'
PROOF
  <1> DEFINE rq(x) == IF x = None THEN NoReq ELSE creq[x]
             pv(l) == IF l = None THEN NoLp ELSE clp[l]
             d(x, l) == Pending \cap {x, l}
             T(x, l) == [Idle EXCEPT !.item = r, !.rqn = x, !.pvn = l,
                            !.rq = rq(x), !.pv = pv(l), !.dirty = d(x, l)]
             S(l) == [sd[r] EXCEPT !.prov = IF l = None THEN @ ELSE l]
  <1>1. ASSUME NEW x \in Requesters \cup {None}, NEW l \in Launchers \cup {None}
        PROVE  S(l) \in ServerData /\ FirstCall(T(x, l), S(l)) \in Thread
               /\ Equipped(FirstCall(T(x, l), S(l)))
    <2>1. S(l) \in ServerData
      BY TypeParts, SMTT(30) DEF CtlOK, ServerData
    <2>2. /\ rq(x) \in ReqPod /\ (x = None => ~Exists(rq(x)))
          /\ pv(l) \in LaunPod /\ (l = None => ~Exists(pv(l)))
      BY TypeParts, InitialObjects, Zenon DEF CacheOK, NoReq, NoLp, Exists
    <2>3. None \notin Pending
      <3>1. \A k \in 1..Len(stream) : stream[k] \in Events
        BY TypeParts, SMTT(30) DEF ApiOK
      <3>2. \A e \in Events : e.pod \in Pods
        BY Zenon DEF Events, Pods
      <3> QED
        BY <3>1, <3>2, ConstantsOK DEF Pending
    <2>4. d(x, l) \in SUBSET Pods
      BY <2>3, TypeParts, Zenon DEF Pods
    <2> HIDE DEF rq, pv, d
    <2>5. Idle \in Thread /\ Idle.pc = "idle"
      BY InitialObjects, Zenon DEF Idle
    <2>6. /\ T(x, l) \in Thread
          /\ T(x, l).pc = "idle" /\ T(x, l).item = r
          /\ T(x, l).rqn = x /\ T(x, l).rq = rq(x) /\ T(x, l).pvn = l /\ T(x, l).pv = pv(l)
      BY <2>2, <2>4, <2>5, Zenon DEF Thread
    <2>7. Equipped(T(x, l))
      BY <2>2, <2>6, Zenon DEF Equipped, RequesterSteps, ProviderSteps
    <2> HIDE DEF T, S
    <2> QED
      BY <2>1, <2>6, <2>7, FirstCallType, Zenon DEF Equipped
  <1>2. \/ UNCHANGED <<sd, th>>
        \/ sd' = [sd EXCEPT ![r] = NoServerData] /\ th' = th
        \/ \E x \in Requesters \cup {None}, l \in Launchers \cup {None} :
             th' = FirstCall(T(x, l), S(l)) /\ sd' = [sd EXCEPT ![r] = S(l)]
    BY ZenonT(40) DEF TakeInfSvrItem, RequestersNamed, ProvidersOf
  <1> HIDE DEF T, S, rq, pv, d
  <1>3. sd' \in [Requesters -> ServerData] /\ th' \in Thread /\ Equipped(th)'
    <2>1. sd \in [Requesters -> ServerData] /\ th \in Thread /\ Equipped(th)
      BY TypeParts, Zenon DEF CtlOK
    <2>2. CASE UNCHANGED <<sd, th>>
      BY <2>1, <2>2, Zenon DEF Equipped
    <2>3. CASE sd' = [sd EXCEPT ![r] = NoServerData] /\ th' = th
      BY <2>1, <2>3, InitialObjects, Zenon DEF Equipped
    <2>4. ASSUME NEW x \in Requesters \cup {None}, NEW l \in Launchers \cup {None},
                 th' = FirstCall(T(x, l), S(l)) /\ sd' = [sd EXCEPT ![r] = S(l)]
          PROVE  sd' \in [Requesters -> ServerData] /\ th' \in Thread /\ Equipped(th)'
      <3>1. Equipped(th)' <=> Equipped(th')
        BY Zenon DEF Equipped
      <3> QED
        BY <1>1, <2>1, <2>4, <3>1, Zenon
    <2> QED
      BY <1>2, <2>2, <2>3, <2>4, Zenon
  <1>4. CtlOK'
    BY <1>3, TypeParts, Zenon DEF CtlOK, TakeInfSvrItem
  <1> QED
    BY <1>4, TypeParts, TypePartsNext, Unchanged, ZenonT(40) DEF TakeInfSvrItem

\* An event carries a version of the Pod that it is about, which names the item to do.
LEMMA EventIs ==
    ASSUME NEW e \in Events
    PROVE  /\ e.pod \in Requesters => e.obj \in ReqPod
           /\ e.pod \in Launchers => e.obj \in LaunPod
           /\ CareAbout(e.pod, e.obj) \in Pods
PROOF
  <1>1. e.pod \in Requesters => e.obj \in ReqPod
    BY ConstantsOK, Zenon DEF Events
  <1>2. e.pod \in Launchers => e.obj \in LaunPod
    BY ConstantsOK, Zenon DEF Events
  <1>3. CareAbout(e.pod, e.obj) \in Pods
    BY <1>2, ConstantsOK, Zenon DEF CareAbout, Events, Pods, LaunPod
  <1> QED
    BY <1>1, <1>2, <1>3, Zenon

\* The informers, the other two kinds of item, and everybody else keep TypeInv.
LEMMA EnvironmentType ==
    ASSUME TypeInv, Next, ~WorkerStep, ~(\E r \in Requesters : TakeInfSvrItem(r))
    PROVE  TypeInv'
PROOF
  <1> USE TypeParts, TypePartsNext, Unchanged
  <1>1. CASE DeliverPod
    <2> DEFINE e == Head(stream)
    <2>1. e \in Events /\ stream' \in Seq(Events)
      BY <1>1, SMTT(30) DEF DeliverPod, ApiOK
    <2>2. e.pod \in Requesters => e.obj \in ReqPod
      BY <2>1, EventIs, Zenon
    <2>3. e.pod \in Launchers => e.obj \in LaunPod
      BY <2>1, EventIs, Zenon
    <2>4. CareAbout(e.pod, e.obj) \in Pods
      BY <2>1, EventIs, Zenon
    <2>5. /\ creq' = IF e.pod \in Requesters THEN [creq EXCEPT ![e.pod] = e.obj] ELSE creq
          /\ clp' = IF e.pod \in Launchers THEN [clp EXCEPT ![e.pod] = e.obj] ELSE clp
          /\ queue' = queue \cup {CareAbout(e.pod, e.obj)}
          /\ UNCHANGED <<req, lp, ciscs, world, inst, sd, ld, th, budget>>
      BY <1>1, Zenon DEF DeliverPod
    <2> HIDE DEF e
    <2>6. ApiOK'
      BY <2>1, <2>5, Zenon DEF ApiOK
    <2>7. CacheOK'
      BY <2>2, <2>3, <2>5, Zenon DEF CacheOK
    <2>8. CtlOK'
      BY <2>4, <2>5, ZenonT(40) DEF CtlOK, Equipped
    <2> QED
      BY <2>5, <2>6, <2>7, <2>8, Zenon
  <1>2. ASSUME NEW c \in Iscs, DeliverIsc(c)
        PROVE  TypeInv'
    <2>1. CacheOK'
      BY <1>2, Zenon DEF DeliverIsc, CacheOK, WorldOK
    <2>2. CtlOK'
      BY <1>2, ZenonT(40) DEF DeliverIsc, CtlOK, Pods, Equipped
    <2> QED
      BY <1>2, <2>1, <2>2, ZenonT(40) DEF DeliverIsc
  <1>3. ASSUME NEW l \in Launchers, ProcessLauncherItem(l)
        PROVE  TypeInv'
    <2>1. CtlOK'
      BY <1>3, ZenonT(40) DEF ProcessLauncherItem, CtlOK, Pods, Equipped, UnboundRequesters
    <2>2. InstOK'
      BY <1>3, SyncedType, ZenonT(40) DEF ProcessLauncherItem, InstOK
    <2>3. BudgetOK'
      BY <1>3, DisruptType, Zenon DEF ProcessLauncherItem
    <2> QED
      BY <1>3, <2>1, <2>2, <2>3, ZenonT(40) DEF ProcessLauncherItem
  <1>4. ASSUME NEW c \in Iscs, ProcessInstanceGCItem(c)
        PROVE  TypeInv'
    <2>1. CtlOK'
      BY <1>4, Zenon DEF ProcessInstanceGCItem, CtlOK, Equipped
    <2>2. InstOK'
      <3> DEFINE seen == {l \in ld : clp[l].st = "live" /\ clp[l].phase # "pending" /\ Reachable(l)}
                 collected == [l \in Launchers |-> IF l \in seen THEN Collectable(c, l) ELSE {}]
                 v(l, i) == IF i \in collected[l] THEN "absent" ELSE inst[l][i]
      <3>1. \A l \in Launchers, i \in InstanceIDs : v(l, i) \in InstStates
        BY TypeParts, SMTT(30) DEF InstOK, InstStates
      <3>2. /\ inst' = inst \/ inst' = [l \in Launchers |-> [i \in InstanceIDs |-> v(l, i)]]
            /\ ld' = ld
        BY <1>4, Zenon DEF ProcessInstanceGCItem
      <3> HIDE DEF v
      <3> QED
        BY <3>1, <3>2, TypeParts, SMTT(30) DEF InstOK
    <2>3. BudgetOK'
      BY <1>4, DisruptType, Zenon DEF ProcessInstanceGCItem
    <2> QED
      BY <1>4, <2>1, <2>2, <2>3, Zenon DEF ProcessInstanceGCItem
  <1>5. ASSUME NEW r \in Requesters, CreateRequester(r)
        PROVE  TypeInv'
    <2>1. [NoReq EXCEPT !.st = "live"] \in ReqPod
      BY InitialObjects, RequesterObjects, Zenon DEF PodStates
    <2> QED
      BY <1>5, <2>1, OtherWriteType, Zenon DEF CreateRequester, ctl
  <1>6. ASSUME NEW r \in Requesters, RequesterStatus(r)
        PROVE  TypeInv'
    <2>1. req[r] \in ReqPod /\ spi[r] \in BOOLEAN
      BY Zenon DEF ApiOK, WorldOK
    <2>2. [req[r] EXCEPT !.ip = TRUE] \in ReqPod /\ [req[r] EXCEPT !.ready = spi[r]] \in ReqPod
      BY <2>1, RequesterObjects, Zenon
    <2> QED
      BY <1>6, <2>2, OtherWriteType, Zenon DEF RequesterStatus, ctl
  <1>7. ASSUME NEW r \in Requesters, UserDeletesRequester(r)
        PROVE  TypeInv'
    <2>1. Deleting(req[r]) \in ReqPod
      BY DeletingType, Zenon DEF ApiOK
    <2> QED
      BY <1>7, <2>1, OtherWriteType, Zenon DEF UserDeletesRequester, ctl
  <1>8. ASSUME NEW r \in Requesters, RequesterGone(r)
        PROVE  TypeInv'
    <2>1. [req[r] EXCEPT !.st = "gone"] \in ReqPod
      BY RequesterObjects, Zenon DEF ApiOK, PodStates
    <2> QED
      BY <1>8, <2>1, OtherWriteType, Zenon DEF RequesterGone, ctl
  <1>9. ASSUME NEW l \in Launchers, PopulateLauncher(l)
        PROVE  TypeInv'
    <2>1. [NoLp EXCEPT !.st = "live"] \in LaunPod
      BY InitialObjects, LauncherObjects, Zenon DEF PodStates
    <2> QED
      BY <1>9, <2>1, OtherWriteType, Zenon DEF PopulateLauncher, ctl
  <1>10. ASSUME NEW l \in Launchers, LauncherStatus(l)
         PROVE  TypeInv'
    <2>1. \A p \in Phases : [lp[l] EXCEPT !.phase = p] \in LaunPod
      BY LauncherObjects, Zenon DEF ApiOK
    <2>2. \E p \in Phases : PutLp(l, [lp[l] EXCEPT !.phase = p])
      BY <1>10, Zenon DEF LauncherStatus, Phases
    <2> QED
      BY <1>10, <2>1, <2>2, OtherWriteType, Zenon DEF LauncherStatus, ctl
  <1>11. ASSUME NEW l \in Launchers, LauncherStops(l)
         PROVE  TypeInv'
    <2>1. [lp[l] EXCEPT !.phase = "down"] \in LaunPod
      BY LauncherObjects, ZenonT(40) DEF ApiOK, Phases
    <2>2. InstOK'
      BY <1>11, Zenon DEF LauncherStops, ctl, InstOK, NoInstances, InstStates
    <2>3. BudgetOK'
      BY <1>11, DisruptType, Zenon DEF LauncherStops
    <2> QED
      BY <1>11, <2>1, <2>2, <2>3, OtherWriteType, Zenon DEF LauncherStops
  <1>12. ASSUME NEW l \in Launchers, DeleteLauncher(l)
         PROVE  TypeInv'
    <2>1. Deleting(lp[l]) \in LaunPod
      BY DeletingType, Zenon DEF ApiOK
    <2>2. BudgetOK'
      BY <1>12, DisruptType, Zenon DEF DeleteLauncher
    <2> QED
      BY <1>12, <2>1, <2>2, OtherWriteType, Zenon DEF DeleteLauncher, ctl
  <1>13. ASSUME NEW l \in Launchers, LauncherGone(l)
         PROVE  TypeInv'
    <2>1. [lp[l] EXCEPT !.st = "gone"] \in LaunPod
      BY LauncherObjects, Zenon DEF ApiOK, PodStates
    <2> QED
      BY <1>13, <2>1, OtherWriteType, Zenon DEF LauncherGone, ctl
  <1>14. ASSUME NEW l \in Launchers, NEW i \in InstanceIDs, VllmServes(l, i) \/ VllmDies(l, i)
         PROVE  TypeInv'
    <2>1. InstOK'
      BY <1>14, SetInstType, SMTT(30) DEF VllmServes, VllmDies, ctl, InstOK, InstStates
    <2>2. BudgetOK'
      BY <1>14, DisruptType, Zenon DEF VllmServes, VllmDies
    <2> QED
      BY <1>14, <2>1, <2>2, Zenon DEF VllmServes, VllmDies, ctl
  <1>15. ASSUME NEW c \in Iscs, EditIsc(c)
         PROVE  TypeInv'
    <2>1. iscs' \in [Iscs -> 0..MaxVer]
      BY <1>15, ConstantsOK DEF EditIsc, WorldOK
    <2>2. WorldOK'
      BY <1>15, <2>1, Zenon DEF EditIsc, WorldOK
    <2>3. BudgetOK'
      BY <1>15, DisruptType, Zenon DEF EditIsc
    <2> QED
      BY <1>15, <2>2, <2>3, Zenon DEF EditIsc, ctl
  <1>16. CASE NodeTrouble
    <2>1. WorldOK'
      BY <1>16, Zenon DEF NodeTrouble, WorldOK
    <2>2. BudgetOK'
      BY <1>16, DisruptType, Zenon DEF NodeTrouble
    <2> QED
      BY <1>16, <2>1, <2>2, Zenon DEF NodeTrouble, ctl
  <1>17. CASE RestartController
    <2>1. ApiOK' /\ CacheOK'
      BY <1>17, SMTT(30) DEF RestartController, ApiOK, CacheOK, WorldOK
    <2>2. WorldOK' /\ InstOK'
      BY <1>17, ZenonT(40) DEF RestartController, WorldOK, InstOK, world
    <2>3. \A l \in Launchers : CareAbout(l, lp[l]) \in Pods
      BY ConstantsOK, ZenonT(40) DEF CareAbout, ApiOK, LaunPod, Pods
    <2>4. CtlOK'
      BY <1>17, <2>3, InitialObjects, ZenonT(40) DEF RestartController, CtlOK, Equipped, Pods
    <2>5. BudgetOK'
      BY <1>17, DisruptType, Zenon DEF RestartController
    <2> QED
      BY <2>1, <2>2, <2>4, <2>5, Zenon
  <1> QED
    BY <1>1, <1>2, <1>3, <1>4, <1>5, <1>6, <1>7, <1>8, <1>9, <1>10, <1>11, <1>12, <1>13, <1>14,
       <1>15, <1>16, <1>17, Zenon DEF Next

LEMMA TypeInitial == Init => TypeInv
PROOF
  <1> SUFFICES ASSUME Init PROVE TypeInv
    BY Zenon
  <1>1. /\ req = [r \in Requesters |-> NoReq] /\ creq = req
        /\ lp = [l \in Launchers |-> NoLp] /\ clp = lp /\ stream = <<>>
        /\ iscs = [c \in Iscs |-> StartVer] /\ ciscs = iscs
        /\ node = "ok" /\ spi = [r \in Requesters |-> FALSE] /\ budget = MaxDisruptions
    BY Zenon DEF Init
  <1>2. ApiOK
    BY <1>1, InitialObjects DEF ApiOK
  <1>3. CacheOK /\ WorldOK
    BY <1>1, InitialObjects, ConstantsOK, Zenon DEF CacheOK, WorldOK
  <1>4. BudgetOK
    BY <1>1, ConstantsOK DEF BudgetOK
  <1>5. InstOK
    BY Zenon DEF Init, InstOK, NoInstances, InstStates
  <1>6. CtlOK
    BY InitialObjects, Zenon DEF Init, CtlOK
  <1> QED
    BY <1>2, <1>3, <1>4, <1>5, <1>6, TypeParts, Zenon

LEMMA TypeStep == TypeInv /\ [Next]_vars => TypeInv'
PROOF
  <1> SUFFICES ASSUME TypeInv, [Next]_vars PROVE TypeInv'
    BY Zenon
  <1>1. CASE UNCHANGED vars
    BY <1>1, TypeParts, TypePartsNext, Unchanged, Zenon DEF vars, api, cache, world
  <1> QED
    BY <1>1, WorkerType, QueueItemType, EnvironmentType, Zenon

\* Every variable keeps its type, and the worker has what its next call needs:
\* no call of infSvrItem.process is reached without the Pod it works on.
THEOREM TypeCorrect == Spec => []TypeOK
PROOF
  <1>1. TypeInv => TypeOK
    BY Zenon DEF TypeInv
  <1> QED
    BY <1>1, TypeInitial, TypeStep, PTL DEF Spec
===============================================================================
