# Fast Model Actuation in TLA+

Fast model actuation (FMA) gives a Kubernetes workload an inference server
quickly, by keeping vLLM instances asleep and waking them.  A *server-requesting
Pod* (requester) holds the accelerators and runs no server; the *dual-pods
controller* binds it to a *server-providing Pod* (provider), in which vLLM runs.
A *direct* provider is a Pod of its own, made from the requester's server patch.
In the launcher-based scheme the provider runs a *launcher*, a process that hosts
several vLLM instances of which at most one is awake; the *launcher-populator*
keeps enough launcher Pods on each Node.

This directory holds TLA+ modules of the parts of FMA, TLC configurations that
check them on small instances, and TLAPS proofs of the properties that matter
most for every instance.  `PROJECT.json` lists the components, runs, mutants,
the correspondence between definitions and source lines, hazards and theorems.

## The parts of the system

| part | source | module |
|---|---|---|
| dual-pods controller, launcher-based | `pkg/controller/dual-pods/` | `DualPods` |
| launcher selection and reclaiming | `selectOrReclaimLauncherPod` | `LauncherSelection` |
| dual-pods controller, direct providers; GPU map | `pkg/controller/dual-pods/` | `DirectProviders` |
| digested policy | `digest-updater.go`, `digested-policy.go` | `PolicyDigest` |
| launcher-populator, its expectations and stuck launchers | `pkg/controller/launcher-populator/` | `LauncherPopulator` (extends `PolicyDigest`) |
| launcher: instance table, events, watch endpoint | `inference_server/launcher/launcher.py` | `Launcher`; what it promises: `EventLog` |
| launcher Pod notifier | `launcher_pod_notifier.py` | `LauncherNotifier` (extends `Launcher`) |
| test requester's GPU allocation | `cmd/test-requester/gpu-allocation.go` | `GpuAllocation` |
| log relayed from launcher to requester | `launcher.py`, `coordination/server.go` | `LogRelay` |
| test requester | `cmd/test-requester/main.go` | `TestRequester` (extends both) |
| requester's readiness and probes | `pkg/server/requester/` | variable `spi` of `DualPods` and `DirectProviders` |

The parts meet in the API server.  The launcher-populator creates unbound
launcher Pods; the controller binds, wakes, sleeps and unbinds; the notifier turns
a change in a launcher's instances into a change of its Pod, so that the
controller is notified; the requester's container holds the readiness that the
controller relays to it and that kubelet reports back on the Pod.  Each module
models its neighbours by what they may do to the shared objects: in `DualPods`
the populator creates and deletes launchers and instances die; in
`LauncherPopulator` the dual-pods controller binds, unbinds and creates.

`MC*` modules give the constants of a configuration their values and symmetries.

Conventions of all controller modules.  A worker is cut at every API or HTTP
call, and each action is one call with the computation up to the next one;
between two calls anything else may happen.  Snapshots carry no version number:
a set (`dirty`) holds the Pods of which the snapshot is not the latest version,
and an Update or Delete with a resourceVersion precondition fails for those.  The
informer cache is the API server's state some events ago (`MaxLag` bounds how
many).  A call may fail without effect (`callFails`) or take effect with its
answer lost (`lostReply`).  A configuration names the kinds of disruption that
may happen (`DisruptionKinds`) and how many in all (`MaxDisruptions`).

## Runs

| run | instance | states | checks |
|---|---|---|---|
| `Handover` | two requesters sharing a GPU, one launcher; a failed call, restart or vLLM death | 1.4 M | `TypeOK`, `AwakeImpliesBound`, `MetadataStaysValid`, `ReadyOnlyWhenAwake` |
| `Competing` | two requesters with their own GPU, config and port, one launcher with room for one | 1.3 M | `RoomForInstance`, `AwakeImpliesBound`, `BoundAtMostOnce` |
| `Creation` | fair; one requester, two launchers yet to be made; one restart | 237 k | `AwakeImpliesBound`, `RequesterServed` |
| `Faults` | one requester, a config edited; two disruptions of five kinds | 1.4 M | `DualLabelsAgree`, `BindingInv`, `FinalizerGuardsSleep` |
| `Recovery` | fair; one requester, two ready launchers; one disruption of seven kinds | 118 k | `DeletionCompletes`, `RequesterServed`, `LauncherReleased` |
| `Direct` | two requesters, two GPUs, two patches, two providers, no sleepers allowed | 1.4 M | `DirectTypeOK`, `TakesOnlyReleased`, `DirectFinalizerGuardsSleep` |
| `DirectRecovery` | fair; one requester, provider and GPU; one disruption of six kinds | 192 k | `DirectDeletionCompletes`, `DirectRequesterServed`, `ProviderReleased` |
| `Population` | one policy for 0 or 2 launchers, three Pods; one edit, one bind, restart or slow start | 519 k | `TypeOK`, `DigestAgrees`, `BoundKept`, `RoomBeforeCreate`, `PopulationKept` |
| `Repopulation` | fair; one policy for one launcher, two Pods; one edit, one disruption of six kinds | 98 k | `Populated`, `StuckReported`, `DigestSettles` |
| `Watch` | fair; two instances, a buffer of two events, one client, one restart | 447 k | `LauncherTypeOK`, `ViewFollowsTable`, `LifeCycleLogged`, `ImplementsEventLog`, `StreamsCatchUp` |
| `Notifier` | fair; two instances, two failed patches or restarts | 533 k | `SignatureCatchesUp` |
| `Requester` | fair; three Pods on two nodes with three GPUs; one disruption; a log of two bytes | 79 k | `ExclusiveUnlessOverlooked`, `HoldsWhatIsRecorded`, `LogIsPrefix`, `NothingSkipped`, `AllocationSucceeds` |

All of them pass.  In most of the runs Pods and requesters do not return once gone and
the counters are bounded, so behaviours end; deadlock is therefore not checked,
and that nobody waits for ever is what the liveness properties say.

Further configurations of the same modules that pass: `IscEdits` (two requesters,
a config edited, room for two instances; 2.0 M), `TwoLaunchers`
(`AwakeImpliesBound` with two launchers and a failed call, launcher crash or
restart; 780 k), `Digest` (`PolicyDigest` alone, two policies and two edits, failing
Status writes), `PartialCreation` (`Repopulation` with two launchers called for and
three Pods; 677 k), `DirectMemory` (`DirectRecovery` with one sleeper allowed and the
accelerator-memory check; 166 k).  Configurations that exhibit what the code does
*not* guarantee are listed in the last but one section.

## DualPods: launcher-based providers on one Node

### State

* `req`, `lp`: the API server's requesters and launcher Pods.  A requester is
  identified by its UID; `NameOf` gives its name, which may be used again.  A Pod
  is `none`, `live`, `deleting` (it has a DeletionTimestamp) or `gone`.
* `stream`, `creq`, `clp`: the Pod watch stream and the informer cache.  All Pods
  come through one informer, so the cache is the API server's state some events
  ago.  `ciscs` is the cache of the InferenceServerConfig informer, which is not
  synchronised with it.
* `inst`: what each launcher hosts; an instance ID is (config, version, GPU),
  which is what the controller's hash tells apart.
* `sd`, `ld`: `serverData` and the launchers with `launcherData`; `queue`: the
  node's LocalQueue; `th`: the worker.  One worker at a time processes a Node, as
  the workqueue never hands the same `nodeItem` to two workers.

Disruptions besides failing calls: `restart` of the controller, `vllmDies`,
`launcherDies`, `evict`, `cordon` (also removal of the Node) and `iscGone`.

### What is abstracted

* Reads are merged with the call that follows; the garbage-collection item
  (`ProcessInstanceGCItem`) and the syncs in a launcher selection are one step.
* Every choice the LRU order could make among plans of equal size is allowed.
* LauncherConfig is fixed, status wording, metrics and events are left out, ISC
  routing metadata is non-empty, the kubelet's reports are true.
* The repair of an instance without a usable port, and a failing deletion of a
  stopped instance during a sync, are left out.
* An accelerator is held until its requester object is gone.
* A second crash of a launcher Pod's container is not told from the first.
* Running out of launcher names stands for the API server refusing a Create for the
  time being.  A Create that is refused because the Pod is invalid, an ISC whose
  metadata has problems and an empty set of GPUs are left out: each is reported in the
  requester's status and not retried, so that the requester waits for an edit.
* After a restart the caches are filled by a fresh list.

### Properties

| property | says |
|---|---|
| `AwakeImpliesBound` | an instance that starts or is awake is the one its launcher is bound with |
| `RoomForInstance` | a launcher never exceeds its instances nor has two on a port |
| `BoundAtMostOnce` | a launcher leaves its requester only by being unbound |
| `BindingInv` | caches are delayed copies and snapshots that can be written are fresh |
| `FinalizerGuardsSleep` | a requester's finalizer goes only when its provider sleeps or is gone |
| `ReadyOnlyWhenAwake` | readiness is relayed only when the bound instance has come to serve |
| `DualLabelsAgree` | at rest the two Pods of a pair name each other |
| `MetadataStaysValid` | the controller never finds its own labels colliding |
| `DeletionCompletes` | a deleted requester goes away, or a requester gets two launchers |
| `RequesterServed` | a requester becomes Ready unless it is deleted, its Node or config is lost, no launcher can be had, or a requester gets two |
| `LauncherReleased` | if no requester ever has two launchers, none stays bound to a departed one |

Conditions under which they are checked:

* `AwakeImpliesBound` without lost replies: a wake-up that took effect but whose
  answer was lost leaves the controller believing that the instance sleeps, and
  the unbinding skips the sleep call.  It is also checked without config edits
  when there are two launchers: a second provider found after an edit makes the
  controller use the one's instance ID with the other's launcher.
* `MetadataStaysValid` without lost replies: a label Update whose answer was lost
  makes the retry find its own labels.
* The liveness properties say nothing once a requester has two launchers.  That
  happens when the reply of a Create or of a bind is lost, or the requester is
  processed again with a cache that does not show its launcher bound
  (`StaleSecondProvider`); `process` then drops the requester's item every time
  (`inference-server.go:214`), a deleted requester keeps its finalizer, and both
  launchers stay bound.  Deleting one of them by hand is the way out.
* `RequesterServed` takes a requester for unservable when all launchers have gone and
  no name for another is left.  In `Recovery` the loss of one launcher leaves the
  other to serve; in `Creation` both are made, by the populator or on demand.
* `FinalizerGuardsSleep` and `ReadyOnlyWhenAwake` without launcher crashes,
  `FinalizerGuardsSleep` with names used once, `DeletionCompletes` without vLLM
  deaths, `DualLabelsAgree` with one launcher.
* Garbage collection may delete the sleeping instance a live requester has just
  been bound to, and the memory of a requester gone before its launcher is unbound
  is not cleared; no property is stated for either.

### Bounds and fairness

The watch stream holds one or two events, enough for the cache to miss the
worker's own last write and somebody else's.  Two requesters are enough for a
successor, a competitor and a name used twice; two launchers for a second
provider; two config versions for an obsolete instance.  Symmetry is used for
invariants and action properties only, and only where the constant functions on
the symmetric sets are constant or the identity; in `Competing` the two requesters
are swapped together with their configs and GPUs (`SwapSymmetry`).
The Delete of a launcher in trouble and of a requester on a cordoned Node may fail
without counting as another disruption, since the trouble was one.

`Recovery` starts with both launchers ready and known to the controller (`ReadyInit`),
a state that `Spec` reaches: from `Init` the two would take eight times as many states.
`Creation` starts from `Init`.

`Recovery` and `Creation` assume weak fairness of the informers, of the worker's next call (an
HTTP or API call returns), of kubelet and of a starting vLLM instance.  Strong
fairness of taking a queued item: `nodeItem.process` takes all the ready items of
its Node at once and a retried item becomes ready again after at most 20 s, so no
item is passed over for ever.  Users, the launcher-populator and the disruptions
owe nothing.

`LauncherSelection` holds pure operators for the planning in
`selectOrReclaimLauncherPod`, which `DualPods` uses in `SelectOrReclaimLauncher`.

## DirectProviders: direct providers on one Node

The API server, cache and worker are as in `DualPods`.  `req` and `pv` are the
requesters and the providers, `spi` the requester's readiness flag, the server of
a provider is absent, starting, awake or asleep.  A second worker of the
controller reads the GPU map (`ProcessGpuMap`) and enqueues every known inference
server after it has stored a new one (`EnqueueRequesters`), as `cmItem.process`
does.  A provider is found by the hash of the nominal Pod, which stands for patch,
accelerator and Node.

* `TakesOnlyReleased`: processing one requester never binds or deletes the
  provider of another live one.  Neither the match by hash nor the sleeper budget
  looks at the requester annotation; what protects a provider is that an
  accelerator belongs to one requester at a time.
* `DirectFinalizerGuardsSleep`: the finalizer of a requester goes only when the
  provider bound to it, or just unbound from it and still named by its dual label, is
  neither awake nor starting.  It says nothing of other providers on the accelerator: one
  that was unbound before it had an IP comes up awake without a requester
  (`DirectUnboundAwake`), and may be so when the finalizer of a later requester goes.
* `DirectDeletionCompletes`, `DirectRequesterServed`, `ProviderReleased`:
  deletions complete; a requester becomes Ready unless it is deleted, its
  accelerator is not in the GPU map, no provider can be made or the provider's
  container has restarted; a provider of a departed requester is unbound, taken
  over or deleted.  All three exclude two providers of one requester (`NeverTwo`),
  on which the controller gives up.

`Direct` starts after the controller has read the GPU map (`SettledInit`), a state that
`Spec` reaches in two steps; `DirectRecovery` starts before.
Fairness as in `Recovery`, and of the GPU map's worker.  `DirectRecovery` has one
provider name, so that the API server's refusal of a Create is reached soon.
Assumed: the Node stays schedulable, a requester has an IP and one accelerator, a
server patch makes a valid Pod, the budget may evict in any order of age, an entry
of the GPU map that does not parse counts as absent.  With the memory check on,
`DebugAccelMemory`, the sleeper limit is positive: the limit of memory is 4 GiB
per sleeper, so with none no wake-up would ever pass.

## PolicyDigest and LauncherPopulator: one Node and one LauncherConfig

What the populator's digest says about different pairs of Node and LauncherConfig
is computed separately, and each pair has a key of its own in the key queue, so
one pair is modelled.

`PolicyDigest`: the policies, the LauncherConfig and the Node in the API
(`objects`), their informers (each object's cached state and pending
notification), the digest (`updateDigestForLC`, `...ForLPP`, `...ForNode`,
`recomputeEntryFromLPPs`, `applyLPPToDigestForNode`), and the Status that the
digest worker writes, whose events come back to it.  A template is a version
number, `0` when it does not exist, and a value of its own when it is malformed.

`LauncherPopulator` adds the launcher Pods with their informer and the key
worker: `processKey` with its snapshot of the digest, the pending expectations
(`pending_expectations.go`), the three loops of `reconcileKey` (delete stale,
delete excess, create) and the stuck labels, one API call per step.  Key workers
start after the items of the initial batch are digested (`MayStart`).  Time is two
facts: `overdue` launchers have passed the stuck threshold, and the expectations'
deadline may pass, which is a disruption while the events are still on their way.

* `DigestAgrees`: with nothing left to deliver or digest, the digest is what the
  API objects call for, in whatever order they were edited, delivered and digested,
  and every policy's Status tells what is wrong with it.  `DigestSettles`: the
  Status writes do not feed on themselves.  No run deletes a policy and creates one of
  the same name: before the deletion is digested, the new generation 1 may be taken for
  the old one, and `DigestAgrees` fails (`ReusedPolicyName`; `FreshNames` under Proofs).
* `BoundKept`: however stale the cache, no bound launcher is deleted;
  `RoomBeforeCreate`: a launcher is created only when fewer than desired are there,
  those on their way out included; `PopulationKept`: without edits, nothing that is
  called for is deleted, not even by a worker that starts with an empty digest.
  `RoomBeforeCreate` is checked without lost replies, launchers made by others and
  expectations that time out: after each of them a count from the cache may miss a
  launcher.  `PopulationKept` is checked without failing Status writes: one in the
  initial batch is retried later, and after a restart the key workers then start with
  a digest that lacks the policy.
* `Populated`: when edits and disruptions are over, the number of launchers becomes
  and stays what policies and bound launchers call for, or names have run out.
  `StuckReported`: a launcher that is not Ready in time gets the stuck label, and
  loses it when it recovers, although nothing happens when it becomes overdue.

Fairness: informers deliver, both workers take what is queued and their calls
return, a launcher being deleted is released and goes away.  Three Pods let a
deletion overlap two creations; one edit and one disruption meet in every order.

## EventLog, Launcher and LauncherNotifier

The launcher is one asyncio event loop.  What a handler or generator does between
two awaits or yields is one step: `CreateInstance`, `StopInstances`, `SentinelExit`
(the callback on a dead process), `Notify` (the task that wakes the condition's
waiters), the steps of a stream (`StartStream`, `ListNext`, `Poll`, `Send`), and
what a client does (list, watch with or without `since`, disconnect).  `events` is the
bounded buffer; `log` is a history variable with everything published since the
process started; a client's `view`, `seen` and `whole` are what it has been told.
An iterator over a table that changed its size raises `RuntimeError`, which breaks
the connection.  A restart of the container empties the table and begins the
revisions at 0.

`EventLog` is the promise: events form a log, and a connected reader receives the
events from some point on, once each and in order.  `Launcher` implements it
(`ImplementsEventLog`) with a reader's next position mapped to the cursor less the
events taken and not yet sent.  `ViewFollowsTable` adds what a client makes of it:
one that started from a complete list and followed, with any number of
reconnections with `since`, knows the table once its stream has caught up.
`LifeCycleLogged`: created, perhaps stopped once, deleted, in this order.
`StreamsCatchUp`: no wake-up of the condition is lost.  Streams do not act on each
other, so one client is enough for TLC; a buffer of two events is outrun by three.
Fairness: the event loop gets to every callback and task, clients read.

`LauncherNotifier` composes the launcher with the poll loop beside it.  The
signature is the set of (ID, status).  `SignatureCatchesUp`: the annotation comes to
be the signature of the table again and again.  It is checked for patches that fail
without effect; see `LostReply` below for the others.
Fairness: the loop goes on; its failures are bounded.

## GpuAllocation, LogRelay and TestRequester

`GpuAllocation`: each process lists the Pods, reads or creates the ConfigMap, and
updates it with optimistic concurrency, one API call per step, with restarts,
deletions and lost replies.  `ExclusiveUnlessOverlooked`: no two requesters hold a
GPU, but for Pods that a process could not know of because they were created and
served between its list and its read.  `HoldsWhatIsRecorded`: a requester holds as
many GPUs as it asked for, visible and on its node, and the ConfigMap says so.
`AllocationSucceeds` (weak fairness of every process's tries): a Pod that stays
gets its GPUs, if no entry is left behind by another one's retry.

`LogRelay`: the launcher's log endpoint (`parse_range_header`, `get_log_bytes`) and
the requester's log handler (`addChunk`).  What carries the chunks is not in this
repository, so any chunk that could be read may arrive in any order and any number
of times.  `LogIsPrefix`: without failed writes the requester's log is the server's
log up to the accepted position; `NothingSkipped`: with them it repeats but has no
holes.  `TestRequester` composes the two: the server exists once the GPUs are
allocated, and a restart ends both.

## Proofs

Every theorem holds for all values of the constants that satisfy the named
assumptions.  `Spec => []P` is proved from an inductive invariant, which was also
checked with TLC on the instances of the runs.

`DualPodsTypeProofs` and `DualPodsProofs`, from the assumption `ConstantsOK` alone:

1. `TypeCorrect`.  `TypeOK` is not inductive: an action that uses the worker's
   item or snapshot needs it to be a Pod and not `None`.  `Equipped(th)` says what
   each step of the worker has at hand; `TypeOK /\ Equipped(th)` is inductive.
2. `BindingInvariant`.  The invariant `BindingInv` adds that the last event of a
   Pod carries its present state, that a Pod without an event is in the cache as it
   is in the API server, that a snapshot of the provider not marked dirty is the
   present launcher Pod, and that what is about to be bound was seen unbound.  The
   proof first says what any step may do to the cache (`CacheStep`) and to a launcher
   Pod (`LauncherStep`), and goes over the actions once for each.
3. `BindingStable`: `BoundAtMostOnce` follows from it.  The resourceVersion
   precondition is what carries the proof: `Bind` writes only over a launcher that
   is as it was seen, that is unbound.

`LauncherSelectionProofs`: for any finite set of instances and any port
assignment, deleting a plan's victims leaves capacity and port free
(`ReclaimMakesRoom`); a launcher without capacity has a victim, so
`reclaimPlanLRU`'s `victims[0]` exists (`ReclaimHasVictim`); and no smaller set
would do (`ReclaimIsMinimal`).  They rest on `FiniteSetTheorems` and on finiteness
of the listed instances.

`PolicyDigestProofs`, from `DigestConstants`: `DigestIsRight`, that is `DigestAgrees`.
The property speaks only of states in which nothing is left to do, so the invariant
`DigestInv` says what is right in the meantime: an informer's copy differs from its
object only while an event is on its way (`InformersOK`), the digest from the copies
only while an item is queued (`DigestOK`), the count of the entry from its references
only while a referring policy is queued (`EntryOK`).  The digest updater recognises
a policy by its generation, hence `GenerationsOK`: the API, the informer and the
digest mean the same content by the same generation.  That is false when a deleted
policy's name is used again, with generations that start over, before the deletion was
digested.  The theorem therefore assumes `FreshNames`: whenever a policy is created,
neither the informer nor the digest knows one of that name, because there was none or
because its end was digested.  Creations, edits and deletions are otherwise free.

`LauncherPopulatorProofs`, from `PopulatorConstants` too: `PopulatorDigestIsRight`,
the same for the populator as a whole, whose other steps leave `DigestInv` alone, and
`BoundLaunchersAreKept`, that is `BoundKept`, with no assumption on names.
Its invariant `PodInv` says that the last event of a Pod tells its state
(`PodStreamOK`) and that a Pod which the worker saw unbound, and whose snapshot the
Delete's preconditions still accept, is unbound (`SnapshotOK`).

`LauncherProofs`, from `LauncherConstants`: `WatchImplementsEventLog`, the
refinement of `EventLog` for any number of instances, clients and restarts and any
size of the buffer.  The inductive invariant `WatchInv` says that revisions count
the published events, so that the buffer is the end of the log (`BufferIsSuffix`),
and that what a stream has taken and not yet sent is the piece of the log that ends
at its cursor (`Piece`).  Without the second the events sent after the buffer has
moved on could not be placed in the log.  One lemma per action then shows that it
keeps the invariant and maps to a step of `EventLog` or a stutter.

`LauncherViewProofs` adds `LauncherTypes` (`LauncherTypeOK`), `ClientsFollowTable`
(`ViewFollowsTable`) and `LifeCyclesAreLogged` (`LifeCycleLogged`).  The invariant
`ViewInv` ties the three things that `launcher.py` keeps apart: the last event about
an instance in the log tells what the table says of it (`TableLogged`), each event
follows the previous one about its instance as it may (`LifeInOrder`), and a client
is right about every instance that no event beyond its position is about
(`ClientsInformed`).  While it is being sent the list a client may also be wrong
about the instances born after the last one listed, which is why the order of the
table has to be that of the creations.

`TestRequesterProofs`, from `AllocationConstants` and `RelayConstants`:

* `GPUsAreExclusive` (`ExclusiveUnlessOverlooked`) and `HoldingsAreRecorded`
  (`HoldsWhatIsRecorded`).  The invariant `AllocInv` says of a process about to write
  the ConfigMap that, if the write will be accepted, it enters the process for what it
  chose and keeps the entries of every other Pod that exists and is not overlooked
  (`DataOK`), and that who serves is entered for what it holds (`EnteredOK`).
* `RelayIsFaithful` (`LogIsPrefix`) and `RelaySkipsNothing` (`NothingSkipped`), for
  logs, chunks and failed writes of any number.  They are not inductive: a retry
  after a failed write appends at the accepted position, which leaves no hole only
  because the last byte written is not before it (`LastByte`).
* `RequesterIsSafe`: the four hold in the composition with restarts.

Only model-checked:

* Liveness under fairness, which is out of the prover's reach.
* `TypeOK` of `LauncherPopulator`: that the recomputed count is again one of `Counts`
  needs the maximum of any finite set to exist, an induction over data, and its
  bounds on the worker's counters are those of an instance.  `PodTypes` and
  `DigestTypes` are what the proofs need of it.
* `AwakeImpliesBound`, `RoomForInstance`, `FinalizerGuardsSleep`,
  `ReadyOnlyWhenAwake`, `DualLabelsAgree` and `MetadataStaysValid`: each holds under
  conditions on lag, names, launchers and disruptions only (see above), which a
  theorem would have to assume, and needs the order of the events in the stream.
* `RoomBeforeCreate` and `PopulationKept`, and the properties of `DirectProviders`.

No module uses `RECURSIVE`, and nothing is proved by induction over data.

## What the code does not guarantee

Configurations in which TLC finds the named property violated.  Each states
something that a document or a comment says, or that one might expect.

| configuration | property | what happens |
|---|---|---|
| `StaleSecondProvider` | `AtMostOneProvider` | reprocessed with a cache that does not show its launcher bound, a requester gets a second launcher (`docs/dual-pods.md:730`, "at most one!") |
| `SleepOnDeadInstance` | `DeletionCompletes` | a requester deleted after its instance died and before a sync noticed is never released: POST /sleep is retried for ever (`inference-server.go:470`) |
| `RoutedInstance` | `RoutedInstanceServes` | a stale copy without routing labels makes the controller skip their removal before the sleep (`inference-server.go:1322`) |
| `ReusedName` | `FinalizerGuardsSleep` | the item of a departed requester removes the finalizer of a newer one of the same name (`docs/dual-pods.md:738`) |
| `SharedAccelerator` | `ExclusiveAccelerator` | a requester deleted between binding and finalizer is gone at once; its accelerator then serves two awake instances (`docs/dual-pods.md:783`) |
| `DirectUnboundAwake` | `DirectAwakeImpliesBound` | a provider unbound before it is scheduled starts awake |
| `StaleSleep` | `ReadyServerIsAwake` | /sleep is posted from a stale snapshot after a successor has taken the provider over; the Update after it fails, the server sleeps |
| `MatchAwake` | `MatchIsAsleep` | the provider matched by hash is awake (comment: "They have to be sleeping") |
| `ReusedPolicyName` | `DigestAgrees` | a policy is deleted and created again before the deletion is digested: equal generations make the digest keep the old contents |
| `StaleTemplate` | `StaleReplaced` | an edit of a template queues no key as long as the count is the same: launchers of the old template stay (`docs/dual-pods.md:197`) |
| `MissingConfig` | `HandsOffKept` | between the digestion of a deleted LauncherConfig and of its policies, a key taken has the old count and no template hash: unbound launchers are deleted (`docs/dual-pods.md:200`) |
| `NilTemplate` | `TemplateAtHand` | in the same window launchers are to be created from a nil template, which panics |
| `LostReply` | `SignatureCatchesUp` | a patch is applied and its reply lost while the table goes from A to B and back to A: the annotation stays at B's signature |
| `SharedGPU` | `ExclusiveGPU` | a Pod created between list and read is overlooked, its entries removed and its GPU given away |
| `RepeatedLog` | `OnlyNewContent` | a short write is repeated from its beginning |

Met while modelling, without a configuration: a launcher restart begins revisions
at 0, so a client's high `since` waits silently for events it will not get; a
watcher without `since` that is cut off during the listing and resumes with the
last revision it was told can miss events; an unknown GPU UUID is answered with
409, which `docs/launcher.md:301` explains as an existing ID; a test requester's
own entries from before a restart are not swept (`cmd/test-requester/main.go:47`);
the label update in a direct `bind` uses the resourceVersion from before the bind
and always needs a retry; readiness that goes and comes back with a restarted
container is not relayed; a second Create after a lost reply leaves a requester
with two direct providers for good.

## Not modelled

* A launcher Pod that loses its readiness without a restart: to the populator, Ready
  is final.  The re-queueing for stuck launchers is per Pod in the model and for the
  earliest of the transitions in the code (`metrics.go:286`).
* The waking of several Nodes' workers by one queue (the Nodes are independent);
  the delays of the LocalQueue and the rate limiter, abstracted to any delay.
* CPython details of iterating over a dict that was changed and brought back to the
  same size.
* Direct providers with several accelerators, without an IP, on a Node that is
  cordoned, or with a patch that makes no valid Pod.
* Metrics (written, never read), except for the phases the populator acts on; the
  GPU translator (a table read at start); API types and generated clients
  (declarations); mains (wiring); the construction of Pod specs (data, abstracted
  to a hash); the test server, benchmarks and observability (not part of the
  protocols).
