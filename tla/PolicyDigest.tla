----------------------------- MODULE PolicyDigest -----------------------------
(* The launcher-populator's digested policy for one Node and one               *)
(* LauncherConfig: the three API objects it is computed from, their informers, *)
(* and the digest worker (updateDigestForLC, updateDigestForLPP,               *)
(* updateDigestForNode).  What the digest says about different pairs of Node   *)
(* and LauncherConfig is computed separately.                                  *)
EXTENDS Integers, FiniteSets, FiniteSetsExt

CONSTANTS
    Policies,         \* names of LauncherPopulationPolicy objects
    Counts,           \* the launcher counts a policy may ask for
    Labels,           \* what the Node may be labelled with and a policy may select
    MaxVer,           \* versions of the LauncherConfig's Pod template
    MaxGen,           \* generations of a LauncherPopulationPolicy
    MaxEdits, EditKinds,
    MaxDisruptions, DisruptionKinds

ASSUME DigestConstants ==
    /\ IsFiniteSet(Policies) /\ {"lc", "node"} \cap Policies = {}
    /\ Counts \subseteq Nat /\ {"gone", "malformed"} \cap Labels = {}
    /\ MaxVer \in Nat \ {0} /\ MaxGen \in Nat \ {0}
    /\ MaxEdits \in Nat /\ MaxDisruptions \in Nat

VARIABLES
    lc, lpp, node,    \* the API objects
    clc, clpp, cnode, \* the informers' copies
    news,             \* the objects with an event on its way to the informer
    digestQueue,      \* the digest worker's queue
    batch,            \* the items queued at start that are still to be processed
    dlc,              \* policy.lcs: the version digested, NoConfig or Malformed
    dlpp,             \* policy.lpps
    entry,            \* policy.digest of the pair
    keyQueued,        \* the pair is in keyQueue
    edits, disruptions

objects == <<lc, lpp, node>>
informers == <<clc, clpp, cnode>>
digest == <<dlc, dlpp, entry>>
digestVars == <<objects, informers, news, digestQueue, batch, digest, keyQueued,
                edits, disruptions>>

\* "No launcher count": the policy does not select the Node or does not mention
\* the LauncherConfig.
NotWanted == -1
HandsOff == -1
\* Values of a LauncherConfig's version besides those of good templates.
NoConfig == 0
Malformed == -1

\* A policy's Status: the verdicts on its selector and on the LauncherConfig.  A
\* policy that does not exist, in the API and in the digest.
Unset == <<"unset", "unset">>
NoPolicy == [gen |-> 0, sel |-> "gone", count |-> NotWanted, status |-> Unset]
NoDigest == [gen |-> 0, sel |-> "gone", count |-> NotWanted, mentions |-> FALSE]
NoEntry == [refs |-> [p \in Policies |-> NotWanted], desired |-> 0]

\* A policy that has just been created has generation 1.
NewPolicies ==
    {[gen |-> 1, sel |-> l, count |-> c, status |-> Unset] : l \in Labels, c \in Counts}

Statuses == {Unset} \cup ({"ok", "malformed"} \X {"ok", "missing", "malformed"})
ConfigVersions == {NoConfig, Malformed} \cup 1..MaxVer
PolicyCounts == Counts \cup {NotWanted}
PolicyObjects ==
    [gen : 0..MaxGen, sel : Labels \cup {"gone", "malformed"}, count : PolicyCounts,
     status : Statuses]
DigestItems == Policies \cup {"lc", "node"}

\* Every variable of the digest has its type.
DigestTypeOK ==
    /\ {lc, clc} \subseteq [ver : ConfigVersions, reported : BOOLEAN]
    /\ lpp \in [Policies -> PolicyObjects] /\ clpp \in [Policies -> PolicyObjects]
    /\ node \in Labels \cup {"gone"} /\ cnode \in Labels \cup {"gone"}
    /\ news \subseteq DigestItems /\ digestQueue \subseteq DigestItems
    /\ batch \subseteq digestQueue
    /\ dlc \in ConfigVersions
    /\ dlpp \in [Policies -> [gen : 0..MaxGen, sel : Labels \cup {"gone", "malformed"},
                              count : PolicyCounts, mentions : BOOLEAN]]
    /\ entry \in [refs : [Policies -> PolicyCounts], desired : Counts \cup {0, HandsOff}]
    /\ keyQueued \in BOOLEAN
    /\ edits \in 0..MaxEdits /\ disruptions \in 0..MaxDisruptions

Disrupt(kind) ==
    /\ kind \in DisruptionKinds /\ disruptions < MaxDisruptions
    /\ disruptions' = disruptions + 1

\* The objects that exist, by the digest items they are queued as.
Existing ==
    {p \in Policies : lpp[p].gen # 0} \cup {o \in {"lc"} : lc.ver # NoConfig}
        \cup {o \in {"node"} : node # "gone"}

\* The digest of a controller that has just been started, its caches filled.
DigestStart ==
    /\ clc' = lc' /\ clpp' = lpp' /\ cnode' = node' /\ news' = {}
    /\ digestQueue' = Existing' /\ batch' = Existing'
    /\ dlc' = NoConfig /\ dlpp' = [p \in Policies |-> NoDigest] /\ entry' = NoEntry

DigestInit ==
    /\ lc = [ver |-> 1, reported |-> FALSE]
    /\ node \in Labels
    /\ lpp \in [Policies -> NewPolicies \cup {NoPolicy}]
    /\ clc = lc /\ clpp = lpp /\ cnode = node /\ news = {}
    /\ digestQueue = Existing /\ batch = Existing
    /\ dlc = NoConfig /\ dlpp = [p \in Policies |-> NoDigest] /\ entry = NoEntry
    /\ keyQueued = FALSE /\ edits = 0 /\ disruptions = 0
-------------------------------------------------------------------------------
(* Users and administrators.                                                   *)

Edit(kind, o) ==
    /\ kind \in EditKinds /\ edits < MaxEdits /\ edits' = edits + 1
    /\ news' = news \cup {o}
    /\ UNCHANGED <<informers, digestQueue, batch, digest, keyQueued, disruptions>>

EditConfig ==
    /\ Edit("config", "lc")
    /\ \E v \in 1..MaxVer \ {lc.ver} : lc' = [ver |-> v, reported |-> FALSE]
    /\ UNCHANGED <<lpp, node>>

SpoilConfig ==
    /\ Edit("noConfig", "lc")
    /\ \E v \in {NoConfig, Malformed} \ {lc.ver} : lc' = [ver |-> v, reported |-> FALSE]
    /\ UNCHANGED <<lpp, node>>

\* A policy is changed.
EditPolicy(p) ==
    /\ Edit("policy", p)
    /\ lpp[p].gen \in 1..(MaxGen - 1)
    /\ \E sel \in Labels \cup {"malformed"}, c \in PolicyCounts :
          /\ <<sel, c>> # <<lpp[p].sel, lpp[p].count>>
          /\ lpp' = [lpp EXCEPT ![p] = [gen |-> @.gen + 1, sel |-> sel, count |-> c,
                                        status |-> Unset]]
    /\ UNCHANGED <<lc, node>>

DeletePolicy(p) ==
    /\ Edit("policy", p)
    /\ lpp[p].gen # 0 /\ lpp' = [lpp EXCEPT ![p] = NoPolicy]
    /\ UNCHANGED <<lc, node>>

CreatePolicy(p) ==
    /\ Edit("newPolicy", p)
    /\ lpp[p].gen = 0 /\ \E new \in NewPolicies : lpp' = [lpp EXCEPT ![p] = new]
    /\ UNCHANGED <<lc, node>>

\* The Node is relabelled, removed or added.
EditNode ==
    /\ Edit("node", "node")
    /\ \E l \in (Labels \cup {"gone"}) \ {node} : node' = l
    /\ UNCHANGED <<lc, lpp>>
-------------------------------------------------------------------------------
(* The informers and the digest worker.                                        *)

\* OnAdd, OnUpdate and OnDelete of the three kinds of object.
Deliver(o) ==
    /\ o \in news /\ news' = news \ {o}
    /\ digestQueue' = digestQueue \cup {o}
    /\ clc' = IF o = "lc" THEN lc ELSE clc
    /\ cnode' = IF o = "node" THEN node ELSE cnode
    /\ clpp' = [p \in Policies |-> IF o = p THEN lpp[p] ELSE clpp[p]]
    /\ UNCHANGED <<objects, batch, digest, keyQueued, edits, disruptions>>

\* The worker takes item o; what was queued at start comes first.
TakeItem(o) ==
    /\ o \in digestQueue /\ (batch = {} \/ o \in batch)
    /\ batch' = batch \ {o}

\* UpdateStatus of the object o with the cached resourceVersion.  done is what
\* follows a success; a failure leaves the digest alone and queues the item again.
ReportStatus(o, written, done) ==
    \/ /\ o \notin news /\ written /\ news' = news \cup {o}
       /\ \/ done /\ UNCHANGED disruptions
          \/ /\ Disrupt("lostReply")
             /\ UNCHANGED <<digestQueue, digest, keyQueued>>
    \/ /\ o \in news \/ "callFails" \in DisruptionKinds
       /\ IF o \in news THEN UNCHANGED disruptions ELSE Disrupt("callFails")
       /\ UNCHANGED <<objects, news, digestQueue, digest, keyQueued>>

\* recomputeEntryFromLPPs, for an entry with the references refs and the digested
\* configuration v.
Recompute(refs, v) ==
    LET counts == {refs[p] : p \in {q \in Policies : refs[q] # NotWanted}} IN
    [refs |-> refs,
     desired |-> IF counts = {} THEN 0
                 ELSE IF v \in {NoConfig, Malformed} THEN HandsOff
                 ELSE Max(counts)]

\* applyLPPToDigestForNode: counts[p] is what each policy p of ps now says.
Apply(ps, counts) ==
    LET touched == {p \in ps : counts[p] # NotWanted \/ entry.refs[p] # NotWanted}
        refs == [p \in Policies |-> IF p \in touched THEN counts[p] ELSE entry.refs[p]]
    IN IF touched = {} THEN entry ELSE Recompute(refs, dlc)

\* Mutant of Dependents: a template that changes does not concern the policies.
DependentsOnExistence(v) ==
    {p \in Policies : (dlc = NoConfig) # (v = NoConfig) /\ dlpp[p].gen # 0 /\ dlpp[p].mentions}

\* The policies to process again when the configuration is digested as v.
Dependents(v) == {p \in Policies : dlc # v /\ dlpp[p].gen # 0 /\ dlpp[p].mentions}

UpdateDigestForLC ==
    LET done == /\ dlc' = clc.ver /\ UNCHANGED <<dlpp, entry, keyQueued>>
                /\ digestQueue' = (digestQueue \ {"lc"}) \cup Dependents(clc.ver)
    IN /\ TakeItem("lc")
       /\ \/ /\ clc.ver = NoConfig \/ clc.reported
             /\ done /\ UNCHANGED <<lc, news, disruptions>>
          \/ /\ clc.ver # NoConfig /\ ~clc.reported
             /\ ReportStatus("lc", lc' = [lc EXCEPT !.reported = TRUE], done)
       /\ UNCHANGED <<lpp, node, informers, edits>>

\* What updateDigestForLPP finds wrong with policy object o.
Verdict(o) ==
    <<IF o.sel = "malformed" THEN "malformed" ELSE "ok",
      IF o.count = NotWanted \/ dlc > 0 THEN "ok"
      ELSE IF dlc = NoConfig THEN "missing" ELSE "malformed">>

\* Mutant of Reported: the Status is written whatever it says.
NeverReported(o) == o.gen = 0

\* setLPPStatusErrors has nothing to write.
Reported(o) == o.gen = 0 \/ o.status = Verdict(o)

\* The digested count of policy object o, of which the digest holds d: computed
\* anew when the generation is another one.
Digested(o, d) ==
    IF o.sel = "malformed" \/ o.gen = 0 THEN NotWanted
    ELSE IF d.gen = o.gen THEN d.count ELSE o.count

UpdateDigestForLPP(p) ==
    LET o == clpp[p]
        count == Digested(o, dlpp[p])
        matched == o.gen # 0 /\ cnode = o.sel
        new == Apply({p}, [q \in {p} |-> IF matched THEN count ELSE NotWanted])
        done == /\ dlpp' = [dlpp EXCEPT ![p] =
                              IF o.gen = 0 THEN NoDigest
                              ELSE [gen |-> o.gen, sel |-> o.sel, count |-> count,
                                    mentions |-> o.count # NotWanted]]
                /\ entry' = new
                /\ keyQueued' = (keyQueued \/ new.desired # entry.desired)
                /\ digestQueue' = digestQueue \ {p} /\ UNCHANGED dlc
    IN /\ TakeItem(p)
       /\ \/ /\ Reported(o)
             /\ done /\ UNCHANGED <<lpp, news, disruptions>>
          \/ /\ ~Reported(o)
             /\ ReportStatus(p, lpp' = [lpp EXCEPT ![p].status = Verdict(o)], done)
       /\ UNCHANGED <<lc, node, informers, edits>>

\* The policies are applied one after the other, so that the key may be queued for
\* a count that only an intermediate entry had.
UpdateDigestForNode ==
    LET known == {p \in Policies : dlpp[p].gen # 0}
        After(ps) == Apply(ps, [p \in ps |-> IF cnode = dlpp[p].sel THEN dlpp[p].count
                                             ELSE NotWanted])
        new == IF cnode = "gone" THEN NoEntry ELSE After(known)
    IN /\ TakeItem("node")
       /\ entry' = new
       /\ \/ cnode = "gone" /\ keyQueued' = keyQueued
          \/ cnode # "gone" /\ keyQueued' = (keyQueued \/ new.desired # entry.desired)
          \/ /\ cnode # "gone" /\ \E ps \in SUBSET known : After(ps).desired # entry.desired
             /\ keyQueued' = TRUE
       /\ digestQueue' = digestQueue \ {"node"}
       /\ UNCHANGED <<objects, informers, news, dlc, dlpp, edits, disruptions>>

DigestWork ==
    \/ \E o \in DigestItems : Deliver(o)
    \/ UpdateDigestForLC \/ UpdateDigestForNode
    \/ \E p \in Policies : UpdateDigestForLPP(p)

DigestNext ==
    \/ EditConfig \/ SpoilConfig \/ EditNode
    \/ \E p \in Policies : EditPolicy(p) \/ DeletePolicy(p) \/ CreatePolicy(p)
    \/ DigestWork

\* The digest by itself.
DigestSpec == DigestInit /\ [][DigestNext]_digestVars
-------------------------------------------------------------------------------
(* What the API objects call for.                                              *)

\* PopulationPolicy of the pair, as the objects present in the API say it.
Wanted == {p \in Policies : lpp[p].gen # 0 /\ lpp[p].sel = node /\ lpp[p].count # NotWanted}
PopulationPolicy ==
    IF Wanted = {} THEN 0
    ELSE IF lc.ver \in {NoConfig, Malformed} THEN HandsOff
    ELSE Max({lpp[p].count : p \in Wanted})

\* Once no event and no item is left, the digest is what the API objects call for
\* whatever the order in which they were edited, delivered and digested, and every
\* policy's Status tells whether its LauncherConfig is missing or malformed.
DigestAgrees ==
    news = {} /\ digestQueue = {} =>
        /\ entry.desired = PopulationPolicy
        /\ dlc = lc.ver
        /\ \A p \in Policies :
              /\ entry.refs[p] = IF p \in Wanted THEN lpp[p].count ELSE NotWanted
              /\ lpp[p].gen # 0 => lpp[p].status = Verdict(lpp[p])

\* The digest worker's Status writes, whose events come back to it, come to an end
\* once nobody edits any object.
DigestSettles == <>[](news = {} /\ digestQueue = {})
===============================================================================
