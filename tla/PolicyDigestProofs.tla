-------------------------- MODULE PolicyDigestProofs --------------------------
(* The digested policy for any policies, counts, labels, versions and numbers   *)
(* of edits and disruptions.                                                    *)
EXTENDS PolicyDigest, TLAPS

DigestedPolicies ==
    [gen : 0..MaxGen, sel : Labels \cup {"gone", "malformed"}, count : PolicyCounts,
     mentions : BOOLEAN]
ConfigObjects == [ver : ConfigVersions, reported : BOOLEAN]

DigestTypes ==
    /\ lc \in ConfigObjects /\ clc \in ConfigObjects
    /\ lpp \in [Policies -> PolicyObjects] /\ clpp \in [Policies -> PolicyObjects]
    /\ node \in Labels \cup {"gone"} /\ cnode \in Labels \cup {"gone"}
    /\ news \subseteq DigestItems /\ digestQueue \subseteq DigestItems
    /\ dlc \in ConfigVersions /\ dlpp \in [Policies -> DigestedPolicies]
    /\ entry.refs \in [Policies -> PolicyCounts]

\* A policy that is not there selects nothing and asks for nothing.
Selects(o) == o.gen # 0 => o.sel # "gone"

\* The digest d is that of the generation of the policy object o.
Matches(d, o) ==
    /\ d.sel = o.sel /\ d.mentions = (o.count # NotWanted)
    /\ d.count = IF o.sel = "malformed" THEN NotWanted ELSE o.count

\* A generation stands for one content of the policy: the API's, the informer's and
\* the digest's are the same when their generations are, and the API's is the newest.
Generations(o, c, d) ==
    /\ Selects(o) /\ Selects(c) /\ Selects(d)
    /\ c.gen # 0 /\ c.gen = o.gen => c.sel = o.sel /\ c.count = o.count
    /\ d.gen # 0 /\ d.gen = o.gen => Matches(d, o)
    /\ d.gen # 0 /\ d.gen = c.gen => Matches(d, c)
    /\ o.gen # 0 => c.gen <= o.gen /\ d.gen <= o.gen
    /\ d.count # NotWanted => d.mentions

GenerationsOK(p) == Generations(lpp[p], clpp[p], dlpp[p])

\* The informers' copies are the objects unless an event is on its way.
InformersOK ==
    /\ "lc" \notin news => clc = lc
    /\ "node" \notin news => cnode = node
    /\ \A p \in Policies : p \notin news => clpp[p] = lpp[p]

\* What the digest says of policy p for the Node as the informer has it.
Says(p) == IF dlpp[p].gen # 0 /\ cnode = dlpp[p].sel THEN dlpp[p].count ELSE NotWanted

\* The digest is that of the informers' copies unless an item is queued.
DigestOK ==
    /\ "lc" \notin digestQueue => dlc = clc.ver
    /\ \A p \in Policies : p \notin digestQueue =>
          /\ dlpp[p].gen = clpp[p].gen
          /\ "node" \notin digestQueue => entry.refs[p] = Says(p)
          /\ p \notin news /\ clpp[p].gen # 0 => clpp[p].status = Verdict(clpp[p])

\* The entry is that of its references unless one of them is queued.
EntryOK ==
    /\ \A p \in Policies : entry.refs[p] # NotWanted => dlpp[p].gen # 0 /\ dlpp[p].mentions
    /\ \/ entry.desired = Recompute(entry.refs, dlc).desired
       \/ \E p \in digestQueue \cap Policies : entry.refs[p] # NotWanted

DigestInv ==
    /\ DigestTypes /\ InformersOK /\ DigestOK /\ EntryOK
    /\ \A p \in Policies : GenerationsOK(p)

USE DEF NotWanted

\* The value of the entry after policies were applied to it.
AppliedTo(e, ps, counts) ==
    /\ e.refs \in [Policies -> PolicyCounts]
    /\ \A q \in Policies : e.refs[q] = IF q \in ps THEN counts[q] ELSE entry.refs[q]
    /\ \/ e = entry /\ \A q \in ps : entry.refs[q] = NotWanted
       \/ e.desired = Recompute(e.refs, dlc).desired

LEMMA ApplyIs ==
    ASSUME DigestTypes, NEW ps \in SUBSET Policies, NEW counts \in [ps -> PolicyCounts],
           NEW e, e = Apply(ps, counts)
    PROVE  AppliedTo(e, ps, counts)
<1> USE DEF AppliedTo
<1> DEFINE touched == {p \in ps : counts[p] # NotWanted \/ entry.refs[p] # NotWanted}
           refs == [p \in Policies |-> IF p \in touched THEN counts[p] ELSE entry.refs[p]]
<1>1. refs \in [Policies -> PolicyCounts]
  BY Zenon DEF DigestTypes
<1>2. \A q \in Policies : refs[q] = IF q \in ps THEN counts[q] ELSE entry.refs[q]
  BY Zenon
<1>3. CASE touched = {}
  <2>1. e = entry
    BY <1>3, Zenon DEF Apply
  <2>2. \A q \in ps : counts[q] = NotWanted /\ entry.refs[q] = NotWanted
    BY <1>3, Zenon
  <2> QED BY <2>1, <2>2, Zenon DEF DigestTypes
<1>4. CASE touched # {}
  <2>1. e = Recompute(refs, dlc)
    BY <1>4, Zenon DEF Apply
  <2>2. e.refs = refs
    BY <2>1 DEF Recompute
  <2> QED BY <1>1, <1>2, <2>1, <2>2, Zenon
<1> QED BY <1>3, <1>4, Zenon

\* The digest of a controller that has just been started, its caches filled.
StartOK ==
    /\ DigestTypes
    /\ \A p \in Policies : Selects(lpp[p])
    /\ clc = lc /\ clpp = lpp /\ cnode = node /\ news = {} /\ digestQueue = Existing
    /\ dlc = NoConfig /\ dlpp = [p \in Policies |-> NoDigest] /\ entry = NoEntry

LEMMA StartedInv == StartOK => DigestInv
<1> SUFFICES ASSUME StartOK PROVE DigestInv
  BY Zenon
<1> USE DEF StartOK
<1>1. InformersOK
  BY Zenon DEF InformersOK
<1>2. \A p \in Policies : dlpp[p] = NoDigest /\ entry.refs[p] = NotWanted
  BY Zenon DEF NoEntry
<1>3. \A p \in Policies : GenerationsOK(p)
  BY <1>2, DigestConstants
     DEF GenerationsOK, Generations, Selects, NoDigest, DigestTypes, PolicyObjects
<1>4. DigestOK
  BY <1>2, Zenon DEF DigestOK, Existing, NoDigest, Says
<1>5. Recompute(entry.refs, dlc).desired = 0
  BY <1>2, Zenon DEF Recompute
<1>6. EntryOK
  BY <1>2, <1>5, Zenon DEF EntryOK, NoEntry
<1> QED BY <1>1, <1>3, <1>4, <1>6, Zenon DEF DigestInv

LEMMA NoEntryTypes ==
    /\ NoDigest \in DigestedPolicies /\ NoPolicy \in PolicyObjects
    /\ NoEntry.refs \in [Policies -> PolicyCounts]
    /\ NewPolicies \subseteq PolicyObjects /\ NoConfig \in ConfigVersions
    /\ \A o \in NewPolicies : o.gen = 1 /\ Selects(o)
  BY DigestConstants DEF NoDigest, DigestedPolicies, NoPolicy, PolicyObjects, NoEntry, PolicyCounts,
     NewPolicies, NoConfig, ConfigVersions, Unset, Statuses, Selects

LEMMA DigestInvInit == DigestInit => DigestInv
<1> SUFFICES ASSUME DigestInit PROVE DigestInv
  BY Zenon
<1>1. lpp \in [Policies -> PolicyObjects] /\ \A p \in Policies : Selects(lpp[p])
  BY NoEntryTypes DEF DigestInit, NoPolicy, Selects
<1>2. lc \in ConfigObjects
  BY DigestConstants DEF DigestInit, ConfigObjects, ConfigVersions
<1>3. digestQueue \subseteq DigestItems
  BY Zenon DEF DigestInit, Existing, DigestItems
<1>4. dlpp \in [Policies -> DigestedPolicies]
  BY NoEntryTypes, Zenon DEF DigestInit
<1>5. DigestTypes
  BY <1>1, <1>2, <1>3, <1>4, NoEntryTypes, Zenon DEF DigestInit, DigestTypes
<1>6. StartOK
  BY <1>1, <1>5, Zenon DEF DigestInit, StartOK
<1> QED BY <1>6, StartedInv, Zenon

LEMMA DigestInvStart ==
    ASSUME DigestInv, DigestStart, UNCHANGED objects
    PROVE  DigestInv'
<1>1. Existing' \subseteq DigestItems
  BY Zenon DEF Existing, DigestItems
<1>2. [p \in Policies |-> NoDigest] \in [Policies -> DigestedPolicies]
  BY NoEntryTypes, Zenon
<1>3. DigestTypes'
  BY <1>1, <1>2, NoEntryTypes, Zenon DEF DigestInv, DigestTypes, DigestStart, objects
<1>4. StartOK'
  BY <1>3, Zenon DEF DigestInv, GenerationsOK, Generations, StartOK, DigestStart, objects, Selects
<1> QED BY <1>4, StartedInv, PTL

\* A policy is created only under a name that is new to the informer and to the
\* digest, or is so again after the deletion of another policy was digested.
Fresh(p) == lpp[p].gen = 0 /\ lpp'[p].gen # 0 => clpp[p].gen = 0 /\ dlpp[p].gen = 0
FreshNames == [][\A p \in Policies : Fresh(p)]_digestVars

\* What an edit of the object o leaves alone.
EditFrame(o) ==
    /\ news' = news \cup {o}
    /\ UNCHANGED <<clc, clpp, cnode, digestQueue, dlc, dlpp, entry>>

LEMMA EditIsFrame ==
    ASSUME NEW kind, NEW o, Edit(kind, o)
    PROVE  EditFrame(o) /\ kind \in EditKinds
  BY Zenon DEF Edit, EditFrame, informers, digest

\* An edit adds an event and changes nothing that the digest is computed from.
LEMMA EditKeeps ==
    ASSUME DigestInv, NEW o \in DigestItems, EditFrame(o),
           lc' \in ConfigObjects, lpp' \in [Policies -> PolicyObjects],
           node' \in Labels \cup {"gone"},
           o # "lc" => lc' = lc, o # "node" => node' = node,
           \A p \in Policies : o # p => lpp'[p] = lpp[p],
           \A p \in Policies : GenerationsOK(p)'
    PROVE  DigestInv'
<1> USE DEF EditFrame
<1>1. DigestTypes'
  BY DigestConstants DEF DigestInv, DigestTypes
<1>2. InformersOK'
  BY Zenon DEF DigestInv, InformersOK
<1>3. DigestOK'
  BY Zenon DEF DigestInv, DigestOK, Says, Verdict
<1>4. EntryOK'
  BY Zenon DEF DigestInv, EntryOK
<1> QED BY <1>1, <1>2, <1>3, <1>4, Zenon DEF DigestInv

\* The generations of a policy that is not edited.
LEMMA OtherGenerations ==
    ASSUME DigestInv, NEW o, EditFrame(o), NEW p \in Policies, lpp'[p] = lpp[p]
    PROVE  GenerationsOK(p)'
<1>1. GenerationsOK(p) /\ UNCHANGED <<lpp[p], clpp[p], dlpp[p]>>
  BY Zenon DEF DigestInv, EditFrame
<1> QED BY <1>1, Zenon DEF GenerationsOK

LEMMA ObjectEditKeeps ==
    ASSUME DigestInv, EditConfig \/ SpoilConfig \/ EditNode
    PROVE  DigestInv'
<1>1. PICK o \in {"lc", "node"} : EditFrame(o) /\ lpp' = lpp /\ (o # "lc" => lc' = lc)
                                 /\ (o # "node" => node' = node)
  BY EditIsFrame, Zenon DEF EditConfig, SpoilConfig, EditNode
<1>2. lc' \in ConfigObjects /\ node' \in Labels \cup {"gone"}
  <2>1. lc \in ConfigObjects /\ node \in Labels \cup {"gone"}
    BY Zenon DEF DigestInv, DigestTypes
  <2>2. CASE EditConfig \/ SpoilConfig
    <3>1. \E v \in ConfigVersions : lc' = [ver |-> v, reported |-> FALSE]
      BY <2>2, Zenon DEF EditConfig, SpoilConfig, ConfigVersions
    <3> QED BY <2>1, <2>2, <3>1 DEF EditConfig, SpoilConfig, ConfigObjects
  <2>3. CASE EditNode
    BY <2>1, <2>3, Zenon DEF EditNode
  <2> QED BY <2>2, <2>3, Zenon
<1>3. \A p \in Policies : GenerationsOK(p)'
  BY <1>1, OtherGenerations, Zenon
<1> QED BY <1>1, <1>2, <1>3, EditKeeps, Zenon DEF DigestInv, DigestTypes, DigestItems

LEMMA PolicyEditKeeps ==
    ASSUME DigestInv, NEW p \in Policies, Fresh(p),
           EditPolicy(p) \/ DeletePolicy(p) \/ CreatePolicy(p)
    PROVE  DigestInv'
<1>1. EditFrame(p) /\ lc' = lc /\ node' = node
  BY EditIsFrame, Zenon DEF EditPolicy, DeletePolicy, CreatePolicy
<1>2. PICK o \in PolicyObjects :
         /\ lpp' = [lpp EXCEPT ![p] = o]
         /\ \/ lpp[p].gen # 0 /\ o.gen = lpp[p].gen + 1 /\ o.sel # "gone"
            \/ o.gen = 0
            \/ lpp[p].gen = 0 /\ o.gen = 1 /\ Selects(o)
  <2>1. CASE EditPolicy(p)
    <3>1. PICK sel \in Labels \cup {"malformed"}, c \in PolicyCounts :
             lpp' = [lpp EXCEPT ![p] = [gen |-> lpp[p].gen + 1, sel |-> sel, count |-> c,
                                        status |-> Unset]]
      BY <2>1, Zenon DEF EditPolicy
    <3>2. lpp[p].gen # 0 /\ lpp[p].gen + 1 \in 0..MaxGen
      BY <2>1, DigestConstants DEF EditPolicy
    <3>3. [gen |-> lpp[p].gen + 1, sel |-> sel, count |-> c, status |-> Unset] \in PolicyObjects
      BY <3>2, Zenon DEF PolicyObjects, Unset, Statuses
    <3> QED BY <3>1, <3>2, <3>3, DigestConstants, Zenon
  <2>2. CASE DeletePolicy(p)
    BY <2>2, EditIsFrame, NoEntryTypes, Zenon DEF DeletePolicy, NoPolicy
  <2>3. CASE CreatePolicy(p)
    BY <2>3, EditIsFrame, NoEntryTypes, Zenon DEF CreatePolicy
  <2> QED BY <2>1, <2>2, <2>3, Zenon
<1>3. /\ lpp \in [Policies -> PolicyObjects] /\ clpp[p].gen \in Nat /\ dlpp[p].gen \in Nat
      /\ lpp[p].gen \in Nat /\ GenerationsOK(p)
  BY DigestConstants DEF DigestInv, DigestTypes, PolicyObjects, DigestedPolicies
<1>4. GenerationsOK(p)'
  <2>1. lpp'[p] = o
    BY <1>2, <1>3, Zenon
  <2>2. lpp[p].gen = 0 /\ o.gen # 0 => clpp[p].gen = 0 /\ dlpp[p].gen = 0
    BY <2>1, Zenon DEF Fresh
  <2>3. /\ o.gen # 0 => o.gen # clpp[p].gen /\ o.gen # dlpp[p].gen
        /\ o.gen # 0 => clpp[p].gen <= o.gen /\ dlpp[p].gen <= o.gen
        /\ Selects(o)
    BY <1>1, <1>2, <1>3, <2>2 DEF GenerationsOK, Generations, EditFrame, Selects
  <2> QED BY <1>1, <1>3, <2>1, <2>2, <2>3, Zenon DEF GenerationsOK, Generations, EditFrame
<1>5. \A q \in Policies : q # p => lpp'[q] = lpp[q]
  BY <1>2, <1>3, Zenon
<1>6. \A q \in Policies : GenerationsOK(q)'
  BY <1>1, <1>4, <1>5, OtherGenerations, Zenon
<1>7. lpp' \in [Policies -> PolicyObjects]
  BY <1>2, <1>3, Zenon
<1> QED BY <1>1, <1>5, <1>6, <1>7, EditKeeps, DigestConstants, Zenon
           DEF DigestInv, DigestTypes, DigestItems

\* An event that is delivered queues its object.
LEMMA DeliverKeeps ==
    ASSUME DigestInv, NEW o \in DigestItems, Deliver(o)
    PROVE  DigestInv'
<1>1. /\ UNCHANGED <<lc, lpp, node, dlc, dlpp, entry>>
      /\ news' = news \ {o} /\ digestQueue' = digestQueue \cup {o}
      /\ clc' = (IF o = "lc" THEN lc ELSE clc) /\ cnode' = (IF o = "node" THEN node ELSE cnode)
      /\ clpp' = [p \in Policies |-> IF o = p THEN lpp[p] ELSE clpp[p]]
  BY Zenon DEF Deliver, objects, digest
<1>2. \A p \in Policies : clpp'[p] = IF o = p THEN lpp[p] ELSE clpp[p]
  BY <1>1, Zenon
<1>3. DigestTypes'
  <2>1. clpp' \in [Policies -> PolicyObjects]
    BY <1>1, Zenon DEF DigestInv, DigestTypes
  <2> QED BY <1>1, <2>1, Zenon DEF DigestInv, DigestTypes
<1>4. InformersOK'
  BY <1>1, <1>2, DigestConstants, Zenon DEF DigestInv, InformersOK
<1>5. ASSUME NEW p \in Policies PROVE GenerationsOK(p)'
  <2>1. CASE o # p
    BY <1>1, <1>2, <2>1, Zenon DEF DigestInv, GenerationsOK
  <2>2. CASE o = p
    <3>1. clpp'[p] = lpp[p] /\ lpp[p].gen \in Int
      BY <1>2, <2>2 DEF DigestInv, DigestTypes, PolicyObjects
    <3>2. Generations(lpp[p], lpp[p], dlpp[p])
      BY <3>1 DEF DigestInv, GenerationsOK, Generations
    <3> QED BY <1>1, <3>1, <3>2, Zenon DEF DigestInv, GenerationsOK
  <2> QED BY <2>1, <2>2, Zenon
<1>6. DigestOK'
  <2>1. ASSUME "lc" \notin digestQueue' PROVE dlc' = clc'.ver
    BY <1>1, <2>1, Zenon DEF DigestInv, DigestOK
  <2>2. ASSUME NEW p \in Policies, p \notin digestQueue'
        PROVE  /\ dlpp'[p].gen = clpp'[p].gen
               /\ "node" \notin digestQueue' => entry'.refs[p] = Says(p)'
               /\ p \notin news' /\ clpp'[p].gen # 0 => clpp'[p].status = Verdict(clpp[p])'
    <3>1. p # o /\ p \notin digestQueue /\ clpp'[p] = clpp[p] /\ (p \notin news' => p \notin news)
      BY <1>1, <1>2, <2>2, Zenon
    <3>2. "node" \notin digestQueue' => "node" \notin digestQueue /\ cnode' = cnode
      BY <1>1, Zenon
    <3>3. Verdict(clpp[p])' = Verdict(clpp[p])
      BY <1>1, <3>1, Zenon DEF Verdict
    <3> QED BY <1>1, <3>1, <3>2, <3>3, Zenon DEF DigestInv, DigestOK, Says
  <2> QED BY <2>1, <2>2, Zenon DEF DigestOK
<1>7. EntryOK'
  BY <1>1, Zenon DEF DigestInv, EntryOK
<1> QED BY <1>3, <1>4, <1>5, <1>6, <1>7, Zenon DEF DigestInv

\* The digest is left as it is: a failed UpdateStatus, or a step that has nothing to
\* do with it.  A Status that was written may differ, and then its event is new.
LEMMA StatusKeeps ==
    ASSUME DigestInv, UNCHANGED <<node, clc, clpp, cnode, digestQueue, dlc, dlpp, entry>>,
           lc' = lc \/ ("lc" \in news' /\ lc' \in ConfigObjects),
           lpp' \in [Policies -> PolicyObjects],
           \A p \in Policies : \/ lpp'[p] = lpp[p]
                               \/ /\ p \in news' /\ lpp'[p].gen = lpp[p].gen
                                  /\ lpp'[p].sel = lpp[p].sel /\ lpp'[p].count = lpp[p].count,
           news \subseteq news', news' \subseteq DigestItems
    PROVE  DigestInv'
<1>1. DigestTypes'
  BY Zenon DEF DigestInv, DigestTypes
<1>2. InformersOK'
  BY Zenon DEF DigestInv, InformersOK
<1>3. ASSUME NEW p \in Policies PROVE GenerationsOK(p)'
  <2>1. /\ lpp'[p].gen = lpp[p].gen
        /\ Generations(lpp[p], clpp[p], dlpp[p]) => Generations(lpp'[p], clpp[p], dlpp[p])
    BY DEF Generations, Matches, Selects
  <2> QED BY <2>1, Zenon DEF DigestInv, GenerationsOK
<1>4. DigestOK'
  <2>1. \A p \in Policies : Verdict(clpp[p])' = Verdict(clpp[p]) /\ Says(p)' = Says(p)
    BY Zenon DEF Verdict, Says
  <2> QED BY <2>1, Zenon DEF DigestInv, DigestOK
<1>5. EntryOK'
  BY Zenon DEF DigestInv, EntryOK
<1> QED BY <1>1, <1>2, <1>3, <1>4, <1>5, Zenon DEF DigestInv

\* updateDigestForLC queues every policy that mentions the LauncherConfig when the
\* version digested changes, among them all those that the entry refers to.
LEMMA LCKeeps ==
    ASSUME DigestInv, UpdateDigestForLC
    PROVE  DigestInv'
<1>1. UNCHANGED <<lpp, node, clc, clpp, cnode>>
  BY Zenon DEF UpdateDigestForLC, informers
<1>2. \/ lc' = lc /\ news' = news
      \/ lc' = [lc EXCEPT !.reported = TRUE] /\ news' = news \cup {"lc"}
  BY Zenon DEF UpdateDigestForLC, ReportStatus, objects
<1>3. /\ lc' \in ConfigObjects /\ (lc' = lc \/ "lc" \in news')
      /\ news' \subseteq DigestItems /\ news \subseteq news'
  BY <1>2, Zenon DEF DigestInv, DigestTypes, ConfigObjects, DigestItems
<1>4. CASE UNCHANGED <<digestQueue, digest>>
  BY <1>1, <1>3, <1>4, StatusKeeps, Zenon DEF digest, DigestInv, DigestTypes
<1>5. CASE /\ dlc' = clc.ver /\ UNCHANGED <<dlpp, entry>>
           /\ digestQueue' = (digestQueue \ {"lc"}) \cup Dependents(clc.ver)
  <2>1. \A p \in Policies : p \in digestQueue => p \in digestQueue'
    BY <1>5, DigestConstants, Zenon
  <2>2. DigestTypes'
    BY <1>1, <1>3, <1>5, Zenon DEF DigestInv, DigestTypes, Dependents, DigestItems, ConfigObjects
  <2>3. InformersOK'
    BY <1>1, <1>2, <1>3, Zenon DEF DigestInv, InformersOK
  <2>4. \A p \in Policies : GenerationsOK(p)'
    BY <1>1, <1>5, Zenon DEF DigestInv, GenerationsOK
  <2>5. DigestOK'
    <3>1. ASSUME NEW p \in Policies, p \notin digestQueue'
          PROVE  /\ dlpp'[p].gen = clpp'[p].gen
                 /\ "node" \notin digestQueue' => entry'.refs[p] = Says(p)'
                 /\ p \notin news' /\ clpp'[p].gen # 0 => clpp'[p].status = Verdict(clpp[p])'
      <4>1. p \notin digestQueue /\ p \notin Dependents(clc.ver)
        BY <1>5, <2>1, <3>1, Zenon
      <4>2. "node" \notin digestQueue' => "node" \notin digestQueue
        BY <1>5, Zenon
      <4>3. dlpp[p].gen = clpp[p].gen /\ (clpp[p].gen # 0 => Matches(dlpp[p], clpp[p]))
        BY <4>1, Zenon DEF DigestInv, DigestOK, GenerationsOK, Generations
      <4>4. clpp[p].gen # 0 => dlc = clc.ver \/ clpp[p].count = NotWanted
        BY <4>1, <4>3, Zenon DEF Dependents, Matches
      <4>5. clpp[p].gen # 0 => Verdict(clpp[p])' = Verdict(clpp[p])
        BY <1>1, <1>5, <4>4, Zenon DEF Verdict
      <4>6. p \notin news' => p \notin news
        BY <1>3, Zenon
      <4> QED BY <1>1, <1>5, <4>1, <4>2, <4>3, <4>5, <4>6, Zenon DEF DigestInv, DigestOK, Says
    <3>2. dlc' = clc'.ver
      BY <1>1, <1>5, Zenon
    <3> QED BY <3>1, <3>2, Zenon DEF DigestOK
  <2>6. EntryOK'
    <3>1. CASE dlc' = dlc
      BY <1>5, <2>1, <3>1, Zenon DEF DigestInv, EntryOK
    <3>2. CASE dlc' # dlc /\ \A p \in Policies : entry.refs[p] = NotWanted
      <4>1. entry.desired = Recompute(entry.refs, dlc).desired
        BY <3>2, Zenon DEF DigestInv, EntryOK
      <4>2. Recompute(entry.refs, dlc').desired = Recompute(entry.refs, dlc).desired
        BY <3>2, Zenon DEF Recompute
      <4> QED BY <1>5, <4>1, <4>2, Zenon DEF DigestInv, EntryOK
    <3>3. CASE dlc' # dlc /\ \E p \in Policies : entry.refs[p] # NotWanted
      <4>1. PICK p \in Policies : entry.refs[p] # NotWanted
        BY <3>3, Zenon
      <4>2. p \in Dependents(clc.ver)
        BY <1>5, <3>3, <4>1, Zenon DEF DigestInv, EntryOK, Dependents
      <4> QED BY <1>5, <4>1, <4>2, Zenon DEF DigestInv, EntryOK
    <3> QED BY <3>1, <3>2, <3>3, Zenon
  <2> QED BY <2>2, <2>3, <2>4, <2>5, <2>6, Zenon DEF DigestInv
<1> QED BY <1>4, <1>5, Zenon DEF UpdateDigestForLC, ReportStatus, digest

\* What updateDigestForLPP does to the digest and to the entry.
LPPDone(p, c) ==
    /\ dlpp' = [dlpp EXCEPT ![p] = IF clpp[p].gen = 0 THEN NoDigest
                                   ELSE [gen |-> clpp[p].gen, sel |-> clpp[p].sel, count |-> c,
                                         mentions |-> clpp[p].count # NotWanted]]
    /\ entry' = Apply({p}, [q \in {p} |-> IF clpp[p].gen # 0 /\ cnode = clpp[p].sel THEN c
                                          ELSE NotWanted])
    /\ digestQueue' = digestQueue \ {p} /\ dlc' = dlc

\* The count that is kept of the generation digested before is that of the policy.
LEMMA DigestedCount ==
    ASSUME DigestInv, NEW p \in Policies
    PROVE  Digested(clpp[p], dlpp[p]) =
              IF clpp[p].sel = "malformed" \/ clpp[p].gen = 0 THEN NotWanted ELSE clpp[p].count
  BY Zenon DEF DigestInv, GenerationsOK, Generations, Matches, Digested

LEMMA LPPKeeps ==
    ASSUME DigestInv, NEW p \in Policies, NEW c, c = Digested(clpp[p], dlpp[p]), LPPDone(p, c),
           UNCHANGED <<lc, node, clc, clpp, cnode>>,
           \/ Reported(clpp[p]) /\ lpp' = lpp /\ news' = news
           \/ /\ lpp' = [lpp EXCEPT ![p].status = Verdict(clpp[p])] /\ news' = news \cup {p}
    PROVE  DigestInv'
<1>1. /\ lpp \in [Policies -> PolicyObjects] /\ clpp[p] \in PolicyObjects
      /\ dlpp \in [Policies -> DigestedPolicies] /\ entry.refs \in [Policies -> PolicyCounts]
  BY Zenon DEF DigestInv, DigestTypes
<1>2. c = IF clpp[p].sel = "malformed" \/ clpp[p].gen = 0 THEN NotWanted ELSE clpp[p].count
  BY DigestedCount, Zenon
<1>3. c \in PolicyCounts
  BY <1>1, <1>2, Zenon DEF PolicyObjects, PolicyCounts
<1>4. \A q \in Policies : q # p => lpp'[q] = lpp[q] /\ dlpp'[q] = dlpp[q]
  BY <1>1, Zenon DEF LPPDone
<1>5. /\ lpp'[p].gen = lpp[p].gen /\ lpp'[p].sel = lpp[p].sel /\ lpp'[p].count = lpp[p].count
      /\ lpp' \in [Policies -> PolicyObjects]
  <2>1. Verdict(clpp[p]) \in Statuses
    BY Zenon DEF Verdict, Statuses
  <2> QED BY <1>1, <2>1 DEF PolicyObjects
<1>6. /\ dlpp' \in [Policies -> DigestedPolicies]
      /\ clpp[p].gen = 0 => dlpp'[p] = NoDigest
      /\ clpp[p].gen # 0 => /\ dlpp'[p].gen = clpp[p].gen /\ Matches(dlpp'[p], clpp[p])
                            /\ dlpp'[p].count = c /\ dlpp'[p].sel = clpp[p].sel
  <2>1. CASE clpp[p].gen = 0
    BY <1>1, <2>1, NoEntryTypes, Zenon DEF LPPDone
  <2>2. CASE clpp[p].gen # 0
    <3>1. dlpp' = [dlpp EXCEPT ![p] = [gen |-> clpp[p].gen, sel |-> clpp[p].sel, count |-> c,
                                       mentions |-> clpp[p].count # NotWanted]]
      BY <2>2, Zenon DEF LPPDone
    <3>2. [gen |-> clpp[p].gen, sel |-> clpp[p].sel, count |-> c,
           mentions |-> clpp[p].count # NotWanted] \in DigestedPolicies
      BY <1>1, <1>3, Zenon DEF DigestedPolicies, PolicyObjects
    <3> QED BY <1>1, <1>2, <2>2, <3>1, <3>2, Zenon DEF Matches
  <2> QED BY <2>1, <2>2, Zenon
<1>7. /\ dlpp'[p].gen = clpp[p].gen
      /\ dlpp'[p].count # NotWanted => dlpp'[p].gen # 0 /\ dlpp'[p].mentions
      /\ (IF clpp[p].gen # 0 /\ cnode = clpp[p].sel THEN c ELSE NotWanted)
           = IF dlpp'[p].gen # 0 /\ cnode = dlpp'[p].sel THEN dlpp'[p].count ELSE NotWanted
  <2>1. CASE clpp[p].gen = 0
    BY <1>2, <1>6, <2>1 DEF NoDigest
  <2>2. CASE clpp[p].gen # 0
    <3>1. dlpp'[p].count # NotWanted => dlpp'[p].mentions
      BY <1>6, <2>2, Zenon DEF Matches
    <3> QED BY <1>6, <2>2, <3>1, Zenon
  <2> QED BY <2>1, <2>2, Zenon
<1>8. PICK s \in PolicyCounts : s = Says(p)'
  <2>1. Says(p)' \in PolicyCounts
    BY <1>6, Zenon DEF Says, DigestedPolicies, PolicyCounts
  <2> QED BY <2>1, Zenon
<1>9. entry' = Apply({p}, [q \in {p} |-> s])
  BY <1>7, <1>8, Zenon DEF LPPDone, Says
<1>10. /\ entry'.refs \in [Policies -> PolicyCounts] /\ entry'.refs[p] = s
       /\ \A q \in Policies : q # p => entry'.refs[q] = entry.refs[q]
       /\ \/ entry' = entry /\ entry.refs[p] = NotWanted
          \/ entry'.desired = Recompute(entry'.refs, dlc).desired
  <2>1. PICK e : e = entry'
    BY Zenon
  <2>2. PICK ps \in SUBSET Policies : ps = {p}
    BY Zenon
  <2>3. PICK counts \in [ps -> PolicyCounts] : counts = [q \in {p} |-> s]
    BY <2>2, Zenon
  <2>4. e = Apply(ps, counts) /\ DigestTypes
    BY <1>9, <2>1, <2>2, <2>3, Zenon DEF DigestInv
  <2>5. /\ e.refs \in [Policies -> PolicyCounts]
        /\ \A q \in Policies : e.refs[q] = IF q \in ps THEN counts[q] ELSE entry.refs[q]
        /\ \/ e = entry /\ \A q \in ps : entry.refs[q] = NotWanted
           \/ e.desired = Recompute(e.refs, dlc).desired
    <3>1. AppliedTo(e, ps, counts)
      BY <2>4, ApplyIs, Zenon
    <3> QED BY <3>1, Zenon DEF AppliedTo
  <2> QED BY <2>1, <2>2, <2>3, <2>5, Zenon
<1>11. DigestTypes'
  BY <1>5, <1>6, <1>10, Zenon DEF DigestInv, DigestTypes, LPPDone, DigestItems
<1>12. InformersOK'
  BY <1>4, DigestConstants, Zenon DEF DigestInv, InformersOK
<1>13. ASSUME NEW q \in Policies PROVE GenerationsOK(q)'
  <2>1. CASE q # p
    BY <1>4, <2>1, Zenon DEF DigestInv, GenerationsOK
  <2>2. CASE q = p
    <3>1. Generations(lpp[p], clpp[p], dlpp[p]) /\ lpp[p].gen \in Int /\ clpp[p].gen \in Int
      BY <1>1 DEF DigestInv, GenerationsOK, PolicyObjects
    <3>2. Generations(lpp'[p], clpp[p], dlpp'[p])
      BY <1>5, <1>6, <1>7, <3>1 DEF Generations, Matches, Selects
    <3> QED BY <1>5, <1>7, <2>2, <3>2, Zenon DEF DigestInv, GenerationsOK
  <2> QED BY <2>1, <2>2, Zenon
<1>14. DigestOK'
  <2>1. ASSUME NEW q \in Policies, q \notin digestQueue'
        PROVE  /\ dlpp'[q].gen = clpp'[q].gen
               /\ "node" \notin digestQueue' => entry'.refs[q] = Says(q)'
               /\ q \notin news' /\ clpp'[q].gen # 0 => clpp'[q].status = Verdict(clpp[q])'
    <3>1. Verdict(clpp[q])' = Verdict(clpp[q])
      BY Zenon DEF Verdict, LPPDone
    <3>2. CASE q = p
      BY <1>7, <1>8, <1>10, <3>1, <3>2, Zenon DEF Reported
    <3>3. CASE q # p
      <4>1. q \notin digestQueue /\ ("node" \notin digestQueue' => "node" \notin digestQueue)
        BY <2>1, <3>3, DigestConstants, Zenon DEF LPPDone
      <4>2. Says(q)' = Says(q)
        BY <1>4, <3>3, Zenon DEF Says
      <4>3. q \notin news' => q \notin news
        BY Zenon
      <4> QED BY <1>4, <1>10, <3>1, <3>3, <4>1, <4>2, <4>3, Zenon DEF DigestInv, DigestOK
    <3> QED BY <3>2, <3>3, Zenon
  <2>2. "lc" \notin digestQueue' => dlc' = clc'.ver
    BY DigestConstants, Zenon DEF DigestInv, DigestOK, LPPDone
  <2> QED BY <2>1, <2>2, Zenon DEF DigestOK
<1>15. EntryOK'
  <2>1. ASSUME NEW q \in Policies, entry'.refs[q] # NotWanted
        PROVE  dlpp'[q].gen # 0 /\ dlpp'[q].mentions
    BY <1>4, <1>7, <1>8, <1>10, <2>1 DEF DigestInv, EntryOK, Says
  <2>2. \/ entry'.desired = Recompute(entry'.refs, dlc').desired
        \/ \E q \in digestQueue' \cap Policies : entry'.refs[q] # NotWanted
    BY <1>10, Zenon DEF DigestInv, EntryOK, LPPDone
  <2> QED BY <2>1, <2>2, Zenon DEF EntryOK
<1> QED BY <1>11, <1>12, <1>13, <1>14, <1>15, Zenon DEF DigestInv

LEMMA UpdateForLPPKeeps ==
    ASSUME DigestInv, NEW p \in Policies, UpdateDigestForLPP(p)
    PROVE  DigestInv'
<1>1. UNCHANGED <<lc, node, clc, clpp, cnode>>
  BY Zenon DEF UpdateDigestForLPP, informers
<1>2. PICK c : c = Digested(clpp[p], dlpp[p])
  BY Zenon
<1>3. \/ Reported(clpp[p]) /\ lpp' = lpp /\ news' = news /\ LPPDone(p, c)
      \/ /\ lpp' = [lpp EXCEPT ![p].status = Verdict(clpp[p])] /\ news' = news \cup {p}
         /\ LPPDone(p, c) \/ UNCHANGED <<digestQueue, digest>>
      \/ UNCHANGED <<lpp, news, digestQueue, digest>>
  BY <1>2, Zenon DEF UpdateDigestForLPP, ReportStatus, LPPDone, objects
<1>4. CASE LPPDone(p, c) /\ ~UNCHANGED <<lpp, news, digestQueue, digest>>
  BY <1>1, <1>2, <1>3, <1>4, LPPKeeps, Zenon
<1>5. CASE UNCHANGED <<digestQueue, digest>>
  <2>1. /\ lpp \in [Policies -> PolicyObjects] /\ Verdict(clpp[p]) \in Statuses
        /\ news \subseteq DigestItems /\ p \in DigestItems
    BY Zenon DEF DigestInv, DigestTypes, Verdict, Statuses, DigestItems
  <2>2. /\ lpp' \in [Policies -> PolicyObjects]
        /\ \A q \in Policies : \/ lpp'[q] = lpp[q]
                               \/ /\ q \in news' /\ lpp'[q].gen = lpp[q].gen
                                  /\ lpp'[q].sel = lpp[q].sel /\ lpp'[q].count = lpp[q].count
    BY <1>3, <2>1 DEF PolicyObjects
  <2>3. news \subseteq news' /\ news' \subseteq DigestItems
    BY <1>3, <2>1, Zenon
  <2> QED BY <1>1, <1>5, <2>2, <2>3, StatusKeeps, Zenon DEF digest
<1> QED BY <1>3, <1>4, <1>5, Zenon

\* updateDigestForNode takes up what the digest says of every policy it knows.
LEMMA NodeKeeps ==
    ASSUME DigestInv, UpdateDigestForNode
    PROVE  DigestInv'
<1>1. /\ UNCHANGED <<lc, lpp, node, clc, clpp, cnode, news, dlc, dlpp>>
      /\ digestQueue' = digestQueue \ {"node"}
  BY Zenon DEF UpdateDigestForNode, objects, informers
<1>2. /\ entry'.refs \in [Policies -> PolicyCounts]
      /\ \A q \in Policies : entry'.refs[q] = Says(q)
      /\ \/ entry' = entry
         \/ entry'.desired = Recompute(entry'.refs, dlc).desired
  <2>1. CASE cnode = "gone"
    <3>1. entry' = NoEntry
      BY <2>1, Zenon DEF UpdateDigestForNode
    <3>2. \A q \in Policies : entry'.refs[q] = NotWanted
      BY <3>1, Zenon DEF NoEntry
    <3>3. \A q \in Policies : Says(q) = NotWanted
      <4> SUFFICES ASSUME NEW q \in Policies, Says(q) # NotWanted PROVE FALSE
        BY Zenon
      <4>1. dlpp[q].gen # 0 /\ dlpp[q].sel = "gone" /\ dlpp[q].count # NotWanted
        BY <2>1, Zenon DEF Says
      <4> QED BY <4>1, Zenon DEF DigestInv, GenerationsOK, Generations, Selects
    <3>4. Recompute(entry'.refs, dlc).desired = 0 /\ entry'.desired = 0
      BY <3>1, <3>2, Zenon DEF Recompute, NoEntry
    <3> QED BY <3>1, <3>2, <3>3, <3>4, NoEntryTypes, Zenon
  <2>2. CASE cnode # "gone"
    <3>1. PICK ps \in SUBSET Policies : ps = {p \in Policies : dlpp[p].gen # 0}
      BY Zenon
    <3>2. PICK counts \in [ps -> PolicyCounts] :
             counts = [p \in ps |-> IF cnode = dlpp[p].sel THEN dlpp[p].count ELSE NotWanted]
      BY <3>1, Zenon DEF DigestInv, DigestTypes, DigestedPolicies, PolicyCounts
    <3>3. PICK e : e = entry'
      BY Zenon
    <3>4. e = Apply(ps, counts) /\ DigestTypes
      BY <2>2, <3>1, <3>2, <3>3, Zenon DEF UpdateDigestForNode, DigestInv
    <3>5. /\ e.refs \in [Policies -> PolicyCounts]
          /\ \A q \in Policies : e.refs[q] = IF q \in ps THEN counts[q] ELSE entry.refs[q]
          /\ \/ e = entry /\ \A q \in ps : entry.refs[q] = NotWanted
             \/ e.desired = Recompute(e.refs, dlc).desired
      <4>1. AppliedTo(e, ps, counts)
        BY <3>4, ApplyIs, Zenon
      <4> QED BY <4>1, Zenon DEF AppliedTo
    <3>6. \A q \in Policies : e.refs[q] = Says(q)
      BY <3>1, <3>2, <3>5, Zenon DEF DigestInv, EntryOK, Says
    <3> QED BY <3>3, <3>5, <3>6, Zenon
  <2> QED BY <2>1, <2>2, Zenon
<1>3. DigestTypes'
  BY <1>1, <1>2, Zenon DEF DigestInv, DigestTypes
<1>4. InformersOK'
  BY <1>1, Zenon DEF DigestInv, InformersOK
<1>5. \A p \in Policies : GenerationsOK(p)'
  BY <1>1, Zenon DEF DigestInv, GenerationsOK
<1>6. DigestOK'
  <2>1. \A p \in Policies : /\ Verdict(clpp[p])' = Verdict(clpp[p]) /\ Says(p)' = Says(p)
                            /\ p \notin digestQueue' => p \notin digestQueue
    BY <1>1, DigestConstants, Zenon DEF Verdict, Says
  <2>2. "lc" \notin digestQueue' => "lc" \notin digestQueue
    BY <1>1, Zenon
  <2> QED BY <1>1, <1>2, <2>1, <2>2, Zenon DEF DigestInv, DigestOK
<1>7. EntryOK'
  <2>1. ASSUME NEW q \in Policies, entry'.refs[q] # NotWanted
        PROVE  dlpp'[q].gen # 0 /\ dlpp'[q].mentions
    BY <1>1, <1>2, <2>1, Zenon DEF DigestInv, GenerationsOK, Generations, Says
  <2>2. digestQueue' \cap Policies = digestQueue \cap Policies
    BY <1>1, DigestConstants, Zenon
  <2> QED BY <1>1, <1>2, <2>1, <2>2, Zenon DEF DigestInv, EntryOK
<1> QED BY <1>3, <1>4, <1>5, <1>6, <1>7 DEF DigestInv

\* What matters of a step that does not concern the digest.
digestState == <<lc, lpp, node, clc, clpp, cnode, news, digestQueue, dlc, dlpp, entry>>

LEMMA DigestIdle ==
    ASSUME DigestInv, UNCHANGED digestState
    PROVE  DigestInv'
  BY StatusKeeps, Zenon DEF digestState, DigestInv, DigestTypes

LEMMA DigestInvNext ==
    ASSUME DigestInv, DigestNext, \A p \in Policies : Fresh(p)
    PROVE  DigestInv'
  BY ObjectEditKeeps, PolicyEditKeeps, DeliverKeeps, LCKeeps, NodeKeeps, UpdateForLPPKeeps, Zenon
     DEF DigestNext, DigestWork

\* With nothing on its way and nothing queued, every reference of the entry is what
\* the API object says, and the entry is computed from them.
LEMMA DigestInvAgrees == DigestInv => DigestAgrees
<1> SUFFICES ASSUME DigestInv, news = {}, digestQueue = {}
             PROVE  /\ entry.desired = PopulationPolicy
                    /\ dlc = lc.ver
                    /\ \A p \in Policies :
                         /\ entry.refs[p] = IF p \in Wanted THEN lpp[p].count ELSE NotWanted
                         /\ lpp[p].gen # 0 => lpp[p].status = Verdict(lpp[p])
  BY Zenon DEF DigestAgrees
<1>1. dlc = lc.ver /\ cnode = node
  BY Zenon DEF DigestInv, InformersOK, DigestOK
<1>2. ASSUME NEW p \in Policies
      PROVE  /\ entry.refs[p] = IF p \in Wanted THEN lpp[p].count ELSE NotWanted
             /\ lpp[p].gen # 0 => lpp[p].status = Verdict(lpp[p])
  <2>1. clpp[p] = lpp[p] /\ dlpp[p].gen = lpp[p].gen /\ entry.refs[p] = Says(p)
    BY Zenon DEF DigestInv, InformersOK, DigestOK
  <2>2. lpp[p].gen # 0 => Matches(dlpp[p], lpp[p])
    BY <2>1, Zenon DEF DigestInv, GenerationsOK, Generations
  <2>3. node # "malformed"
    BY DigestConstants, Zenon DEF DigestInv, DigestTypes
  <2>4. entry.refs[p] = IF p \in Wanted THEN lpp[p].count ELSE NotWanted
    BY <1>1, <2>1, <2>2, <2>3 DEF Says, Matches, Wanted
  <2> QED BY <2>1, <2>4, Zenon DEF DigestInv, DigestOK
<1>3. entry.desired = Recompute(entry.refs, dlc).desired
  BY Zenon DEF DigestInv, EntryOK
<1>4. {entry.refs[p] : p \in {q \in Policies : entry.refs[q] # NotWanted}}
         = {lpp[p].count : p \in Wanted}
  BY <1>2 DEF Wanted
<1>5. Wanted = {} <=> {lpp[p].count : p \in Wanted} = {}
  BY Zenon
<1>6. Recompute(entry.refs, dlc).desired = PopulationPolicy
  BY <1>1, <1>4, <1>5, Zenon DEF Recompute, PopulationPolicy
<1> QED BY <1>1, <1>2, <1>3, <1>6, Zenon

LEMMA FreshStep ==
    ASSUME [\A p \in Policies : Fresh(p)]_digestVars
    PROVE  \A p \in Policies : Fresh(p)
  BY Zenon DEF Fresh, digestVars, objects

\* The digest by itself agrees with the API objects once everything is delivered and
\* digested, whatever the order of the edits, of the events and of the worker's
\* steps, unless a policy is created under the name of a deleted one before the
\* deletion was digested (updateDigestForLC, updateDigestForLPP,
\* updateDigestForNode).
THEOREM DigestIsRight == DigestSpec /\ FreshNames => []DigestAgrees
<1>1. DigestInv /\ [DigestNext]_digestVars /\ [\A p \in Policies : Fresh(p)]_digestVars
         => DigestInv'
  <2>1. CASE DigestInv /\ UNCHANGED digestVars
    BY <2>1, DigestIdle, Zenon DEF digestVars, digestState, objects, informers, digest
  <2> QED BY <2>1, DigestInvNext, FreshStep, Zenon
<1> QED BY <1>1, DigestInvInit, DigestInvAgrees, PTL DEF DigestSpec, FreshNames
===============================================================================
