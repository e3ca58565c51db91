------------------------- MODULE TestRequesterProofs --------------------------
(* The allocation of GPUs for any Pods, GPUs, nodes and number of disruptions,  *)
(* the relay of the log for logs, responses and failures of any number, and     *)
(* both in the test requester as a whole.                                       *)
EXTENDS TestRequester, SequenceTheorems, TLAPS

-------------------------------------------------------------------------------
(* The allocation of GPUs.                                                      *)

Holder == Pods \cup {Nobody}
Processes ==
    [phase : {"unborn", "idle", "listed", "creating", "chosen", "serving", "ended"},
     seen : SUBSET Pods, data : [GPUs -> Holder], gpus : SUBSET GPUs, current : BOOLEAN]

AllocTypes ==
    /\ pods \subseteq Pods /\ overlooked \subseteq Pods
    /\ allocs \in [GPUs -> Holder] /\ proc \in [Pods -> Processes]

\* The Pods that exist are those with a process.
Running == \A p \in Pods : p \in pods <=> proc[p].phase \notin {"unborn", "ended"}

\* Every entry of the ConfigMap is that of a Pod that was started, for a GPU which
\* that Pod may use.
EntryOK(g, r) == r # Nobody => g \in Avail(r) /\ proc[r].phase # "unborn"
EntriesOK == \A g \in GPUs : EntryOK(g, allocs[g])

\* What a process chose is as many GPUs as it asked for, of those it may use.
ChoiceOK ==
    \A p \in Pods : proc[p].phase \in {"chosen", "serving"} =>
       Cardinality(proc[p].gpus) = NumGPUs[p] /\ proc[p].gpus \subseteq Avail(p)

\* A write that is not going to be refused enters the process for what it chose and
\* leaves the entries of every other Pod that exists and is not overlooked.
DataOK ==
    \A p \in Pods : proc[p].phase = "chosen" =>
       /\ \A g \in proc[p].gpus : proc[p].data[g] = p
       /\ proc[p].current => \A g \in GPUs :
             /\ EntryOK(g, proc[p].data[g])
             /\ allocs[g] \in pods \ overlooked /\ allocs[g] # p => proc[p].data[g] = allocs[g]

\* A requester that serves is entered for what it holds unless it was overlooked.
EnteredOK ==
    \A p \in Pods : proc[p].phase = "serving" /\ p \notin overlooked =>
       \A g \in proc[p].gpus : allocs[g] = p

AllocInv == AllocTypes /\ Running /\ EntriesOK /\ ChoiceOK /\ DataOK /\ EnteredOK

LEMMA AllocInvInit == AllocInit => AllocInv
<1> SUFFICES ASSUME AllocInit PROVE AllocInv
  BY Zenon
<1>1. AllocTypes
  BY Zenon DEF AllocInit, AllocTypes, At, Processes, Holder
<1> QED BY <1>1, Zenon DEF AllocInit, AllocInv, Running, EntriesOK, EntryOK, ChoiceOK, DataOK,
                    EnteredOK, At

\* A step of process p that leaves the ConfigMap alone: all that matters is what p
\* chose, if it did.
LEMMA StepKeeps ==
    ASSUME AllocInv, NEW p \in Pods, proc' \in [Pods -> Processes],
           \A q \in Pods \ {p} : proc'[q] = proc[q] /\ (q \in pods' <=> q \in pods),
           proc'[p].phase \notin {"unborn", "serving"}, pods' \subseteq Pods,
           p \in pods' <=> proc'[p].phase # "ended",
           p \in pods' => p \in pods \/ proc[p].phase = "unborn",
           allocs' = allocs, overlooked \subseteq overlooked', overlooked' \subseteq Pods,
           proc'[p].phase = "chosen" =>
              LET gpus == proc'[p].gpus
                  data == proc'[p].data
              IN /\ Cardinality(gpus) = NumGPUs[p] /\ gpus \subseteq Avail(p)
                 /\ \A g \in gpus : data[g] = p
                 /\ \A g \in GPUs \ gpus : data[g] \in {allocs[g], Nobody}
                 /\ \A g \in GPUs : allocs[g] \in pods \ overlooked' /\ allocs[g] # p
                                       => data[g] = allocs[g]
    PROVE  AllocInv'
<1> USE DEF AllocInv
<1>1. AllocTypes'
  BY Zenon DEF AllocTypes
<1>2. Running'
  BY Zenon DEF Running
<1>3. \A g \in GPUs, r \in Holder : EntryOK(g, r) => EntryOK(g, r)'
  BY Zenon DEF EntryOK, Avail, Holder
<1>4. EntriesOK'
  BY <1>3, Zenon DEF EntriesOK, AllocTypes
<1>5. ChoiceOK' /\ EnteredOK'
  BY DEF ChoiceOK, EnteredOK, Avail
<1>6. \A g \in GPUs : allocs[g] \in pods' => allocs[g] \in pods
  BY AllocationConstants DEF EntriesOK, EntryOK, AllocTypes
<1>7. DataOK'
  <2> SUFFICES ASSUME NEW q \in Pods, proc'[q].phase = "chosen"
               PROVE  /\ \A g \in proc'[q].gpus : proc'[q].data[g] = q
                      /\ proc'[q].current => \A g \in GPUs :
                            /\ EntryOK(g, proc[q].data[g])'
                            /\ allocs'[g] \in pods' \ overlooked' /\ allocs'[g] # q
                                  => proc'[q].data[g] = allocs'[g]
    BY Zenon DEF DataOK
  <2>1. CASE q # p
    <3>1. \A g \in GPUs : proc[q].data[g] \in Holder
      BY Zenon DEF AllocTypes, Processes
    <3> QED BY <2>1, <3>1, <1>3, <1>6 DEF DataOK
  <2>2. CASE q = p
    <3>1. ASSUME NEW g \in GPUs PROVE EntryOK(g, proc[p].data[g])'
      <4>1. CASE g \in proc'[p].gpus
        BY <4>1, <2>2, Zenon DEF EntryOK, Avail
      <4>2. CASE g \notin proc'[p].gpus
        BY <4>2, <2>2, <1>4, Zenon DEF EntriesOK, EntryOK
      <4> QED BY <4>1, <4>2, Zenon
    <3> QED BY <2>2, <3>1, <1>6, Zenon
  <2> QED BY <2>1, <2>2, Zenon
<1> QED BY <1>1, <1>2, <1>4, <1>5, <1>7, Zenon

\* A process starts again, with nothing chosen, when its Pod is started, when its
\* container restarts and when a try fails.
LEMMA FreshKeeps ==
    ASSUME AllocInv, NEW p \in Pods, NEW phase \in {"idle", "ended"},
           proc[p].phase # "ended",
           proc' = [proc EXCEPT ![p] = At(phase)],
           pods' = IF phase = "idle" THEN pods \cup {p} ELSE pods \ {p},
           allocs' = allocs, overlooked \subseteq overlooked', overlooked' \subseteq Pods
    PROVE  AllocInv'
<1>1. proc' \in [Pods -> Processes] /\ proc'[p].phase = phase
  BY Zenon DEF AllocInv, AllocTypes, At, Processes, Holder
<1>2. p \in pods' => p \in pods \/ proc[p].phase = "unborn"
  BY Zenon DEF AllocInv, Running
<1> QED BY <1>1, <1>2, StepKeeps, Zenon DEF AllocInv, AllocTypes

\* A step of one process before it has chosen.
LEMMA LookingKeeps ==
    ASSUME AllocInv, NEW p \in Pods, NEW phase \in {"listed", "creating"},
           NEW seen \in SUBSET Pods, p \in pods,
           proc' = [proc EXCEPT ![p].phase = phase, ![p].seen = seen],
           UNCHANGED <<pods, allocs, overlooked>>
    PROVE  AllocInv'
<1>1. proc[p] \in Processes
  BY Zenon DEF AllocInv, AllocTypes
<1>2. [proc[p] EXCEPT !.phase = phase, !.seen = seen] \in Processes
  BY <1>1, Zenon DEF Processes
<1>3. /\ proc' \in [Pods -> Processes] /\ proc'[p].phase = phase
      /\ \A q \in Pods \ {p} : proc'[q] = proc[q]
  BY <1>1, <1>2, Zenon DEF AllocInv, AllocTypes, Processes
<1> QED BY <1>3, StepKeeps, Zenon DEF AllocInv, AllocTypes

\* What a process leaves out of the entries it is going to write belongs to no Pod
\* that exists and is not overlooked.
LEMMA ReadAndChooseKeeps ==
    ASSUME AllocInv, NEW p \in Pods, ReadAndChoose(p)
    PROVE  AllocInv'
<1> USE DEF AllocInv
<1>0. /\ UNCHANGED <<pods, allocs>> /\ overlooked \subseteq overlooked'
      /\ p \in pods /\ overlooked' \subseteq Pods /\ proc[p].phase # "ended"
      /\ \A g \in Obsolete(p) : allocs[g] \in pods => allocs[g] \in overlooked'
  BY Zenon DEF ReadAndChoose, Running, AllocTypes
<1>1. CASE proc' = [proc EXCEPT ![p] = At("idle")]
  BY <1>0, <1>1, FreshKeeps, Zenon
<1>2. ASSUME NEW s \in SUBSET (Avail(p) \ Used(p)), Cardinality(s) = NumGPUs[p],
             proc' = [proc EXCEPT ![p] =
                    [phase |-> "chosen", seen |-> {}, gpus |-> s, current |-> TRUE,
                     data |-> [g \in GPUs |-> IF g \in s THEN p
                                              ELSE IF g \in Obsolete(p) THEN Nobody
                                              ELSE allocs[g]]]]
      PROVE  AllocInv'
  <2> DEFINE data == [g \in GPUs |-> IF g \in s THEN p
                                     ELSE IF g \in Obsolete(p) THEN Nobody
                                     ELSE allocs[g]]
             new == [phase |-> "chosen", seen |-> {}, gpus |-> s, current |-> TRUE,
                     data |-> data]
  <2>1. Avail(p) \subseteq GPUs /\ s \subseteq Avail(p)
    BY AllocationConstants, Zenon DEF Avail
  <2>2. data \in [GPUs -> Holder]
    BY Zenon DEF Holder, AllocTypes
  <2>3. \A g \in s : data[g] = p
    BY <2>1, Zenon
  <2>4. \A g \in GPUs \ s : data[g] \in {allocs[g], Nobody}
    BY Zenon
  <2>5. ASSUME NEW g \in GPUs, allocs[g] \in pods \ overlooked', allocs[g] # p
        PROVE  data[g] = allocs[g]
    <3>1. allocs[g] \in Pods /\ allocs[g] # Nobody /\ g \notin Obsolete(p)
      BY <1>0, <2>5, AllocationConstants, Zenon DEF AllocTypes
    <3>2. CASE g \in s
      <4>1. NodeOfPod[allocs[g]] = NodeOfPod[p]
        BY <3>1, <3>2, <2>1, Zenon DEF EntriesOK, EntryOK, Avail
      <4>2. allocs[g] \in proc[p].seen \ {p}
        BY <3>1, <4>1, <2>5, Zenon DEF Obsolete
      <4> QED BY <3>1, <3>2, <4>1, <4>2, Zenon DEF Used
    <3> QED BY <3>1, <3>2, Zenon
  <2>6. proc' = [proc EXCEPT ![p] = new]
    BY <1>2, Zenon
  <2> HIDE DEF data
  <2>7. new \in Processes /\ new.phase = "chosen" /\ new.gpus = s /\ new.data = data
    BY <2>1, <2>2, Zenon DEF Processes
  <2> HIDE DEF new
  <2>8. /\ proc' \in [Pods -> Processes] /\ proc'[p] = new
        /\ \A q \in Pods \ {p} : proc'[q] = proc[q]
    BY <2>6, <2>7, Zenon DEF AllocTypes
  <2> QED BY <1>0, <1>2, <2>1, <2>3, <2>4, <2>5, <2>7, <2>8, StepKeeps DEF AllocTypes
<1> QED BY <1>1, <1>2, Zenon DEF ReadAndChoose

\* The ConfigMap is written: entries of other Pods stay, except of those that are
\* gone or overlooked, and what others have read is stale.
LEMMA WriteKeeps ==
    ASSUME AllocInv, NEW p \in Pods, proc[p].phase = "chosen", proc[p].current,
           NEW outcome \in Processes, outcome.phase \in {"idle", "serving"},
           outcome.phase = "serving" => outcome.gpus = proc[p].gpus,
           allocs' = proc[p].data, proc' = AfterWrite(p, outcome),
           UNCHANGED <<pods, overlooked>>
    PROVE  AllocInv'
<1> USE DEF AllocInv
<1>1. proc[p] \in Processes /\ p \in pods
  BY Zenon DEF AllocTypes, Running
<1>2. proc'[p] = outcome
  BY Zenon DEF AfterWrite
<1>3. ASSUME NEW q \in Pods \ {p}
      PROVE  /\ proc'[q] \in Processes /\ proc'[q].phase = proc[q].phase
             /\ proc'[q].gpus = proc[q].gpus /\ proc'[q].data = proc[q].data
             /\ proc'[q].current = FALSE
  <2>1. proc[q] \in Processes
    BY Zenon DEF AllocTypes
  <2>2. proc'[q] = [proc[q] EXCEPT !.current = FALSE]
    BY Zenon DEF AfterWrite
  <2> QED BY <2>1, <2>2, Zenon DEF Processes
<1>4. AllocTypes'
  <2>1. proc' \in [Pods -> Processes]
    BY <1>2, <1>3, Zenon DEF AfterWrite
  <2> QED BY <1>1, <2>1, Zenon DEF AllocTypes, Processes
<1>5. Running'
  BY <1>1, <1>2, <1>3, Zenon DEF Running
<1>6. \A g \in GPUs, r \in Holder : EntryOK(g, r) => EntryOK(g, r)'
  BY <1>2, <1>3, Zenon DEF EntryOK, Avail, Holder
<1>7. \A g \in GPUs : EntryOK(g, proc[p].data[g]) /\ proc[p].data[g] \in Holder
  BY <1>1, Zenon DEF DataOK, Processes
<1>8. EntriesOK'
  BY <1>6, <1>7, Zenon DEF EntriesOK
<1>9. ChoiceOK'
  <2> SUFFICES ASSUME NEW q \in Pods, proc'[q].phase \in {"chosen", "serving"}
               PROVE  Cardinality(proc'[q].gpus) = NumGPUs[q] /\ proc'[q].gpus \subseteq Avail(q)
    BY Zenon DEF ChoiceOK, Avail
  <2>1. proc[q].phase \in {"chosen", "serving"} /\ proc'[q].gpus = proc[q].gpus
    BY <1>2, <1>3, ZenonT(40)
  <2> QED BY <2>1, Zenon DEF ChoiceOK
<1>10. DataOK'
  <2>1. ASSUME NEW q \in Pods, proc'[q].phase = "chosen"
        PROVE  /\ proc[q].phase = "chosen" /\ ~proc'[q].current
               /\ proc'[q].gpus = proc[q].gpus /\ proc'[q].data = proc[q].data
    BY <2>1, <1>2, <1>3, Zenon
  <2> QED BY <2>1 DEF DataOK
<1>11. EnteredOK'
  <2> SUFFICES ASSUME NEW q \in Pods, proc'[q].phase = "serving", q \notin overlooked,
                      NEW g \in proc'[q].gpus
               PROVE  proc[p].data[g] = q
    BY Zenon DEF EnteredOK
  <2>1. CASE q = p
    BY <2>1, <1>2 DEF DataOK
  <2>2. CASE q # p
    <3>1. q \in pods /\ proc[q].phase = "serving" /\ g \in proc[q].gpus
      BY <2>2, <1>3, Zenon DEF Running
    <3>2. g \in GPUs /\ allocs[g] = q
      BY <3>1, Zenon DEF EnteredOK, AllocTypes, Processes
    <3> QED BY <2>2, <3>1, <3>2 DEF DataOK
  <2> QED BY <2>1, <2>2, Zenon
<1> QED BY <1>4, <1>5, <1>8, <1>9, <1>10, <1>11, Zenon

LEMMA AllocInvNext == AllocInv /\ [AllocNext]_allocVars => AllocInv'
<1> SUFFICES ASSUME AllocInv, [AllocNext]_allocVars PROVE AllocInv'
  BY Zenon
<1>1. CASE UNCHANGED allocVars
  BY <1>1 DEF allocVars, AllocInv, AllocTypes, Running, EntriesOK, EntryOK, ChoiceOK, DataOK,
              EnteredOK, Avail
<1>2. ASSUME NEW p \in Pods, PodStarts(p) \/ PodEnds(p) \/ ContainerRestarts(p) \/ Try(p)
      PROVE  AllocInv'
  <2> USE DEF AllocInv
  <2>1. /\ p \in pods <=> proc[p].phase \notin {"unborn", "ended"}
        /\ overlooked \subseteq Pods /\ proc[p] \in Processes /\ pods \subseteq Pods
    BY Zenon DEF Running, AllocTypes
  <2>2. CASE PodStarts(p) \/ PodEnds(p) \/ ContainerRestarts(p) \/ CreateFails(p)
    BY <2>1, <2>2, FreshKeeps, Zenon DEF PodStarts, PodEnds, ContainerRestarts, CreateFails
  <2>3. CASE ListPods(p)
    BY <2>1, <2>3, LookingKeeps, Zenon DEF ListPods
  <2>4. CASE FindMissing(p)
    <3>1. proc' = [proc EXCEPT ![p].phase = "creating", ![p].seen = proc[p].seen]
      BY <2>1, <2>4, Zenon DEF FindMissing, Processes, AllocTypes
    <3>2. proc[p].seen \in SUBSET Pods
      BY <2>1, Zenon DEF Processes
    <3> QED BY <2>1, <2>4, <3>1, <3>2, LookingKeeps, Zenon DEF FindMissing
  <2>5. CASE ReadAndChoose(p)
    BY <2>5, ReadAndChooseKeeps, Zenon
  <2>6. CASE Update(p)
    <3>1. CASE ~proc[p].current
      BY <2>1, <2>6, <3>1, FreshKeeps, Zenon DEF Update
    <3>2. CASE proc[p].current
      <4> DEFINE new == [At("serving") EXCEPT !.gpus = proc[p].gpus]
      <4>1. At("idle") \in Processes /\ At("idle").phase = "idle"
        BY Zenon DEF At, Processes, Holder
      <4>2. new \in Processes /\ new.phase = "serving" /\ new.gpus = proc[p].gpus
        BY <2>1, Zenon DEF At, Processes, Holder
      <4> QED BY <2>6, <3>2, <4>1, <4>2, WriteKeeps, Zenon DEF Update
    <3> QED BY <3>1, <3>2, Zenon
  <2> QED BY <1>2, <2>2, <2>3, <2>4, <2>5, <2>6, Zenon DEF Try
<1> QED BY <1>1, <1>2, Zenon DEF AllocNext

LEMMA AllocInvHolds == AllocInv => ExclusiveUnlessOverlooked /\ HoldsWhatIsRecorded
<1> SUFFICES ASSUME AllocInv PROVE ExclusiveUnlessOverlooked /\ HoldsWhatIsRecorded
  BY Zenon
<1>1. ExclusiveUnlessOverlooked
  BY DEF AllocInv, EnteredOK, ExclusiveUnlessOverlooked, Holds
<1>2. HoldsWhatIsRecorded
  BY Zenon DEF AllocInv, ChoiceOK, EnteredOK, HoldsWhatIsRecorded, Holds
<1> QED BY <1>1, <1>2, Zenon

\* However many Pods try to allocate GPUs at the same time, are deleted, restart or
\* lose a reply, two requesters hold the same GPU only when one of them was taken
\* for gone by a process that listed the Pods before it and read the ConfigMap after.
THEOREM GPUsAreExclusive == AllocSpec => []ExclusiveUnlessOverlooked
<1> QED BY AllocInvInit, AllocInvNext, AllocInvHolds, PTL DEF AllocSpec

\* What a requester tells the dual-pods controller is what it asked for and, unless
\* it was overlooked, what the ConfigMap says.
THEOREM HoldingsAreRecorded == AllocSpec => []HoldsWhatIsRecorded
<1> QED BY AllocInvInit, AllocInvNext, AllocInvHolds, PTL DEF AllocSpec

-------------------------------------------------------------------------------
(* The relay of the log.                                                        *)

\* The part of a chunk that is new is a sequence of bytes: the one at the accepted
\* position and those that follow it.
LEMMA NewsAreNext ==
    ASSUME RelayTypeOK, NEW start \in Nat, NEW len \in Int
    PROVE  /\ News(start, len) \in Seq(Nat)
           /\ \A k \in 1 .. Len(News(start, len)) : News(start, len)[k] = nextLogPos + k - 1
<1> DEFINE n == start + len - nextLogPos
           new == [k \in 1 .. n |-> nextLogPos + k - 1]
<1>1. CASE start <= nextLogPos /\ start + len > nextLogPos
  <2>1. n \in Nat
    BY <1>1 DEF RelayTypeOK
  <2>2. \A k \in 1 .. n : nextLogPos + k - 1 \in Nat
    BY DEF RelayTypeOK
  <2>3. new \in Seq(Nat) /\ Len(new) = n
    BY <2>1, <2>2, IsASeq
  <2>4. News(start, len) = new
    BY <1>1, Zenon DEF News
  <2> QED BY <2>3, <2>4, Zenon
<1>2. CASE ~(start <= nextLogPos /\ start + len > nextLogPos)
  BY <1>2 DEF News
<1> QED BY <1>1, <1>2, Zenon

\* The last byte written is not before the accepted position: what is new continues
\* it or repeats, and leaves no hole.
LastByte ==
    nextLogPos > 0 => written # <<>> /\ written[Len(written)] >= nextLogPos - 1

RelayInv == RelayTypeOK /\ LogIsPrefix /\ NothingSkipped /\ LastByte

LEMMA RelayInvInit == RelayInit => RelayInv
BY DEF RelayInit, RelayInv, RelayTypeOK, LogIsPrefix, NothingSkipped, LastByte

\* Bytes that begin at the accepted position are appended without a hole.
LEMMA AppendNews ==
    ASSUME RelayInv, NEW n \in Nat, NEW new \in Seq(Nat), Len(new) = n,
           \A k \in 1 .. n : new[k] = nextLogPos + k - 1
    PROVE  LET w == written \o new IN
           /\ w \in Seq(Nat) /\ Len(w) = Len(written) + n
           /\ \A k \in 1 .. Len(written) : w[k] = written[k]
           /\ \A k \in 1 .. n : w[Len(written) + k] = nextLogPos + k - 1
           /\ \A k \in 1 .. Len(w) : w[k] = 0 \/ (k > 1 /\ w[k] <= w[k - 1] + 1)
<1> DEFINE w == written \o new
           m == Len(written)
<1>1. written \in Seq(Nat) /\ nextLogPos \in Nat /\ m \in Nat
  BY LenProperties, Zenon DEF RelayInv, RelayTypeOK
<1>2. w \in Seq(Nat) /\ Len(w) = m + n
  BY <1>1, ConcatProperties, Zenon
<1>3. \A k \in 1 .. m : w[k] = written[k]
  BY <1>1, ConcatProperties
<1>6. DOMAIN written = 1 .. m /\ (written # <<>> => m # 0)
  BY <1>1, LenProperties, EmptySeq, Zenon
<1>7. nextLogPos > 0 => written # <<>> /\ written[m] >= nextLogPos - 1
  BY Zenon DEF RelayInv, LastByte
<1>4. \A k \in 1 .. n : w[m + k] = nextLogPos + k - 1
  <2> SUFFICES ASSUME NEW k \in 1 .. n PROVE w[m + k] = nextLogPos + k - 1
    BY Zenon
  <2>1. m + k \in 1 .. (m + n) /\ ~(m + k <= m) /\ (m + k) - m = k
    BY <1>1
  <2>2. w[m + k] = new[(m + k) - m]
    BY <1>1, <2>1, ConcatProperties, Zenon
  <2> QED BY <2>1, <2>2, Zenon
<1>5. \A k \in 1 .. (m + n) : w[k] = 0 \/ (k > 1 /\ w[k] <= w[k - 1] + 1)
  <2> SUFFICES ASSUME NEW k \in 1 .. (m + n)
               PROVE  w[k] = 0 \/ (k > 1 /\ w[k] <= w[k - 1] + 1)
    BY Zenon
  <2> HIDE DEF w, m
  <2>1. CASE k <= m
    <3>1. DOMAIN written = 1 .. m
      BY <1>6, Zenon
    <3>2. k \in 1 .. m /\ (k > 1 => k - 1 \in 1 .. m)
      BY <2>1, <1>1
    <3>3. written[k] = 0 \/ (k > 1 /\ written[k] <= written[k - 1] + 1)
      BY <3>1, <3>2, Zenon DEF RelayInv, NothingSkipped
    <3> QED BY <3>2, <3>3, <1>3, Zenon
  <2>2. CASE k = m + 1
    <3>1. 1 \in 1 .. n /\ m + 1 = k
      BY <2>2, <1>1
    <3>2. w[k] = nextLogPos
      <4>1. w[m + 1] = nextLogPos + 1 - 1
        BY <3>1, <1>4, Zenon
      <4>2. nextLogPos + 1 - 1 = nextLogPos
        BY <1>1
      <4> QED BY <3>1, <4>1, <4>2, Zenon
    <3>3. CASE nextLogPos = 0
      BY <3>2, <3>3, Zenon
    <3>4. CASE nextLogPos > 0
      <4>1. written # <<>> /\ written[m] >= nextLogPos - 1
        BY <3>4, <1>7, Zenon
      <4>2. m \in 1 .. m /\ k > 1 /\ k - 1 = m
        BY <4>1, <1>1, <1>6, <2>2
      <4>3. w[k - 1] = written[m] /\ written[m] \in Nat
        BY <4>2, <1>1, <1>3, ElementOfSeq, Zenon DEF m
      <4>4. nextLogPos <= written[m] + 1
        <5>1. PICK a \in Nat, b \in Nat : a = written[m] /\ b = nextLogPos
          BY <4>3, <1>1, Zenon
        <5>2. a >= b - 1
          BY <4>1, <5>1, Zenon
        <5>3. b <= a + 1
          BY <5>2
        <5> QED BY <5>1, <5>3, Zenon
      <4> QED BY <3>2, <4>2, <4>3, <4>4, Zenon
    <3> QED BY <3>3, <3>4, <1>1
  <2>3. CASE k > m + 1
    <3>1. k - m \in 1 .. n /\ k - m - 1 \in 1 .. n /\ k > 1
      BY <2>3, <1>1
    <3>2. w[m + (k - m)] = nextLogPos + (k - m) - 1
      BY <3>1, <1>4, Zenon
    <3>3. w[m + (k - m - 1)] = nextLogPos + (k - m - 1) - 1
      BY <3>1, <1>4, Zenon
    <3>4. m + (k - m) = k /\ m + (k - m - 1) = k - 1
      BY <1>1
    <3> QED BY <3>1, <3>2, <3>3, <3>4, <1>1
  <2>4. k <= m \/ k = m + 1 \/ k > m + 1
    BY <1>1
  <2> QED BY <2>1, <2>2, <2>3, <2>4, Zenon
<1> QED BY <1>2, <1>3, <1>4, <1>5, Zenon

\* A chunk whose write succeeds.
LEMMA AddChunkKeeps ==
    ASSUME RelayInv, NEW start \in Nat, NEW len \in Int, AddChunk(start, len)
    PROVE  RelayInv'
<1> DEFINE new == News(start, len)
           n == Len(new)
           m == Len(written)
<1>1. new \in Seq(Nat) /\ \A k \in 1 .. n : new[k] = nextLogPos + k - 1
  BY NewsAreNext, Zenon DEF RelayInv
<1>2. n \in Nat /\ n > 0 /\ m \in Nat /\ nextLogPos \in Nat /\ written \in Seq(Nat)
  BY <1>1, LenProperties, EmptySeq DEF AddChunk, RelayInv, RelayTypeOK
<1>3. /\ written' = written \o new /\ nextLogPos' = nextLogPos + n
      /\ total' = total /\ broken' = broken
  BY Zenon DEF AddChunk
<1> HIDE DEF new
<1>4. /\ written' \in Seq(Nat) /\ Len(written') = m + n
      /\ \A k \in 1 .. m : written'[k] = written[k]
      /\ \A k \in 1 .. n : written'[m + k] = nextLogPos + k - 1
      /\ \A k \in 1 .. (m + n) : written'[k] = 0 \/ (k > 1 /\ written'[k] <= written'[k - 1] + 1)
  BY <1>1, <1>2, <1>3, AppendNews, ZenonT(40)
<1>5. DOMAIN written' = 1 .. (m + n) /\ DOMAIN written = 1 .. m
  BY <1>2, <1>4, LenProperties, Zenon
<1>6. RelayTypeOK'
  BY <1>2, <1>3, <1>4 DEF RelayTypeOK, RelayInv
<1>7. LogIsPrefix'
  <2> SUFFICES ASSUME broken' = 0
               PROVE  written' = [k \in 1 .. nextLogPos' |-> k - 1]
    BY Zenon DEF LogIsPrefix
  <2>1. written = [k \in 1 .. nextLogPos |-> k - 1]
    BY <1>3, Zenon DEF RelayInv, LogIsPrefix
  <2>2. m = nextLogPos
    BY <2>1, <1>2, <1>5
  <2>3. ASSUME NEW k \in 1 .. (m + n) PROVE written'[k] = k - 1
    <3>1. CASE k <= m
      BY <3>1, <2>1, <2>2, <1>2, <1>4
    <3>2. CASE k > m
      <4>1. k - m \in 1 .. n /\ m + (k - m) = k
        BY <3>2, <1>2
      <4>2. written'[m + (k - m)] = nextLogPos + (k - m) - 1
        BY <4>1, <1>4, Zenon
      <4> QED BY <4>1, <4>2, <2>2, <1>2
    <3> QED BY <3>1, <3>2, <1>2
  <2>4. [k \in 1 .. (m + n) |-> k - 1] = written'
    BY <2>3, <1>4, <1>5, LenProperties, Zenon
  <2> QED BY <2>2, <2>4, <1>3, Zenon
<1>8. NothingSkipped'
  <2>1. ASSUME NEW j \in 0 .. (nextLogPos' - 1)
        PROVE  \E k \in DOMAIN written' : written'[k] = j
    <3>1. CASE j < nextLogPos
      <4>1. PICK k \in DOMAIN written : written[k] = j
        BY <3>1, <1>2 DEF RelayInv, NothingSkipped
      <4> QED BY <4>1, <1>2, <1>4, <1>5
    <3>2. CASE j >= nextLogPos
      <4>1. j - nextLogPos + 1 \in 1 .. n
        BY <3>2, <1>2, <1>3
      <4>2. written'[m + (j - nextLogPos + 1)] = nextLogPos + (j - nextLogPos + 1) - 1
        BY <4>1, <1>4, Zenon
      <4>3. m + (j - nextLogPos + 1) \in DOMAIN written'
        BY <4>1, <1>2, <1>5
      <4>4. nextLogPos + (j - nextLogPos + 1) - 1 = j
        BY <1>2, <1>3
      <4> QED BY <4>2, <4>3, <4>4, Zenon
    <3>3. j < nextLogPos \/ j >= nextLogPos
      BY <1>2, <1>3
    <3> QED BY <3>1, <3>2, <3>3, Zenon
  <2> QED BY <2>1, <1>4, <1>5, Zenon DEF NothingSkipped
<1>9. LastByte'
  <2>1. n \in 1 .. n /\ written'[m + n] = nextLogPos + n - 1
    BY <1>2, <1>4
  <2>2. written' # <<>>
    BY <1>2, <1>4
  <2> QED BY <2>1, <2>2, <1>2, <1>3, <1>4 DEF LastByte
<1> QED BY <1>6, <1>7, <1>8, <1>9, Zenon DEF RelayInv

\* A chunk of which only some bytes, or none, are written before the failure.
LEMMA WriteFailsKeeps ==
    ASSUME RelayInv, NEW start \in Nat, NEW len \in Int, WriteFails(start, len)
    PROVE  RelayInv'
<1> DEFINE all == News(start, len)
           m == Len(written)
<1>1. all \in Seq(Nat) /\ \A k \in 1 .. Len(all) : all[k] = nextLogPos + k - 1
  BY NewsAreNext, Zenon DEF RelayInv
<1>2. PICK n \in 0 .. Len(all) : written' = written \o SubSeq(all, 1, n)
  BY Zenon DEF WriteFails
<1>3. /\ nextLogPos' = nextLogPos /\ total' = total /\ broken' = broken + 1
      /\ m \in Nat /\ Len(all) \in Nat /\ nextLogPos \in Nat /\ broken \in Nat
      /\ written \in Seq(Nat)
  BY <1>1, LenProperties, Zenon DEF WriteFails, RelayInv, RelayTypeOK
<1> HIDE DEF all
<1> DEFINE new == SubSeq(all, 1, n)
<1>4. \A i \in 1 .. n : all[i] \in Nat
  <2>1. \A i \in 1 .. n : i \in 1 .. Len(all)
    BY <1>3
  <2> QED BY <1>1, <2>1, ElementOfSeq, Zenon
<1>5. new \in Seq(Nat) /\ Len(new) = n /\ \A k \in 1 .. n : new[k] = nextLogPos + k - 1
  <2>1. /\ new \in Seq(Nat) /\ Len(new) = IF 1 <= n THEN n - 1 + 1 ELSE 0
        /\ \A k \in 1 .. n - 1 + 1 : new[k] = all[1 + k - 1]
    BY <1>4, SubSeqProperties
  <2> HIDE DEF new
  <2>2. n - 1 + 1 = n /\ Len(new) = n
    BY <2>1
  <2>3. ASSUME NEW k \in 1 .. n PROVE new[k] = nextLogPos + k - 1
    <3>1. 1 + k - 1 = k /\ k \in 1 .. Len(all)
      BY <1>3
    <3> QED BY <1>1, <2>1, <2>2, <3>1, Zenon
  <2> QED BY <2>1, <2>2, <2>3, Zenon
<1> HIDE DEF new
<1>6. /\ written' \in Seq(Nat) /\ Len(written') = m + n
      /\ \A k \in 1 .. m : written'[k] = written[k]
      /\ \A k \in 1 .. n : written'[m + k] = nextLogPos + k - 1
      /\ \A k \in 1 .. (m + n) : written'[k] = 0 \/ (k > 1 /\ written'[k] <= written'[k - 1] + 1)
  <2>1. written' = written \o new /\ n \in Nat
    BY <1>2, <1>3 DEF new
  <2> QED BY <2>1, <1>5, AppendNews, ZenonT(40)
<1>7. DOMAIN written' = 1 .. (m + n) /\ DOMAIN written = 1 .. m
  BY <1>3, <1>6, LenProperties, Zenon
<1>8. RelayTypeOK' /\ LogIsPrefix'
  BY <1>3, <1>6 DEF RelayTypeOK, RelayInv, LogIsPrefix
<1>9. NothingSkipped'
  <2>1. ASSUME NEW j \in 0 .. (nextLogPos' - 1)
        PROVE  \E k \in DOMAIN written' : written'[k] = j
    <3>1. PICK k \in DOMAIN written : written[k] = j
      BY <1>3, Zenon DEF RelayInv, NothingSkipped
    <3> QED BY <3>1, <1>2, <1>3, <1>6, <1>7
  <2> QED BY <2>1, <1>6, <1>7, Zenon DEF NothingSkipped
<1>10. LastByte'
  <2>1. CASE n = 0
    <3>1. written' = written
      BY <2>1, <1>3, <1>5, <1>2, ConcatEmptySeq, EmptySeq, Zenon DEF new
    <3> QED BY <3>1, <1>3, Zenon DEF RelayInv, LastByte
  <2>2. CASE n > 0
    <3>1. n \in 1 .. n /\ written'[m + n] = nextLogPos + n - 1
      BY <2>2, <1>2, <1>3, <1>6
    <3>2. written' # <<>>
      BY <3>1, <1>6, <1>7
    <3>3. Len(written') = m + n
      BY <1>6, Zenon
    <3>4. nextLogPos + n - 1 >= nextLogPos - 1
      BY <1>3
    <3> QED BY <3>1, <3>2, <3>3, <3>4, <1>3, Zenon DEF LastByte
  <2> QED BY <2>1, <2>2, <1>2, <1>3
<1> QED BY <1>8, <1>9, <1>10, Zenon DEF RelayInv

LEMMA RelayInvNext == RelayInv /\ [RelayNext]_relayVars => RelayInv'
<1> SUFFICES ASSUME RelayInv, [RelayNext]_relayVars PROVE RelayInv'
  OBVIOUS
<1> USE DEF RelayInv
<1>1. CASE LogGrows
  BY <1>1 DEF LogGrows, RelayTypeOK, LogIsPrefix, NothingSkipped, LastByte
<1>2. CASE Relay
  <2>1. PICK start \in 0 .. (total - 1) : \E end \in Ends(start) :
             AddChunk(start, BytesRead(start, end)) \/ WriteFails(start, BytesRead(start, end))
    BY <1>2, Zenon DEF Relay
  <2> PICK end \in Ends(start) :
           AddChunk(start, BytesRead(start, end)) \/ WriteFails(start, BytesRead(start, end))
    BY <2>1, Zenon
  <2>2. start \in Nat /\ end \in Int /\ total \in Nat
    BY <2>1, RelayConstants DEF Ends, RelayTypeOK
  <2>3. BytesRead(start, end) \in Int
    BY <2>2 DEF BytesRead, LesserOf
  <2> QED BY <2>2, <2>3, AddChunkKeeps, WriteFailsKeeps, Zenon
<1>3. CASE HandlerRestarts
  BY <1>3 DEF HandlerRestarts, RelayTypeOK, LogIsPrefix, NothingSkipped, LastByte
<1>4. CASE UNCHANGED relayVars
  BY <1>4, Zenon DEF relayVars, RelayTypeOK, LogIsPrefix, NothingSkipped, LastByte
<1> QED BY <1>1, <1>2, <1>3, <1>4, Zenon DEF RelayNext

\* Whatever chunks arrive, newSetLogHandler writes the server's log up to the accepted
\* position, byte for byte, as long as no write fails.
THEOREM RelayIsFaithful == RelaySpec => []LogIsPrefix
<1>1. RelayInv => LogIsPrefix
  BY Zenon DEF RelayInv
<1> QED BY <1>1, RelayInvInit, RelayInvNext, PTL DEF RelaySpec

\* After failed writes there are repetitions in the requester's log, but no byte is
\* missing up to the accepted position of newSetLogHandler.
THEOREM RelaySkipsNothing == RelaySpec => []NothingSkipped
<1>1. RelayInv => NothingSkipped
  BY Zenon DEF RelayInv
<1> QED BY <1>1, RelayInvInit, RelayInvNext, PTL DEF RelaySpec

-------------------------------------------------------------------------------
(* Both.                                                                        *)

\* In the test requester as a whole, where a process that ends takes its log handler
\* with it, the allocation and the relay of the log are what they are by themselves.
THEOREM RequesterIsSafe ==
    Spec => [](ExclusiveUnlessOverlooked /\ HoldsWhatIsRecorded /\ LogIsPrefix /\ NothingSkipped)
<1>1. Init => AllocInit /\ RelayInit
  BY Zenon DEF Init
<1>2. [Next]_vars => [AllocNext]_allocVars /\ [RelayNext]_relayVars
  BY Zenon DEF Next, vars, Allocate, ServeLog, RelayNext
<1>3. RelayInv => LogIsPrefix /\ NothingSkipped
  BY Zenon DEF RelayInv
<1> QED BY <1>1, <1>2, <1>3, AllocInvInit, AllocInvNext, AllocInvHolds, RelayInvInit,
           RelayInvNext, PTL DEF Spec
===============================================================================
