------------------------ MODULE LauncherSelectionProofs ------------------------
(* What selectOrReclaimLauncherPod relies on, for any set of instances.        *)
EXTENDS LauncherSelection, FiniteSetTheorems, TLAPS

LEMMA DisjointUnion ==
    ASSUME NEW S, NEW T, IsFiniteSet(S), IsFiniteSet(T), S \cap T = {}
    PROVE  Cardinality(S \cup T) = Cardinality(S) + Cardinality(T)
PROOF
  <1>1. Cardinality(S \cap T) = 0
    BY FS_EmptySet, Zenon
  <1>2. Cardinality(S) \in Nat /\ Cardinality(T) \in Nat
    BY FS_CardinalityType, Zenon
  <1>3. Cardinality(S \cup T) = Cardinality(S) + Cardinality(T) - Cardinality(S \cap T)
    BY FS_Union, Zenon
  <1> QED
    BY <1>1, <1>2, <1>3

LEMMA SubsetDifference ==
    ASSUME NEW S, IsFiniteSet(S), NEW T \in SUBSET S
    PROVE  IsFiniteSet(T) /\ Cardinality(S \ T) = Cardinality(S) - Cardinality(T)
PROOF
  <1>1. S \cap T = T
    BY Zenon
  <1> QED
    <2>1. IsFiniteSet(T)
      BY FS_Subset, Zenon
    <2>2. Cardinality(S \ T) = Cardinality(S) - Cardinality(S \cap T)
      BY FS_Difference, Zenon
    <2> QED
      BY <1>1, <2>1, <2>2, Zenon

LEMMA VictimSets ==
    ASSUME NEW insts, IsFiniteSet(insts), NEW target, target \notin insts, NEW port
    PROVE  LET C == PortConflictVictims(insts, target, port)
               O == OtherVictims(insts, target, port)
           IN  /\ C \cup O = insts /\ C \cap O = {}
               /\ IsFiniteSet(C) /\ IsFiniteSet(O)
               /\ Cardinality(C) \in Nat /\ Cardinality(O) \in Nat
               /\ Cardinality(insts) = Cardinality(C) + Cardinality(O)
PROOF
  <1> DEFINE C == PortConflictVictims(insts, target, port)
             O == OtherVictims(insts, target, port)
  <1>1. C \cup O = insts /\ C \cap O = {} /\ C \subseteq insts /\ O \subseteq insts
    BY Zenon DEF PortConflictVictims, OtherVictims
  <1>2. IsFiniteSet(C) /\ IsFiniteSet(O)
    BY <1>1, FS_Subset, Zenon
  <1>3. Cardinality(C) \in Nat /\ Cardinality(O) \in Nat
    BY <1>2, FS_CardinalityType, Zenon
  <1>4. Cardinality(C \cup O) = Cardinality(C) + Cardinality(O)
    BY <1>1, <1>2, DisjointUnion, Zenon
  <1> QED
    BY <1>1, <1>2, <1>3, <1>4, Zenon

\* How many victims a reclaim plan has.
LEMMA PlanSize ==
    ASSUME NEW insts, IsFiniteSet(insts), NEW target, target \notin insts, NEW port,
           NEW maxOthers \in Nat, NEW V \in ReclaimPlans(insts, target, port, maxOthers)
    PROVE  LET C == PortConflictVictims(insts, target, port)
               n == Cardinality(insts)
               d == ToDelete(insts, maxOthers)
           IN  /\ C \subseteq V /\ V \subseteq insts
               /\ Cardinality(V) = IF d <= Cardinality(C) THEN Cardinality(C)
                                   ELSE IF d <= n THEN d ELSE n
PROOF
  <1> DEFINE C == PortConflictVictims(insts, target, port)
             O == OtherVictims(insts, target, port)
             d == ToDelete(insts, maxOthers)
  <1>1. PICK W \in PickInstanceVictims(O, d - Cardinality(C)) : V = C \cup W
    BY Zenon DEF ReclaimPlans
  <1>2. W \subseteq O
    BY Zenon DEF PickInstanceVictims
  <1>3. C \cup O = insts /\ C \cap O = {} /\ IsFiniteSet(C) /\ IsFiniteSet(W)
    BY <1>2, VictimSets, FS_Subset, Zenon
  <1>4. Cardinality(V) = Cardinality(C) + Cardinality(W)
    <2>1. C \cap W = {}
      BY <1>2, <1>3, Zenon
    <2> QED
      BY <1>1, <1>3, <2>1, DisjointUnion, Zenon
  <1>5. /\ Cardinality(C) \in Nat /\ Cardinality(O) \in Nat /\ Cardinality(insts) \in Nat
        /\ Cardinality(insts) = Cardinality(C) + Cardinality(O)
    BY VictimSets, FS_CardinalityType
  <1>6. d \in Int
    BY <1>5 DEF ToDelete
  <1>7. Cardinality(W) = IF d - Cardinality(C) <= 0 THEN 0
                         ELSE IF d - Cardinality(C) <= Cardinality(O) THEN d - Cardinality(C)
                         ELSE Cardinality(O)
    BY Zenon DEF PickInstanceVictims
  <1> HIDE DEF C, O, d
  <1>8. Cardinality(V) = IF d <= Cardinality(C) THEN Cardinality(C)
                         ELSE IF d <= Cardinality(insts) THEN d ELSE Cardinality(insts)
    BY <1>4, <1>5, <1>6, <1>7
  <1> QED
    BY <1>1, <1>2, <1>3, <1>8, Zenon DEF C, O, d

\* After the victims of a reclaim plan are deleted there is room for the target:
\* no port conflict is left and at most maxOthers other instances.
THEOREM ReclaimMakesRoom ==
    ASSUME NEW insts, IsFiniteSet(insts), NEW target, target \notin insts, NEW port,
           NEW maxOthers \in Nat, NEW V \in ReclaimPlans(insts, target, port, maxOthers)
    PROVE  HasCapacity(insts \ V, target, port, maxOthers)
PROOF
  <1> DEFINE C == PortConflictVictims(insts, target, port)
             n == Cardinality(insts)
             d == ToDelete(insts, maxOthers)
  <1>1. C \subseteq V /\ V \subseteq insts
    BY PlanSize, Zenon
  <1>2. PortConflictVictims(insts \ V, target, port) = {}
    BY <1>1, Zenon DEF PortConflictVictims
  <1>3. IsFiniteSet(V) /\ Cardinality(insts \ V) = n - Cardinality(V)
    BY <1>1, SubsetDifference, Zenon
  <1>4. n \in Nat /\ Cardinality(C) \in Nat
    BY VictimSets, FS_CardinalityType, Zenon
  <1>5. /\ n - maxOthers <= d
        /\ d \in Int
    BY <1>4 DEF ToDelete
  <1>6. Cardinality(V) = IF d <= Cardinality(C) THEN Cardinality(C) ELSE IF d <= n THEN d ELSE n
    BY PlanSize, Zenon
  <1> HIDE DEF C, n, d
  <1>7. Cardinality(insts \ V) <= maxOthers
    BY <1>3, <1>4, <1>5, <1>6
  <1> QED
    BY <1>2, <1>7, Zenon DEF HasCapacity

\* A plan made for lack of room has a victim: reclaimPlanLRU may take victims[0].
THEOREM ReclaimHasVictim ==
    ASSUME NEW insts, IsFiniteSet(insts), NEW target, target \notin insts, NEW port,
           NEW maxOthers \in Nat, NEW V \in ReclaimPlans(insts, target, port, maxOthers),
           ~HasCapacity(insts, target, port, maxOthers)
    PROVE  V # {}
PROOF
  <1> SUFFICES ASSUME V = {} PROVE FALSE
    BY Zenon
  <1>1. insts \ V = insts
    BY Zenon
  <1> QED
    BY <1>1, ReclaimMakesRoom

\* No plan deletes more than it has to: a set of instances whose deletion makes
\* room has at least as many members.
THEOREM ReclaimIsMinimal ==
    ASSUME NEW insts, IsFiniteSet(insts), NEW target, target \notin insts, NEW port,
           NEW maxOthers \in Nat, NEW V \in ReclaimPlans(insts, target, port, maxOthers),
           ~HasCapacity(insts, target, port, maxOthers),
           NEW W \in SUBSET insts, HasCapacity(insts \ W, target, port, maxOthers)
    PROVE  Cardinality(V) <= Cardinality(W)
PROOF
  <1> DEFINE C == PortConflictVictims(insts, target, port)
             n == Cardinality(insts)
             d == ToDelete(insts, maxOthers)
  <1>1. C \subseteq W
    BY Zenon DEF HasCapacity, PortConflictVictims
  <1>2. /\ IsFiniteSet(W) /\ Cardinality(insts \ W) = n - Cardinality(W)
        /\ Cardinality(C) <= Cardinality(W) /\ n - Cardinality(W) <= maxOthers
    BY <1>1, FS_Subset, SubsetDifference, Zenon DEF HasCapacity
  <1>3. n \in Nat /\ Cardinality(C) \in Nat /\ Cardinality(W) \in Nat
    BY <1>2, VictimSets, FS_CardinalityType, Zenon
  <1>4. W # {}
    <2>1. W = {} => insts \ W = insts
      BY Zenon
    <2> QED
      BY <2>1, Zenon
  <1>5. Cardinality(W) >= 1
    BY <1>2, <1>3, <1>4, FS_EmptySet
  <1>6. d <= Cardinality(W) /\ d \in Int
    BY <1>2, <1>3, <1>5 DEF ToDelete
  <1>7. Cardinality(V) = IF d <= Cardinality(C) THEN Cardinality(C) ELSE IF d <= n THEN d ELSE n
    BY PlanSize, Zenon
  <1> HIDE DEF C, n, d
  <1> QED
    BY <1>2, <1>3, <1>6, <1>7
================================================================================
