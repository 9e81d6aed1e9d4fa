------------------------- MODULE TaskSchedulerProofs -------------------------
(***************************************************************************)
(* Proofs about TaskScheduler, for any finite set of jobs, any limits and  *)
(* any assignment of jobs to repositories and groups.                      *)
(***************************************************************************)
EXTENDS TaskScheduler, FiniteSetTheorems, TLAPS

-----------------------------------------------------------------------------
(* Sequences *)

\* Removing one element keeps the others in their order.
LEMMA RemoveAtProperties ==
  ASSUME NEW S, NEW s \in Seq(S), NEW i \in 1 .. Len(s)
  PROVE  /\ RemoveAt(s, i) \in Seq(S)
         /\ Len(RemoveAt(s, i)) = Len(s) - 1
         /\ \A k \in 1 .. Len(s) - 1 : RemoveAt(s, i)[k] = IF k < i THEN s[k] ELSE s[k + 1]
<1> DEFINE front == SubSeq(s, 1, i - 1)
           back == SubSeq(s, i + 1, Len(s))
<1>1. front \in Seq(S) /\ Len(front) = i - 1 /\ \A k \in 1 .. i - 1 : front[k] = s[k]
  OBVIOUS
<1>2. /\ back \in Seq(S)
      /\ Len(back) = Len(s) - i
      /\ \A k \in 1 .. Len(s) - i : back[k] = s[k + i]
  OBVIOUS
<1>3. RemoveAt(s, i) = front \o back
  BY DEF RemoveAt
<1> HIDE DEF front, back
<1>4. front \o back \in Seq(S) /\ Len(front \o back) = Len(s) - 1
  BY <1>1, <1>2
<1>5. ASSUME NEW k \in 1 .. Len(s) - 1
      PROVE  (front \o back)[k] = IF k < i THEN s[k] ELSE s[k + 1]
  <2>1. CASE k < i
    BY <1>1, <1>2, <2>1
  <2>2. CASE ~(k < i)
    <3>1. (front \o back)[k] = back[k - Len(front)]
      BY <1>1, <1>2, <2>2
    <3>2. back[k - (i - 1)] = s[k + 1]
      BY <1>2, <2>2
    <3> QED
      BY <1>1, <2>2, <3>1, <3>2
  <2> QED
    BY <2>1, <2>2
<1> QED
  BY <1>3, <1>4, <1>5

-----------------------------------------------------------------------------
(* Jobs that hold a slot *)

InRepository(H, r) == {j \in H : RepositoryOf[j] = r}

InGroup(H, g) == {j \in H : GroupOf[j] = g}

LEMMA HoldingFinite ==
  ASSUME NEW H \in SUBSET Jobs
  PROVE  IsFiniteSet(H) /\ Cardinality(H) \in Nat
  BY JobsAssumption, FS_Subset, FS_CardinalityType

LEMMA HoldingAdded ==
  ASSUME NEW H \in SUBSET Jobs, NEW j \in Jobs \ H
  PROVE  /\ Cardinality(H \cup {j}) = Cardinality(H) + 1
         /\ \A r \in Repositories :
              Cardinality(InRepository(H \cup {j}, r)) =
                Cardinality(InRepository(H, r)) + IF r = RepositoryOf[j] THEN 1 ELSE 0
         /\ \A g \in Groups :
              Cardinality(InGroup(H \cup {j}, g)) =
                Cardinality(InGroup(H, g)) + IF g = GroupOf[j] THEN 1 ELSE 0
<1>1. Cardinality(H \cup {j}) = Cardinality(H) + 1
  BY HoldingFinite, FS_AddElement
<1>2. ASSUME NEW r \in Repositories
      PROVE  Cardinality(InRepository(H \cup {j}, r)) =
               Cardinality(InRepository(H, r)) + IF r = RepositoryOf[j] THEN 1 ELSE 0
  <2>1. IsFiniteSet(InRepository(H, r)) /\ Cardinality(InRepository(H, r)) \in Nat
    BY HoldingFinite DEF InRepository
  <2>2. InRepository(H \cup {j}, r) =
          IF r = RepositoryOf[j] THEN InRepository(H, r) \cup {j} ELSE InRepository(H, r)
    BY DEF InRepository
  <2>3. j \notin InRepository(H, r)
    BY DEF InRepository
  <2>4. Cardinality(InRepository(H, r) \cup {j}) = Cardinality(InRepository(H, r)) + 1
    BY <2>1, <2>3, FS_AddElement
  <2> QED
    BY <2>1, <2>2, <2>4
<1>3. ASSUME NEW g \in Groups
      PROVE  Cardinality(InGroup(H \cup {j}, g)) =
               Cardinality(InGroup(H, g)) + IF g = GroupOf[j] THEN 1 ELSE 0
  <2>1. IsFiniteSet(InGroup(H, g)) /\ Cardinality(InGroup(H, g)) \in Nat
    BY HoldingFinite DEF InGroup
  <2>2. InGroup(H \cup {j}, g) =
          IF g = GroupOf[j] THEN InGroup(H, g) \cup {j} ELSE InGroup(H, g)
    BY DEF InGroup
  <2>3. j \notin InGroup(H, g)
    BY DEF InGroup
  <2>4. Cardinality(InGroup(H, g) \cup {j}) = Cardinality(InGroup(H, g)) + 1
    BY <2>1, <2>3, FS_AddElement
  <2> QED
    BY <2>1, <2>2, <2>4
<1> QED
  BY <1>1, <1>2, <1>3

Counting ==
  /\ active \in Nat
  /\ activeByRepository \in [Repositories -> Nat]
  /\ activeByGroup \in [Groups -> Nat]
  /\ CountersExact

\* Taking a slot for a job that held none keeps the three counters exact.
LEMMA SlotTaken ==
  ASSUME Counting, NEW j \in Jobs, j \notin Holding, Holding' = Holding \cup {j}, TakeSlot(j)
  PROVE  Counting'
<1>0. Holding \in SUBSET Jobs /\ RepositoryOf[j] \in Repositories
  BY JobsAssumption DEF Holding
<1>1. /\ active' \in Nat
      /\ activeByRepository' \in [Repositories -> Nat]
      /\ activeByGroup' \in [Groups -> Nat]
  BY <1>0 DEF Counting, TakeSlot, Bump
<1>2. active' = Cardinality(Holding')
  BY <1>0, HoldingAdded DEF Counting, CountersExact, TakeSlot
<1>3. ASSUME NEW r \in Repositories
      PROVE  activeByRepository'[r] = Cardinality(InRepository(Holding', r))
  <2>1. activeByRepository'[r] = activeByRepository[r] + IF r = RepositoryOf[j] THEN 1 ELSE 0
    BY <1>0 DEF Counting, TakeSlot, Bump
  <2>2. activeByRepository[r] = Cardinality(InRepository(Holding, r))
    BY DEF Counting, CountersExact, InRepository
  <2>3. Cardinality(InRepository(Holding \cup {j}, r)) =
          Cardinality(InRepository(Holding, r)) + IF r = RepositoryOf[j] THEN 1 ELSE 0
    BY <1>0, HoldingAdded
  <2> QED
    BY <2>1, <2>2, <2>3
<1>4. ASSUME NEW g \in Groups
      PROVE  activeByGroup'[g] = Cardinality(InGroup(Holding', g))
  <2>1. activeByGroup'[g] = activeByGroup[g] + IF g = GroupOf[j] THEN 1 ELSE 0
    BY DEF Counting, TakeSlot, Bump
  <2>2. activeByGroup[g] = Cardinality(InGroup(Holding, g))
    BY DEF Counting, CountersExact, InGroup
  <2>3. Cardinality(InGroup(Holding \cup {j}, g)) =
          Cardinality(InGroup(Holding, g)) + IF g = GroupOf[j] THEN 1 ELSE 0
    BY <1>0, HoldingAdded
  <2> QED
    BY <2>1, <2>2, <2>3
<1> QED
  BY <1>1, <1>2, <1>3, <1>4 DEF Counting, CountersExact, InRepository, InGroup

LEMMA HoldingRemoved ==
  ASSUME NEW H \in SUBSET Jobs, NEW j \in H
  PROVE  /\ Cardinality(H \ {j}) + 1 = Cardinality(H)
         /\ \A r \in Repositories :
              Cardinality(InRepository(H \ {j}, r)) + (IF r = RepositoryOf[j] THEN 1 ELSE 0) =
                Cardinality(InRepository(H, r))
         /\ \A g \in Groups :
              Cardinality(InGroup(H \ {j}, g)) + (IF g = GroupOf[j] THEN 1 ELSE 0) =
                Cardinality(InGroup(H, g))
<1> DEFINE K == H \ {j}
<1>1. K \cup {j} = H /\ K \in SUBSET Jobs /\ j \in Jobs \ K
  OBVIOUS
<1> HIDE DEF K
<1>2. /\ Cardinality(K \cup {j}) = Cardinality(K) + 1
      /\ \A r \in Repositories :
           Cardinality(InRepository(K \cup {j}, r)) =
             Cardinality(InRepository(K, r)) + IF r = RepositoryOf[j] THEN 1 ELSE 0
      /\ \A g \in Groups :
           Cardinality(InGroup(K \cup {j}, g)) =
             Cardinality(InGroup(K, g)) + IF g = GroupOf[j] THEN 1 ELSE 0
  BY <1>1, HoldingAdded
<1> QED
  BY <1>1, <1>2 DEF K

\* Giving back the slot of a job that holds one keeps the three counters exact, and natural.
LEMMA SlotGivenBack ==
  ASSUME Counting, NEW j \in Holding, Holding' = Holding \ {j}, GiveSlotBack(j)
  PROVE  Counting'
<1>0. /\ Holding \in SUBSET Jobs /\ Holding' \in SUBSET Jobs
      /\ RepositoryOf[j] \in Repositories
  BY JobsAssumption DEF Holding
<1>1. Cardinality(Holding') \in Nat /\ Cardinality(Holding') + 1 = Cardinality(Holding)
  BY <1>0, HoldingRemoved, HoldingFinite
<1>2. active' = Cardinality(Holding')
  BY <1>1 DEF Counting, CountersExact, GiveSlotBack
<1>3. ASSUME NEW r \in Repositories
      PROVE  activeByRepository'[r] = Cardinality(InRepository(Holding', r))
  <2>1. activeByRepository'[r] = activeByRepository[r] - IF r = RepositoryOf[j] THEN 1 ELSE 0
    BY <1>0 DEF Counting, GiveSlotBack, Bump
  <2>2. activeByRepository[r] = Cardinality(InRepository(Holding, r))
    BY DEF Counting, CountersExact, InRepository
  <2>3. Cardinality(InRepository(Holding', r)) \in Nat
    BY <1>0, HoldingFinite DEF InRepository
  <2>4. Cardinality(InRepository(Holding \ {j}, r)) + (IF r = RepositoryOf[j] THEN 1 ELSE 0) =
          Cardinality(InRepository(Holding, r))
    BY <1>0, HoldingRemoved
  <2> QED
    BY <2>1, <2>2, <2>3, <2>4
<1>4. ASSUME NEW g \in Groups
      PROVE  activeByGroup'[g] = Cardinality(InGroup(Holding', g))
  <2>1. activeByGroup'[g] = activeByGroup[g] - IF g = GroupOf[j] THEN 1 ELSE 0
    BY DEF Counting, GiveSlotBack, Bump
  <2>2. activeByGroup[g] = Cardinality(InGroup(Holding, g))
    BY DEF Counting, CountersExact, InGroup
  <2>3. Cardinality(InGroup(Holding', g)) \in Nat
    BY <1>0, HoldingFinite DEF InGroup
  <2>4. Cardinality(InGroup(Holding \ {j}, g)) + (IF g = GroupOf[j] THEN 1 ELSE 0) =
          Cardinality(InGroup(Holding, g))
    BY <1>0, HoldingRemoved
  <2> QED
    BY <2>1, <2>2, <2>3, <2>4
<1>5. /\ active' \in Nat
      /\ activeByRepository' \in [Repositories -> Nat]
      /\ activeByGroup' \in [Groups -> Nat]
  <2>1. DOMAIN activeByRepository' = Repositories /\ DOMAIN activeByGroup' = Groups
    BY DEF Counting, GiveSlotBack, Bump
  <2>2. activeByRepository' = [r \in Repositories |-> activeByRepository'[r]]
    BY <1>0 DEF Counting, GiveSlotBack, Bump
  <2>3. activeByGroup' = [g \in Groups |-> activeByGroup'[g]]
    BY DEF Counting, GiveSlotBack, Bump
  <2>4. \A r \in Repositories : Cardinality(InRepository(Holding', r)) \in Nat
    BY <1>0, HoldingFinite DEF InRepository
  <2>5. \A g \in Groups : Cardinality(InGroup(Holding', g)) \in Nat
    BY <1>0, HoldingFinite DEF InGroup
  <2> QED
    BY <1>1, <1>2, <1>3, <1>4, <2>2, <2>3, <2>4, <2>5
<1> QED
  BY <1>2, <1>3, <1>4, <1>5 DEF Counting, CountersExact, InRepository, InGroup

-----------------------------------------------------------------------------
(* Ceilings *)

\* Every set of jobs in H has a member whose limit admits them all: what "each was admitted under
\* its own limit" leaves true when jobs end in any order.
Fits(H, limit) == \A S \in SUBSET H : S # {} => \E j \in S : Cardinality(S) <= limit[j]

CeilingOf == [j \in Jobs |-> Ceiling(j)]

RepositoryLimit == [j \in Jobs |-> MaxConcurrentPerRepository]

LEMMA FitsAdded ==
  ASSUME NEW H \in SUBSET Jobs, NEW j \in Jobs \ H, NEW limit \in [Jobs -> Nat],
         Fits(H, limit), Cardinality(H) < limit[j]
  PROVE  Fits(H \cup {j}, limit)
<1> SUFFICES ASSUME NEW S \in SUBSET (H \cup {j}), S # {}
             PROVE  \E x \in S : Cardinality(S) <= limit[x]
  BY DEF Fits
<1>1. CASE j \in S
  <2>1. Cardinality(H \cup {j}) = Cardinality(H) + 1
    BY HoldingFinite, FS_AddElement
  <2>2. Cardinality(S) <= Cardinality(H \cup {j})
    BY HoldingFinite, FS_Subset
  <2>3. Cardinality(S) <= limit[j]
    BY <2>1, <2>2, HoldingFinite
  <2> QED
    BY <1>1, <2>3
<1>2. CASE j \notin S
  BY <1>2 DEF Fits
<1> QED
  BY <1>1, <1>2

LEMMA FitsSubset ==
  ASSUME NEW H, NEW limit, Fits(H, limit), NEW K \in SUBSET H
  PROVE  Fits(K, limit)
  BY DEF Fits

CeilingsFit ==
  /\ Fits(Holding, CeilingOf)
  /\ \A r \in Repositories : Fits(InRepository(Holding, r), RepositoryLimit)
  /\ \A g \in Groups : Fits(InGroup(Holding, g), GroupMaxConcurrent)

LEMMA LimitTypes ==
  /\ CeilingOf \in [Jobs -> Nat]
  /\ RepositoryLimit \in [Jobs -> Nat]
  /\ GroupMaxConcurrent \in [Jobs -> Nat]
  BY LimitsAssumption DEF CeilingOf, Ceiling, RepositoryLimit, Positive

\* A job that canStart() admits keeps every ceiling.
LEMMA AdmittedFits ==
  ASSUME CeilingsFit, Counting, NEW j \in Jobs, j \notin Holding, CanStart(j),
         Holding' = Holding \cup {j}
  PROVE  CeilingsFit'
<1>0. Holding \in SUBSET Jobs
  BY DEF Holding
<1>1. Fits(Holding', CeilingOf)
  <2>1. Cardinality(Holding) < CeilingOf[j]
    BY DEF Counting, CountersExact, CanStart, CeilingOf
  <2> QED
    BY <1>0, <2>1, FitsAdded, LimitTypes DEF CeilingsFit
<1>2. ASSUME NEW r \in Repositories
      PROVE  Fits(InRepository(Holding', r), RepositoryLimit)
  <2>1. CASE r = RepositoryOf[j]
    <3>1. Cardinality(InRepository(Holding, r)) < RepositoryLimit[j]
      BY <2>1 DEF Counting, CountersExact, CanStart, InRepository, RepositoryLimit
    <3>2. InRepository(Holding', r) = InRepository(Holding, r) \cup {j}
      BY <2>1 DEF InRepository
    <3>3. InRepository(Holding, r) \in SUBSET Jobs /\ j \in Jobs \ InRepository(Holding, r)
      BY <1>0 DEF InRepository
    <3> QED
      BY <3>1, <3>2, <3>3, FitsAdded, LimitTypes DEF CeilingsFit
  <2>2. CASE r # RepositoryOf[j]
    <3>1. InRepository(Holding', r) = InRepository(Holding, r)
      BY <2>2 DEF InRepository
    <3> QED
      BY <3>1 DEF CeilingsFit
  <2> QED
    BY <2>1, <2>2
<1>3. ASSUME NEW g \in Groups
      PROVE  Fits(InGroup(Holding', g), GroupMaxConcurrent)
  <2>1. CASE g = GroupOf[j]
    <3>1. Cardinality(InGroup(Holding, g)) < GroupMaxConcurrent[j]
      BY <2>1, JobsAssumption DEF Counting, CountersExact, CanStart, InGroup
    <3>2. InGroup(Holding', g) = InGroup(Holding, g) \cup {j}
      BY <2>1 DEF InGroup
    <3>3. InGroup(Holding, g) \in SUBSET Jobs /\ j \in Jobs \ InGroup(Holding, g)
      BY <1>0 DEF InGroup
    <3> QED
      BY <3>1, <3>2, <3>3, FitsAdded, LimitTypes DEF CeilingsFit
  <2>2. CASE g # GroupOf[j]
    <3>1. InGroup(Holding', g) = InGroup(Holding, g)
      BY <2>2 DEF InGroup
    <3> QED
      BY <3>1 DEF CeilingsFit
  <2> QED
    BY <2>1, <2>2
<1> QED
  BY <1>1, <1>2, <1>3 DEF CeilingsFit

LEMMA EndedFits ==
  ASSUME CeilingsFit, Holding' \in SUBSET Holding
  PROVE  CeilingsFit'
<1>1. \A r \in Repositories : InRepository(Holding', r) \in SUBSET InRepository(Holding, r)
  BY DEF InRepository
<1>2. \A g \in Groups : InGroup(Holding', g) \in SUBSET InGroup(Holding, g)
  BY DEF InGroup
<1> QED
  BY <1>1, <1>2, FitsSubset DEF CeilingsFit

LEMMA FitsRespected ==
  ASSUME CeilingsFit
  PROVE  CeilingsRespected
<1>0. Holding \in SUBSET Jobs
  BY DEF Holding
<1>1. Holding # {} => \E j \in Holding : Cardinality(Holding) <= Ceiling(j)
  BY <1>0 DEF CeilingsFit, Fits, CeilingOf
<1>2. ASSUME NEW r \in Repositories
      PROVE  Cardinality(InRepository(Holding, r)) <= MaxConcurrentPerRepository
  <2>1. CASE InRepository(Holding, r) = {}
    BY <2>1, FS_EmptySet, LimitsAssumption DEF Positive
  <2>2. CASE InRepository(Holding, r) # {}
    BY <1>0, <2>2 DEF CeilingsFit, Fits, RepositoryLimit, InRepository
  <2> QED
    BY <2>1, <2>2
<1>3. ASSUME NEW g \in Groups, InGroup(Holding, g) # {}
      PROVE  \E j \in InGroup(Holding, g) :
               Cardinality(InGroup(Holding, g)) <= GroupMaxConcurrent[j]
  BY <1>3 DEF CeilingsFit, Fits
<1> QED
  BY <1>1, <1>2, <1>3 DEF CeilingsRespected, InRepository, InGroup


-----------------------------------------------------------------------------
(* The inductive invariant *)

\* The queue is over its bound only inside drain(), by one job, and then some job in it can start.
BoundedOrDraining ==
  \/ Len(queue) <= MaxQueued
  \/ /\ draining
     /\ Len(queue) = MaxQueued + 1
     /\ \E i \in DOMAIN queue : CanStart(queue[i])

Inv ==
  /\ TypeOK
  /\ CountersExact
  /\ CeilingsFit
  /\ WorkConserving
  /\ BoundedOrDraining
  /\ QueuedOnce

LEMMA InvCounting == Inv => Counting
  BY DEF Inv, TypeOK, Counting

LEMMA CountingParts == Counting => CountersExact
  BY DEF Counting

LEMMA InitInv == Init => Inv
<1> SUFFICES ASSUME Init PROVE Inv
  OBVIOUS
<1>1. Holding = {}
  BY DEF Init, Holding
<1>2. TypeOK
  <2>1. queue \in Seq(Jobs)
    BY DEF Init
  <2>4. active \in Nat /\ draining \in BOOLEAN
    BY DEF Init
  <2>2. status \in [Jobs -> Statuses]
    BY DEF Init, Statuses
  <2>3. activeByRepository \in [Repositories -> Nat] /\ activeByGroup \in [Groups -> Nat]
    BY DEF Init
  <2> QED
    BY <2>1, <2>2, <2>3, <2>4 DEF TypeOK
<1>3. CountersExact
  BY <1>1, FS_EmptySet DEF Init, CountersExact
<1>4. CeilingsFit
  BY <1>1 DEF CeilingsFit, Fits, InRepository, InGroup
<1>5. WorkConserving /\ BoundedOrDraining /\ QueuedOnce
  BY LimitsAssumption DEF Init, WorkConserving, BoundedOrDraining, QueuedOnce, Positive
<1> QED
  BY <1>2, <1>3, <1>4, <1>5 DEF Inv

\* A step that leaves the slots and the jobs that hold them alone.
LEMMA SameSlots ==
  ASSUME Inv, Holding' = Holding, UnchangedSlots
  PROVE  CountersExact' /\ CeilingsFit' /\ \A j \in Jobs : CanStart(j)' <=> CanStart(j)
<1>1. CountersExact'
  BY DEF Inv, CountersExact, UnchangedSlots
<1>2. CeilingsFit'
  BY EndedFits DEF Inv
<1>3. \A j \in Jobs : CanStart(j)' <=> CanStart(j)
  BY DEF CanStart, UnchangedSlots
<1> QED
  BY <1>1, <1>2, <1>3

LEMMA SubmitInv ==
  ASSUME Inv, NEW j \in Jobs, Submit(j)
  PROVE  Inv'
<1>0. TypeOK
  BY DEF Inv
<1>1. Holding' = Holding
  BY <1>0 DEF Submit, Holding, TypeOK
<1>2. CountersExact' /\ CeilingsFit' /\ \A k \in Jobs : CanStart(k)' <=> CanStart(k)
  BY <1>1, SameSlots DEF Submit
<1>3. TypeOK'
  BY <1>0 DEF Submit, TypeOK, Statuses, UnchangedSlots
<1>4. WorkConserving'
  BY DEF Submit, WorkConserving
<1>5. /\ Len(queue') = Len(queue) + 1
      /\ queue'[Len(queue) + 1] = j
      /\ \A i \in 1 .. Len(queue) : queue'[i] = queue[i]
      /\ DOMAIN queue' = 1 .. Len(queue) + 1
  BY <1>0 DEF Submit, TypeOK
<1>6. BoundedOrDraining'
  <2>1. Len(queue) <= MaxQueued
    BY DEF Inv, BoundedOrDraining, Submit
  <2>2. CASE Len(queue) < MaxQueued
    BY <1>0, <1>5, <2>2, LimitsAssumption DEF BoundedOrDraining, TypeOK, Positive
  <2>3. CASE Len(queue) = MaxQueued
    <3>1. CanStart(j)'
      BY <1>2, <2>3, LimitsAssumption DEF Submit, Positive
    <3>2. \E i \in DOMAIN queue' : CanStart(queue[i])'
      BY <1>0, <1>5, <3>1 DEF TypeOK
    <3> QED
      BY <1>5, <2>3, <3>2 DEF BoundedOrDraining, Submit
  <2> QED
    BY <1>0, <2>1, <2>2, <2>3, LimitsAssumption DEF TypeOK, Positive
<1>7. QueuedOnce'
  <2>1. \A i \in 1 .. Len(queue) : queue[i] # j
    BY <1>0 DEF Inv, QueuedOnce, Submit, TypeOK
  <2>2. ASSUME NEW k \in Jobs
        PROVE  status'[k] = "queued" <=> \E i \in DOMAIN queue' : queue'[i] = k
    <3>1. CASE k = j
      BY <1>0, <1>5, <3>1 DEF Submit, TypeOK
    <3>2. CASE k # j
      BY <1>0, <1>5, <3>2 DEF Inv, QueuedOnce, Submit, TypeOK
    <3> QED
      BY <3>1, <3>2
  <2>3. \A i, k \in DOMAIN queue' : queue'[i] = queue'[k] => i = k
    BY <1>0, <1>5, <2>1 DEF Inv, QueuedOnce, TypeOK
  <2> QED
    BY <2>2, <2>3 DEF QueuedOnce
<1> QED
  BY <1>2, <1>3, <1>4, <1>6, <1>7 DEF Inv

\* Refuse and Settle move a job that is not in the queue and take or give no slot.
LEMMA MoveInv ==
  ASSUME Inv, NEW j \in Jobs, Refuse(j) \/ Settle(j)
  PROVE  Inv'
<1>0. TypeOK
  BY DEF Inv
<1>1. Holding' = Holding
  BY <1>0 DEF Refuse, Settle, Holding, TypeOK
<1>2. /\ CountersExact' /\ CeilingsFit' /\ (\A k \in Jobs : CanStart(k)' <=> CanStart(k))
      /\ UnchangedSlots /\ UNCHANGED <<queue, draining>>
  BY <1>1, SameSlots DEF Refuse, Settle
<1>3. TypeOK'
  BY <1>0, <1>2 DEF Refuse, Settle, TypeOK, Statuses, UnchangedSlots
<1>4. WorkConserving' /\ BoundedOrDraining'
  BY <1>0, <1>2 DEF Inv, WorkConserving, BoundedOrDraining, TypeOK
<1>5. QueuedOnce'
  BY <1>0, <1>2 DEF Inv, QueuedOnce, Refuse, Settle, TypeOK
<1> QED
  BY <1>2, <1>3, <1>4, <1>5 DEF Inv

LEMMA FinishInv ==
  ASSUME Inv, NEW j \in Jobs, Finish(j)
  PROVE  Inv'
<1>0. TypeOK
  BY DEF Inv
<1>1. j \in Holding /\ Holding' = Holding \ {j}
  BY <1>0 DEF Finish, Holding, TypeOK
<1>2. Counting'
  BY <1>1, InvCounting, SlotGivenBack DEF Finish
<1>3. CeilingsFit'
  BY <1>1, EndedFits DEF Inv
<1>4. TypeOK' /\ CountersExact'
  BY <1>0, <1>2 DEF Finish, TypeOK, Counting, Statuses
<1>5. WorkConserving'
  BY DEF Finish, WorkConserving
<1>6. BoundedOrDraining'
  BY DEF Inv, BoundedOrDraining, Finish
<1>7. QueuedOnce'
  BY <1>0 DEF Inv, QueuedOnce, Finish, TypeOK
<1> QED
  BY <1>3, <1>4, <1>5, <1>6, <1>7 DEF Inv

LEMMA DrainDoneInv ==
  ASSUME Inv, DrainDone
  PROVE  Inv'
<1>0. TypeOK
  BY DEF Inv
<1>1. Holding' = Holding
  BY DEF DrainDone, Holding
<1>2. CountersExact' /\ CeilingsFit' /\ \A k \in Jobs : CanStart(k)' <=> CanStart(k)
  BY <1>1, SameSlots DEF DrainDone
<1>3. TypeOK' /\ QueuedOnce'
  BY <1>0 DEF Inv, DrainDone, TypeOK, UnchangedSlots, QueuedOnce
<1>4. WorkConserving' /\ BoundedOrDraining'
  BY <1>0, <1>2 DEF Inv, DrainDone, WorkConserving, BoundedOrDraining, TypeOK
<1> QED
  BY <1>2, <1>3, <1>4 DEF Inv

LEMMA DrainStartInv ==
  ASSUME Inv, DrainStart
  PROVE  Inv'
<1>0. TypeOK
  BY DEF Inv
<1>1. PICK i \in DOMAIN queue :
        /\ FirstStartable(i)
        /\ queue' = RemoveAt(queue, i)
        /\ status' = [status EXCEPT ![queue[i]] = "running"]
        /\ TakeSlot(queue[i])
  BY DEF DrainStart
<1> DEFINE j == queue[i]
<1>2. j \in Jobs /\ status[j] = "queued" /\ i \in 1 .. Len(queue)
  BY <1>0, <1>1 DEF TypeOK, Inv, QueuedOnce
<1>3. CanStart(j)
  BY <1>1 DEF FirstStartable
<1>4. j \notin Holding /\ Holding' = Holding \cup {j}
  BY <1>0, <1>1, <1>2 DEF Holding, TypeOK
<1>5. Counting' /\ CeilingsFit'
  BY <1>1, <1>2, <1>3, <1>4, InvCounting, SlotTaken, AdmittedFits DEF Inv
<1>6. /\ queue' \in Seq(Jobs)
      /\ Len(queue') = Len(queue) - 1
      /\ \A k \in 1 .. Len(queue) - 1 : queue'[k] = IF k < i THEN queue[k] ELSE queue[k + 1]
  BY <1>0, <1>1, <1>2, RemoveAtProperties DEF TypeOK
<1>7. TypeOK' /\ CountersExact'
  BY <1>0, <1>1, <1>2, <1>5, <1>6 DEF DrainStart, TypeOK, Counting, Statuses
<1>8. WorkConserving'
  BY DEF DrainStart, WorkConserving
<1>9. BoundedOrDraining'
  <2>1. Len(queue) \in Nat /\ MaxQueued \in Nat
    BY <1>0, LimitsAssumption DEF TypeOK, Positive
  <2>2. Len(queue) <= MaxQueued + 1
    BY <2>1 DEF Inv, BoundedOrDraining
  <2> QED
    BY <1>6, <2>1, <2>2 DEF BoundedOrDraining
<1>10. QueuedOnce'
  <2>0. /\ Len(queue) \in Nat /\ DOMAIN queue = 1 .. Len(queue)
        /\ DOMAIN queue' = 1 .. Len(queue) - 1
    BY <1>0, <1>6 DEF TypeOK
  <2>1. \A k, m \in 1 .. Len(queue) : queue[k] = queue[m] => k = m
    BY <1>0 DEF Inv, QueuedOnce, TypeOK
  <2>2. \A k, m \in DOMAIN queue' : queue'[k] = queue'[m] => k = m
    BY <1>0, <1>2, <1>6, <2>1 DEF TypeOK
  <2>3. ASSUME NEW x \in Jobs
        PROVE  status'[x] = "queued" <=> \E k \in DOMAIN queue' : queue'[k] = x
    <3>1. CASE x = j
      <4>1. status'[x] = "running"
        BY <1>0, <1>1, <1>2, <3>1 DEF TypeOK
      <4>2. \A k \in DOMAIN queue' : queue'[k] # x
        <5> SUFFICES ASSUME NEW k \in 1 .. Len(queue) - 1 PROVE queue'[k] # x
          BY <1>6, <2>0
        <5>1. PICK m \in 1 .. Len(queue) : queue'[k] = queue[m] /\ m # i
          BY <1>2, <1>6, <2>0
        <5> QED
          BY <1>2, <2>1, <3>1, <5>1
      <4> QED
        BY <4>1, <4>2
    <3>2. CASE x # j
      <4>1. status'[x] = status[x]
        BY <1>0, <1>1, <1>2, <3>2 DEF TypeOK
      <4>2. ASSUME NEW k \in 1 .. Len(queue), queue[k] = x
            PROVE  \E m \in 1 .. Len(queue) - 1 : queue'[m] = x
        <5>1. CASE k < i
          BY <1>0, <1>2, <1>6, <4>2, <5>1 DEF TypeOK
        <5>2. CASE k > i
          <6>1. k - 1 \in 1 .. Len(queue) - 1 /\ queue'[k - 1] = queue[k]
            BY <1>0, <1>2, <1>6, <5>2 DEF TypeOK
          <6> QED
            BY <4>2, <6>1
        <5> QED
          BY <1>2, <3>2, <4>2, <5>1, <5>2
      <4>3. ASSUME NEW k \in 1 .. Len(queue) - 1, queue'[k] = x
            PROVE  \E m \in 1 .. Len(queue) : queue[m] = x
        BY <1>0, <1>6, <4>3 DEF TypeOK
      <4> QED
        BY <2>0, <4>1, <4>2, <4>3 DEF Inv, QueuedOnce
    <3> QED
      BY <3>1, <3>2
  <2> QED
    BY <2>2, <2>3 DEF QueuedOnce
<1> QED
  BY <1>5, <1>7, <1>8, <1>9, <1>10 DEF Inv

LEMMA NextInv == Inv /\ [Next]_vars => Inv'
<1> SUFFICES ASSUME Inv, [Next]_vars PROVE Inv'
  OBVIOUS
<1>1. CASE UNCHANGED vars
  <2>1. Holding' = Holding /\ UnchangedSlots /\ UNCHANGED <<queue, status, draining>>
    BY <1>1 DEF vars, Holding, UnchangedSlots
  <2>2. CountersExact' /\ CeilingsFit' /\ \A k \in Jobs : CanStart(k)' <=> CanStart(k)
    BY <2>1, SameSlots
  <2> QED
    BY <2>1, <2>2
    DEF Inv, TypeOK, UnchangedSlots, WorkConserving, BoundedOrDraining, QueuedOnce
<1> QED
  BY <1>1, SubmitInv, MoveInv, FinishInv, DrainDoneInv, DrainStartInv DEF Next

LEMMA SpecInv == Spec => []Inv
  BY InitInv, NextInv, PTL DEF Spec


-----------------------------------------------------------------------------
(* Theorems *)

\* Every variable of the scheduler keeps its type: no counter ever goes below zero.
THEOREM TypeCorrect == Spec => []TypeOK
<1>1. Inv => TypeOK
  BY DEF Inv
<1> QED
  BY <1>1, SpecInv, PTL

\* The three counters count exactly the jobs that hold a slot.
THEOREM CountersAreExact == Spec => []CountersExact
<1>1. Inv => CountersExact
  BY DEF Inv
<1> QED
  BY <1>1, SpecInv, PTL

\* No ceiling is exceeded, although each job brings its own.
THEOREM CeilingsAreRespected == Spec => []CeilingsRespected
<1>1. Inv => CeilingsRespected
  BY FitsRespected DEF Inv
<1> QED
  BY <1>1, SpecInv, PTL

\* No slot stays free while a queued job fits.
THEOREM SlotsAreUsed == Spec => []WorkConserving
<1>1. Inv => WorkConserving
  BY DEF Inv
<1> QED
  BY <1>1, SpecInv, PTL

\* What keeps a job waiting: the jobs that hold a slot, in its whole, its repository or its group.
Blocked(j) ==
  \/ Cardinality(Holding) >= Ceiling(j)
  \/ Cardinality(InRepository(Holding, RepositoryOf[j])) >= MaxConcurrentPerRepository
  \/ GroupOf[j] # NoGroup /\ Cardinality(InGroup(Holding, GroupOf[j])) >= GroupMaxConcurrent[j]

WaitersAreBlocked ==
  ~draining => /\ \A i \in DOMAIN queue : Blocked(queue[i])
               /\ queue # <<>> => Holding # {}

\* A job waits for jobs that run, never for a count that nobody will give back: outside drain() each
\* queued job is blocked by the holders of slots themselves, so the `finally` that drains the queue
\* again (control-plane.ts:337-341) is still to come.
THEOREM NobodyWaitsForNobody == Spec => []WaitersAreBlocked
<1>1. ASSUME Inv, ~draining, NEW i \in DOMAIN queue
      PROVE  Blocked(queue[i]) /\ Holding # {}
  <2> DEFINE j == queue[i]
  <2>1. j \in Jobs
    BY <1>1 DEF Inv, TypeOK
  <2>2. CountersExact /\ ~CanStart(j)
    BY <1>1 DEF Inv, WorkConserving
  <2>3. /\ Ceiling(j) \in Positive /\ GroupMaxConcurrent[j] \in Positive
        /\ RepositoryOf[j] \in Repositories /\ (GroupOf[j] # NoGroup => GroupOf[j] \in Groups)
    BY <2>1, JobsAssumption, LimitsAssumption DEF Ceiling, Positive
  <2>4. /\ active = Cardinality(Holding)
        /\ activeByRepository[RepositoryOf[j]] = Cardinality(InRepository(Holding, RepositoryOf[j]))
        /\ GroupOf[j] # NoGroup => activeByGroup[GroupOf[j]] = Cardinality(InGroup(Holding, GroupOf[j]))
    BY <2>2, <2>3 DEF CountersExact, InRepository, InGroup
  <2>5. /\ active \in Nat /\ activeByRepository[RepositoryOf[j]] \in Nat
        /\ GroupOf[j] # NoGroup => activeByGroup[GroupOf[j]] \in Nat
    BY <1>1, <2>3 DEF Inv, TypeOK
  <2>6. Blocked(j)
    BY <2>2, <2>3, <2>4, <2>5, LimitsAssumption DEF CanStart, Blocked, Positive
  <2>7. Holding # {}
    <3>1. ASSUME Holding = {} PROVE FALSE
      <4>1. InRepository(Holding, RepositoryOf[j]) = {} /\ InGroup(Holding, GroupOf[j]) = {}
        BY <3>1 DEF InRepository, InGroup
      <4>2. /\ Cardinality(Holding) = 0
            /\ Cardinality(InRepository(Holding, RepositoryOf[j])) = 0
            /\ Cardinality(InGroup(Holding, GroupOf[j])) = 0
        BY <3>1, <4>1, FS_EmptySet
      <4> QED
        BY <2>3, <2>6, <4>2, LimitsAssumption DEF Blocked, Positive
    <3> QED
      BY <3>1
  <2> QED
    BY <2>6, <2>7
<1>2. Inv => WaitersAreBlocked
  <2> SUFFICES ASSUME Inv, ~draining PROVE WaitersAreBlocked
    BY DEF WaitersAreBlocked
  <2>1. queue # <<>> => 1 \in DOMAIN queue
    BY DEF Inv, TypeOK
  <2> QED
    BY <1>1, <2>1 DEF WaitersAreBlocked
<1> QED
  BY <1>2, SpecInv, PTL

\* The queue keeps its bound, and a job waits in it exactly once.
THEOREM QueueIsSound == Spec => []QueueSound
<1>1. Inv => QueueBounded
  <2> SUFFICES ASSUME Inv PROVE QueueBounded
    OBVIOUS
  <2>1. Len(queue) \in Nat /\ MaxQueued \in Nat
    BY LimitsAssumption DEF Inv, TypeOK, Positive
  <2> QED
    BY <2>1 DEF Inv, BoundedOrDraining, QueueBounded
<1>2. Inv => QueueSound
  BY <1>1 DEF Inv, QueueSound
<1> QED
  BY <1>2, SpecInv, PTL

\* Capacity for j is capacity for whoever needs no more than j.
LEMMA CapacityCarriesOver ==
  ASSUME TypeOK, NEW j \in Jobs, NEW k \in Jobs, NeedsNoMore(k, j), CanStart(j)
  PROVE  CanStart(k)
<1>1. active \in Nat /\ Ceiling(j) \in Nat /\ Ceiling(k) \in Nat
  BY LimitsAssumption DEF TypeOK, Ceiling, Positive
<1>2. active < Ceiling(k)
  BY <1>1 DEF NeedsNoMore, CanStart
<1>3. ASSUME GroupOf[k] # NoGroup
      PROVE  activeByGroup[GroupOf[k]] < GroupMaxConcurrent[k]
  <2>1. GroupOf[k] = GroupOf[j] /\ GroupMaxConcurrent[k] >= GroupMaxConcurrent[j]
    BY <1>3 DEF NeedsNoMore
  <2>2. activeByGroup[GroupOf[k]] < GroupMaxConcurrent[j]
    BY <1>3, <2>1 DEF CanStart
  <2>3. GroupOf[k] \in Groups
    BY <1>3, JobsAssumption
  <2>4. /\ activeByGroup[GroupOf[k]] \in Nat
        /\ GroupMaxConcurrent[j] \in Nat /\ GroupMaxConcurrent[k] \in Nat
    BY <2>3, LimitsAssumption DEF TypeOK, Positive
  <2> QED
    BY <2>1, <2>2, <2>4
<1> QED
  BY <1>2, <1>3 DEF NeedsNoMore, CanStart

\* The steps that start nothing and leave the queue as it is.
LEMMA FairIdle ==
  ASSUME UNCHANGED queue, \A j \in Jobs : status'[j] = "running" => status[j] = "running"
  PROVE  FairStep
  BY DEF FairStep, Starts, Ahead

LEMMA FairSubmit ==
  ASSUME Inv, NEW x \in Jobs, Submit(x)
  PROVE  FairStep
<1>0. TypeOK
  BY DEF Inv
<1>1. ASSUME NEW j \in Jobs PROVE ~Starts(j)
  BY <1>0 DEF Submit, Starts, TypeOK
<1>2. ASSUME NEW j \in Jobs, NEW k \in Jobs, Waits(k), Ahead(j, k)'
      PROVE  Ahead(j, k)
  <2>1. k # x
    BY <1>2 DEF Waits, Submit
  <2>2. /\ Len(queue) \in Nat /\ DOMAIN queue = 1 .. Len(queue)
        /\ DOMAIN queue' = 1 .. Len(queue) + 1
        /\ queue'[Len(queue) + 1] = x
        /\ \A i \in 1 .. Len(queue) : queue'[i] = queue[i]
    BY <1>0 DEF Submit, TypeOK
  <2>3. PICK m, n \in DOMAIN queue' : m < n /\ queue'[m] = j /\ queue'[n] = k
    BY <1>2 DEF Ahead
  <2>4. n \in 1 .. Len(queue) /\ m \in 1 .. Len(queue)
    BY <2>1, <2>2, <2>3
  <2> QED
    BY <2>2, <2>3, <2>4 DEF Ahead
<1> QED
  BY <1>1, <1>2 DEF FairStep

LEMMA FairDrainStart ==
  ASSUME Inv, DrainStart
  PROVE  FairStep
<1>0. TypeOK
  BY DEF Inv
<1>1. PICK i \in DOMAIN queue :
        /\ FirstStartable(i)
        /\ queue' = RemoveAt(queue, i)
        /\ status' = [status EXCEPT ![queue[i]] = "running"]
  BY DEF DrainStart
<1>2. Len(queue) \in Nat /\ DOMAIN queue = 1 .. Len(queue) /\ queue[i] \in Jobs
  BY <1>0, <1>1 DEF TypeOK
<1>3. /\ queue' \in Seq(Jobs)
      /\ Len(queue') = Len(queue) - 1
      /\ \A k \in 1 .. Len(queue) - 1 : queue'[k] = IF k < i THEN queue[k] ELSE queue[k + 1]
  BY <1>0, <1>1, <1>2, RemoveAtProperties DEF TypeOK
<1>4. ASSUME NEW j \in Jobs, NEW k \in Jobs, Starts(j), Ahead(k, j), NeedsNoMore(k, j)
      PROVE  FALSE
  <2>1. j = queue[i]
    BY <1>0, <1>1, <1>4 DEF Starts, TypeOK
  <2>2. PICK m, n \in DOMAIN queue : m < n /\ queue[m] = k /\ queue[n] = j
    BY <1>4 DEF Ahead
  <2>3. n = i
    BY <1>2, <2>1, <2>2 DEF Inv, QueuedOnce
  <2>4. ~CanStart(k)
    BY <1>1, <1>2, <2>2, <2>3 DEF FirstStartable
  <2>5. CanStart(j)
    BY <1>1, <2>1 DEF FirstStartable
  <2> QED
    BY <1>0, <1>4, <2>4, <2>5, CapacityCarriesOver
<1>5. ASSUME NEW j \in Jobs, NEW k \in Jobs, Ahead(j, k)'
      PROVE  Ahead(j, k)
  <2>1. PICK m, n \in 1 .. Len(queue) - 1 : m < n /\ queue'[m] = j /\ queue'[n] = k
    BY <1>2, <1>3, <1>5 DEF Ahead
  <2> DEFINE old(p) == IF p < i THEN p ELSE p + 1
  <2>2. /\ old(m) \in 1 .. Len(queue) /\ old(n) \in 1 .. Len(queue)
        /\ old(m) < old(n)
    BY <1>2, <2>1
  <2>3. queue[old(m)] = j /\ queue[old(n)] = k
    BY <1>3, <2>1
  <2> HIDE DEF old
  <2> QED
    BY <1>2, <2>2, <2>3 DEF Ahead
<1> QED
  BY <1>4, <1>5 DEF FairStep

\* Nobody gets in front of a waiting job, and nobody it needs no more capacity than starts before
\* it from behind.
THEOREM NobodyOvertakesUnfairly == Spec => NoUnfairOvertaking
<1>1. ASSUME Inv, [Next]_vars PROVE [FairStep]_vars
  <2> SUFFICES ASSUME Next PROVE FairStep
    BY <1>1
  <2>1. ASSUME NEW j \in Jobs, Refuse(j) \/ Settle(j) \/ Finish(j) PROVE FairStep
    <3>1. TypeOK
      BY <1>1 DEF Inv
    <3>2. UNCHANGED queue /\ \A k \in Jobs : status'[k] = "running" => status[k] = "running"
      BY <2>1, <3>1 DEF Refuse, Settle, Finish, TypeOK
    <3> QED
      BY <3>2, FairIdle
  <2>2. CASE DrainDone
    BY <2>2, FairIdle DEF DrainDone
  <2> QED
    BY <1>1, <2>1, <2>2, FairSubmit, FairDrainStart DEF Next
<1> QED
  BY <1>1, SpecInv, PTL DEF Spec, NoUnfairOvertaking

=============================================================================
