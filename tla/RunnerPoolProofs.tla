--------------------------- MODULE RunnerPoolProofs ---------------------------
(***************************************************************************)
(* Proofs about RunnerPool, for any finite set of acquires, any quotas and *)
(* any number of restarts: reservations are exact, the sandboxes at the    *)
(* provider stay within the quotas, none escapes the pool, and every       *)
(* tracked lease has a timer or a stop in flight whose failure arms one.   *)
(*                                                                         *)
(* The argument ties the maps of the pool to each other and to how far     *)
(* each acquire() is (Tied): a stop in flight is one provider call for a   *)
(* tracked lease, whoever waits for it waits for that call, and an         *)
(* acquire() waits exactly while it is late.                               *)
(***************************************************************************)
EXTENDS RunnerPool, FiniteSetTheorems, TLAPS

-----------------------------------------------------------------------------
(* Calls by repository *)

InRepository(H, r) == {c \in H : RepositoryOf[c] = r}

LEMMA CallsFinite ==
  ASSUME NEW H \in SUBSET Calls
  PROVE  IsFiniteSet(H) /\ Cardinality(H) \in Nat
  BY PoolAssumption, FS_Subset, FS_CardinalityType

LEMMA CallAdded ==
  ASSUME NEW H \in SUBSET Calls, NEW c \in Calls \ H
  PROVE  /\ Cardinality(H \cup {c}) = Cardinality(H) + 1
         /\ \A r \in Repositories :
              Cardinality(InRepository(H \cup {c}, r)) =
                Cardinality(InRepository(H, r)) + IF r = RepositoryOf[c] THEN 1 ELSE 0
<1>1. Cardinality(H \cup {c}) = Cardinality(H) + 1
  BY CallsFinite, FS_AddElement
<1>2. ASSUME NEW r \in Repositories
      PROVE  Cardinality(InRepository(H \cup {c}, r)) =
               Cardinality(InRepository(H, r)) + IF r = RepositoryOf[c] THEN 1 ELSE 0
  <2>1. IsFiniteSet(InRepository(H, r)) /\ Cardinality(InRepository(H, r)) \in Nat
    BY CallsFinite DEF InRepository
  <2>2. InRepository(H \cup {c}, r) =
          IF r = RepositoryOf[c] THEN InRepository(H, r) \cup {c} ELSE InRepository(H, r)
    BY DEF InRepository
  <2>3. c \notin InRepository(H, r)
    BY DEF InRepository
  <2>4. Cardinality(InRepository(H, r) \cup {c}) = Cardinality(InRepository(H, r)) + 1
    BY <2>1, <2>3, FS_AddElement
  <2> QED
    BY <2>1, <2>2, <2>4
<1> QED
  BY <1>1, <1>2

LEMMA CallRemoved ==
  ASSUME NEW H \in SUBSET Calls, NEW c \in H
  PROVE  /\ Cardinality(H \ {c}) + 1 = Cardinality(H)
         /\ \A r \in Repositories :
              Cardinality(InRepository(H \ {c}, r)) + (IF r = RepositoryOf[c] THEN 1 ELSE 0) =
                Cardinality(InRepository(H, r))
<1> DEFINE K == H \ {c}
<1>1. K \cup {c} = H /\ K \in SUBSET Calls /\ c \in Calls \ K
  OBVIOUS
<1> HIDE DEF K
<1>2. /\ Cardinality(K \cup {c}) = Cardinality(K) + 1
      /\ \A r \in Repositories :
           Cardinality(InRepository(K \cup {c}, r)) =
             Cardinality(InRepository(K, r)) + IF r = RepositoryOf[c] THEN 1 ELSE 0
  BY <1>1, CallAdded
<1> QED
  BY <1>1, <1>2 DEF K

-----------------------------------------------------------------------------
(* The inductive invariant *)

\* Where the lease of an acquire() may be tracked.
TrackedStages == {"leased", "late", "failed"}

\* The maps of the pool agree with each other and with the progress of every acquire().
Tied ==
  /\ \A c \in leases : call[c] \in TrackedStages
  /\ stopping \subseteq leases
  /\ \A c \in Calls :
       /\ c \in stopping => stopCalls[c] = 1
       /\ c \notin stopping => stopCalls[c] = 0 /\ waiting[c] = {}
       /\ "acquire" \in waiting[c] <=> call[c] = "late"

\* The acquires that have, or may come to have, a sandbox running.
Occupied == leases \cup {c \in Calls : call[c] = "provisioning"}

WithinQuotas(H) ==
  /\ Cardinality(H) <= MaxActive
  /\ \A r \in Repositories : Cardinality(InRepository(H, r)) <= MaxActivePerRepository

Inv ==
  /\ TypeOK
  /\ ReservationsExact
  /\ Tied
  /\ NoSandboxEscapes
  /\ CleanupPending
  /\ NoStrayTimer
  /\ WithinQuotas(Occupied)

LEMMA InitInv == Init => Inv
<1> SUFFICES ASSUME Init PROVE Inv
  OBVIOUS
<1>1. TypeOK
  <2>1. leases \in SUBSET Calls /\ stopping \in SUBSET Calls /\ expired \in SUBSET leases
    BY DEF Init
  <2>3. disposed \in BOOLEAN
    BY DEF Init
  <2>4. pendingTotal \in Nat /\ restarts \in 0 .. MaxRestarts
    BY PoolAssumption DEF Init
  <2>2. /\ call \in [Calls -> Stages]
        /\ pendingByRepository \in [Repositories -> Nat]
        /\ timers \in [Calls -> {"none", "expiry", "retry"}]
        /\ waiting \in [Calls -> SUBSET Retriers]
        /\ sandbox \in [Calls -> {"none", "up", "gone"}]
        /\ stopCalls \in [Calls -> Nat]
    BY DEF Init, Stages
  <2> QED
    BY <2>1, <2>2, <2>3, <2>4 DEF TypeOK
<1>a. Tied /\ NoSandboxEscapes /\ CleanupPending /\ NoStrayTimer
  BY DEF Init, Tied, NoSandboxEscapes, Running, CleanupPending, NoStrayTimer
<1>2. Reserved = {} /\ Occupied = {}
  BY DEF Init, Reserved, Occupied
<1>3. Cardinality({}) = 0 /\ \A r : InRepository({}, r) = {}
  BY FS_EmptySet DEF InRepository
<1>4. ReservationsExact
  BY <1>2, <1>3 DEF Init, ReservationsExact
<1>5. WithinQuotas(Occupied)
  BY <1>2, <1>3, PoolAssumption DEF WithinQuotas
<1> QED
  BY <1>1, <1>a, <1>4, <1>5 DEF Inv


-----------------------------------------------------------------------------
(* Reservations *)

Counted ==
  /\ pendingTotal \in Nat
  /\ pendingByRepository \in [Repositories -> Nat]
  /\ ReservationsExact

LEMMA ReservationTaken ==
  ASSUME Counted, NEW c \in Calls, c \notin Reserved, Reserved' = Reserved \cup {c},
         Reserve(RepositoryOf[c])
  PROVE  Counted'
<1>0. Reserved \in SUBSET Calls /\ RepositoryOf[c] \in Repositories
  BY PoolAssumption DEF Reserved
<1>1. pendingTotal' \in Nat /\ pendingByRepository' \in [Repositories -> Nat]
  BY <1>0 DEF Counted, Reserve
<1>2. pendingTotal' = Cardinality(Reserved')
  BY <1>0, CallAdded DEF Counted, ReservationsExact, Reserve
<1>3. ASSUME NEW r \in Repositories
      PROVE  pendingByRepository'[r] = Cardinality(InRepository(Reserved', r))
  <2>1. pendingByRepository'[r] = pendingByRepository[r] + IF r = RepositoryOf[c] THEN 1 ELSE 0
    BY <1>0 DEF Counted, Reserve
  <2>2. pendingByRepository[r] = Cardinality(InRepository(Reserved, r))
    BY DEF Counted, ReservationsExact, InRepository
  <2>3. Cardinality(InRepository(Reserved \cup {c}, r)) =
          Cardinality(InRepository(Reserved, r)) + IF r = RepositoryOf[c] THEN 1 ELSE 0
    BY <1>0, CallAdded
  <2> QED
    BY <2>1, <2>2, <2>3
<1> QED
  BY <1>1, <1>2, <1>3 DEF Counted, ReservationsExact, InRepository

LEMMA ReservationReturned ==
  ASSUME Counted, NEW c \in Reserved, Reserved' = Reserved \ {c}, Unreserve(RepositoryOf[c])
  PROVE  Counted'
<1>0. /\ Reserved \in SUBSET Calls /\ Reserved' \in SUBSET Calls
      /\ RepositoryOf[c] \in Repositories
  BY PoolAssumption DEF Reserved
<1>1. Cardinality(Reserved') \in Nat /\ Cardinality(Reserved') + 1 = Cardinality(Reserved)
  BY <1>0, CallRemoved, CallsFinite
<1>2. pendingTotal' = Cardinality(Reserved')
  BY <1>1 DEF Counted, ReservationsExact, Unreserve
<1>3. ASSUME NEW r \in Repositories
      PROVE  /\ pendingByRepository'[r] = Cardinality(InRepository(Reserved', r))
             /\ pendingByRepository'[r] \in Nat
  <2>1. pendingByRepository'[r] = pendingByRepository[r] - IF r = RepositoryOf[c] THEN 1 ELSE 0
    BY <1>0 DEF Counted, Unreserve
  <2>2. pendingByRepository[r] = Cardinality(InRepository(Reserved, r))
    BY DEF Counted, ReservationsExact, InRepository
  <2>3. Cardinality(InRepository(Reserved', r)) \in Nat
    BY <1>0, CallsFinite DEF InRepository
  <2>4. Cardinality(InRepository(Reserved \ {c}, r)) + (IF r = RepositoryOf[c] THEN 1 ELSE 0) =
          Cardinality(InRepository(Reserved, r))
    BY <1>0, CallRemoved
  <2> QED
    BY <2>1, <2>2, <2>3, <2>4
<1>4. pendingByRepository' = [r \in Repositories |-> pendingByRepository'[r]]
  BY DEF Counted, Unreserve
<1> QED
  BY <1>1, <1>2, <1>3, <1>4 DEF Counted, ReservationsExact, InRepository

LEMMA ReservationsKept ==
  ASSUME Counted, Reserved' = Reserved, UNCHANGED counters
  PROVE  Counted'
  BY DEF Counted, ReservationsExact, counters

\* What follows the answer to a stop returns the reservation of the acquire() that awaited it.
LEMMA AnswerCounted ==
  ASSUME TypeOK, Tied, Counted, NEW l \in Calls, StopAnswered(l)
  PROVE  Counted'
<1>1. CASE "acquire" \in waiting[l]
  <2>1. call[l] = "late" /\ call' = [call EXCEPT ![l] = "failed"] /\ Unreserve(RepositoryOf[l])
    BY <1>1 DEF Tied, StopAnswered
  <2>2. l \in Reserved /\ Reserved' = Reserved \ {l}
    BY <2>1 DEF TypeOK, Reserved
  <2> QED
    BY <2>1, <2>2, ReservationReturned
<1>2. CASE "acquire" \notin waiting[l]
  BY <1>2, ReservationsKept DEF StopAnswered, Reserved
<1> QED
  BY <1>1, <1>2

LEMMA CountedStep == Inv /\ [Next]_vars => Counted'
<1> SUFFICES ASSUME Inv, [Next]_vars PROVE Counted'
  OBVIOUS
<1>0. TypeOK /\ Tied /\ Counted
  BY DEF Inv, TypeOK, Counted
<1> USE <1>0
<1>1. ASSUME NEW c \in Calls, Refuse(c) PROVE Counted'
  <2>1. Reserved' = Reserved
    BY <1>1 DEF Refuse, TypeOK, Reserved
  <2> QED
    BY <1>1, <2>1, ReservationsKept DEF Refuse
<1>2. ASSUME NEW c \in Calls, Acquire(c) PROVE Counted'
  <2>1. c \notin Reserved /\ Reserved' = Reserved \cup {c}
    BY <1>2 DEF Acquire, TypeOK, Reserved
  <2> QED
    BY <1>2, <2>1, ReservationTaken DEF Acquire
<1>3. ASSUME NEW c \in Calls, ProvisionFails(c) \/ HandOut(c) PROVE Counted'
  <2>1. c \in Reserved /\ Reserved' = Reserved \ {c}
    BY <1>3 DEF ProvisionFails, HandOut, TypeOK, Reserved
  <2> QED
    BY <1>3, <2>1, ReservationReturned DEF ProvisionFails, HandOut
<1>4. ASSUME NEW c \in Calls, StopLateArrival(c) PROVE Counted'
  <2>1. Reserved' = Reserved
    BY <1>4 DEF StopLateArrival, TypeOK, Reserved
  <2> QED
    BY <1>4, <2>1, ReservationsKept DEF StopLateArrival
<1>5. ASSUME NEW c \in Calls, StopSucceeds(c) \/ StopFails(c) PROVE Counted'
  BY <1>5, AnswerCounted DEF StopSucceeds, StopFails
<1>6. ASSUME NEW c \in Calls,
             SandboxComesUp(c) \/ Release(c) \/ DeadlinePasses(c) \/ TimerFires(c)
      PROVE  Counted'
  BY <1>6, ReservationsKept
     DEF SandboxComesUp, Release, DeadlinePasses, TimerFires, Reserved
<1>7. CASE SweepExpired \/ Dispose
  BY <1>7, ReservationsKept DEF SweepExpired, Dispose, Reserved
<1>8. CASE Restart
  <2>1. Reserved' = {} /\ pendingTotal' = 0 /\ pendingByRepository' = [r \in Repositories |-> 0]
    BY <1>8 DEF Restart, TypeOK, Reserved
  <2>2. Cardinality({}) = 0 /\ \A r : InRepository({}, r) = {}
    BY FS_EmptySet DEF InRepository
  <2> QED
    BY <2>1, <2>2 DEF Counted, ReservationsExact, InRepository
<1>9. CASE UNCHANGED vars
  BY <1>9, ReservationsKept DEF vars, counters, Reserved
<1> QED
  BY <1>1, <1>2, <1>3, <1>4, <1>5, <1>6, <1>7, <1>8, <1>9 DEF Next

-----------------------------------------------------------------------------
(* Types *)

LEMMA ReleasesTyped ==
  ASSUME TypeOK, NEW L \in SUBSET leases, NEW who \in SUBSET Retriers, StartReleases(L, who)
  PROVE  /\ stopping' \in SUBSET Calls
         /\ waiting' \in [Calls -> SUBSET Retriers]
         /\ stopCalls' \in [Calls -> Nat]
  BY DEF TypeOK, StartReleases

LEMMA TypeStep == Inv /\ [Next]_vars => TypeOK'
<1> SUFFICES ASSUME Inv, [Next]_vars PROVE TypeOK'
  OBVIOUS
<1>0. TypeOK /\ Tied /\ NoStrayTimer
  BY DEF Inv
<1> USE <1>0
<1>a. pendingTotal' \in Nat /\ pendingByRepository' \in [Repositories -> Nat]
  BY CountedStep DEF Counted
<1>1. ASSUME NEW c \in Calls, Refuse(c) \/ Acquire(c) \/ ProvisionFails(c) PROVE TypeOK'
  BY <1>1, <1>a DEF Refuse, Acquire, ProvisionFails, TypeOK, Stages, stops
<1>2. ASSUME NEW c \in Calls, SandboxComesUp(c) PROVE TypeOK'
  BY <1>2, <1>a DEF SandboxComesUp, TypeOK, stops
<1>3. ASSUME NEW c \in Calls, HandOut(c) PROVE TypeOK'
  BY <1>3, <1>a DEF HandOut, TypeOK, Stages, stops
<1>4. ASSUME NEW c \in Calls, StopLateArrival(c) PROVE TypeOK'
  <2>1. /\ stopping' \in SUBSET Calls
        /\ waiting' \in [Calls -> SUBSET Retriers]
        /\ stopCalls' \in [Calls -> Nat]
    BY <1>4 DEF StopLateArrival, StartReleases, TypeOK, Retriers
  <2> QED
    BY <1>4, <2>1, <1>a DEF StopLateArrival, TypeOK, Stages
<1>5. ASSUME NEW c \in Calls, Release(c) PROVE TypeOK'
  <2>1. {c} \in SUBSET leases /\ {} \in SUBSET Retriers
    BY <1>5 DEF Release
  <2> QED
    BY <1>5, <2>1, <1>a, ReleasesTyped DEF Release, TypeOK
<1>6. ASSUME NEW c \in Calls, DeadlinePasses(c) PROVE TypeOK'
  BY <1>6, <1>a DEF DeadlinePasses, TypeOK, stops
<1>7. ASSUME NEW c \in Calls, TimerFires(c) PROVE TypeOK'
  <2>1. {c} \cap leases \in SUBSET leases /\ {"timer"} \in SUBSET Retriers
    BY DEF Retriers
  <2>2. timers' \in [Calls -> {"none", "expiry", "retry"}]
    BY <1>7 DEF TimerFires, TypeOK
  <2> QED
    BY <1>7, <2>1, <2>2, <1>a, ReleasesTyped DEF TimerFires, TypeOK
<1>8. ASSUME NEW c \in Calls, StopSucceeds(c) PROVE TypeOK'
  <2>1. stopCalls' \in [Calls -> Nat]
    BY <1>8 DEF StopSucceeds, StopAnswered, TypeOK
  <2>2. call' \in [Calls -> Stages]
    BY <1>8 DEF StopSucceeds, StopAnswered, TypeOK, Stages
  <2> QED
    BY <1>8, <2>1, <2>2, <1>a DEF StopSucceeds, StopAnswered, TypeOK
<1>9. ASSUME NEW c \in Calls, StopFails(c) PROVE TypeOK'
  <2>1. stopCalls' \in [Calls -> Nat]
    BY <1>9 DEF StopFails, StopAnswered, TypeOK
  <2>2. call' \in [Calls -> Stages]
    BY <1>9 DEF StopFails, StopAnswered, TypeOK, Stages
  <2>3. /\ timers' \in [Calls -> {"none", "expiry", "retry"}]
        /\ sandbox' \in [Calls -> {"none", "up", "gone"}]
    BY <1>9 DEF StopFails, Rearm, TypeOK
  <2> QED
    BY <1>9, <2>1, <2>2, <2>3, <1>a DEF StopFails, StopAnswered, TypeOK
<1>10. CASE SweepExpired
  <2>1. expired \in SUBSET leases /\ {} \in SUBSET Retriers
    BY DEF TypeOK
  <2> QED
    BY <1>10, <2>1, <1>a, ReleasesTyped DEF SweepExpired, TypeOK
<1>11. CASE Dispose
  <2>1. leases \in SUBSET leases /\ {"dispose"} \in SUBSET Retriers
    BY DEF Retriers
  <2>2. /\ stopping' \in SUBSET Calls
        /\ waiting' \in [Calls -> SUBSET Retriers]
        /\ stopCalls' \in [Calls -> Nat]
    BY <1>11, <2>1, ReleasesTyped DEF Dispose
  <2>3. disposed' \in BOOLEAN
    BY <1>11 DEF Dispose
  <2> QED
    BY <1>11, <2>2, <2>3, <1>a DEF Dispose, TypeOK
<1>12. CASE Restart
  <2>1. /\ call' \in [Calls -> Stages]
        /\ timers' \in [Calls -> {"none", "expiry", "retry"}]
        /\ waiting' \in [Calls -> SUBSET Retriers]
        /\ stopCalls' \in [Calls -> Nat]
    BY <1>12 DEF Restart, TypeOK, Stages
  <2>2. sandbox' \in [Calls -> {"none", "up", "gone"}]
    BY <1>12 DEF Restart, TypeOK
  <2>3. restarts' \in 0 .. MaxRestarts
    BY <1>12, PoolAssumption DEF Restart, TypeOK
  <2>4. leases' \in SUBSET Calls /\ stopping' \in SUBSET Calls /\ expired' \in SUBSET leases'
    BY <1>12 DEF Restart
  <2>5. disposed' \in BOOLEAN
    BY <1>12 DEF Restart
  <2> QED
    BY <2>1, <2>2, <2>3, <2>4, <2>5, <1>a DEF TypeOK
<1>13. CASE UNCHANGED vars
  BY <1>13 DEF vars, TypeOK
<1> QED
  BY <1>1, <1>2, <1>3, <1>4, <1>5, <1>6, <1>7, <1>8, <1>9, <1>10, <1>11, <1>12, <1>13 DEF Next

-----------------------------------------------------------------------------
(* Stops and timers *)

\* Starting releases of tracked leases ties no knot the wrong way.
LEMMA ReleasesTied ==
  ASSUME TypeOK, Tied, NEW L \in SUBSET leases, NEW who \in SUBSET {"timer", "dispose"},
         StartReleases(L, who), UNCHANGED <<call, leases>>
  PROVE  Tied'
<1>1. stopping' \subseteq leases' /\ \A c \in leases' : call'[c] \in TrackedStages
  BY DEF Tied, StartReleases
<1>2. ASSUME NEW c \in Calls
      PROVE  /\ c \in stopping' => stopCalls'[c] = 1
             /\ c \notin stopping' => stopCalls'[c] = 0 /\ waiting'[c] = {}
             /\ "acquire" \in waiting'[c] <=> call'[c] = "late"
  BY DEF Tied, StartReleases
<1> QED
  BY <1>1, <1>2 DEF Tied

LEMMA AnswerTied ==
  ASSUME TypeOK, Tied, NEW l \in Calls, StopAnswered(l), leases' \in {leases, leases \ {l}}
  PROVE  Tied'
<1>1. /\ l \in stopping /\ stopCalls'[l] = 0
      /\ \A c \in Calls : c # l => stopCalls'[c] = stopCalls[c]
  <2>1. l \in stopping /\ stopCalls[l] = 1
    BY DEF Tied, StopAnswered
  <2> QED
    BY <2>1 DEF StopAnswered, TypeOK
<1>2. \A c \in Calls : c # l => call'[c] = call[c] /\ waiting'[c] = waiting[c]
  BY DEF StopAnswered, TypeOK
<1>3. /\ call'[l] = (IF "acquire" \in waiting[l] THEN "failed" ELSE call[l])
      /\ waiting'[l] = {}
      /\ stopping' = stopping \ {l}
  BY DEF StopAnswered, TypeOK
<1>4. \A c \in leases' : call'[c] \in TrackedStages
  BY <1>2, <1>3 DEF Tied, TrackedStages, TypeOK
<1>5. stopping' \subseteq leases'
  BY <1>3 DEF Tied
<1>6. ASSUME NEW c \in Calls
      PROVE  /\ c \in stopping' => stopCalls'[c] = 1
             /\ c \notin stopping' => stopCalls'[c] = 0 /\ waiting'[c] = {}
             /\ "acquire" \in waiting'[c] <=> call'[c] = "late"
  <2>1. CASE c = l
    BY <2>1, <1>1, <1>3 DEF Tied, TypeOK
  <2>2. CASE c # l
    BY <2>2, <1>1, <1>2, <1>3 DEF Tied, TypeOK
  <2> QED
    BY <2>1, <2>2
<1> QED
  BY <1>4, <1>5, <1>6 DEF Tied

LEMMA TiedStep == Inv /\ [Next]_vars => Tied'
<1> SUFFICES ASSUME Inv, [Next]_vars PROVE Tied'
  OBVIOUS
<1>0. TypeOK /\ Tied /\ NoStrayTimer
  BY DEF Inv
<1> USE <1>0
<1>1. ASSUME NEW c \in Calls, Refuse(c) \/ Acquire(c) \/ ProvisionFails(c) PROVE Tied'
  <2>1. /\ call[c] \notin TrackedStages
        /\ \E to \in {"refused", "provisioning", "failed"} : call' = [call EXCEPT ![c] = to]
        /\ UNCHANGED <<leases, stops>>
    BY <1>1 DEF Refuse, Acquire, ProvisionFails, TrackedStages
  <2> QED
    BY <2>1 DEF Tied, TypeOK, stops, TrackedStages
<1>2. ASSUME NEW c \in Calls, SandboxComesUp(c) \/ DeadlinePasses(c) PROVE Tied'
  BY <1>2 DEF SandboxComesUp, DeadlinePasses, Tied, stops
<1>3. ASSUME NEW c \in Calls, HandOut(c) PROVE Tied'
  BY <1>3 DEF HandOut, Tied, TypeOK, stops, TrackedStages
<1>4. ASSUME NEW c \in Calls, StopLateArrival(c) PROVE Tied'
  <2>1. c \notin stopping /\ stopCalls[c] = 0 /\ waiting[c] = {}
    BY <1>4 DEF StopLateArrival, Tied, TrackedStages
  <2>2. /\ call'[c] = "late" /\ waiting'[c] = {"acquire"} /\ stopCalls'[c] = 1
        /\ leases' = leases \cup {c} /\ stopping' = stopping \cup {c}
    BY <1>4, <2>1 DEF StopLateArrival, StartReleases, TypeOK
  <2>3. \A d \in Calls : d # c => /\ call'[d] = call[d] /\ waiting'[d] = waiting[d]
                                  /\ stopCalls'[d] = stopCalls[d]
    BY <1>4 DEF StopLateArrival, StartReleases, TypeOK
  <2> QED
    BY <2>2, <2>3 DEF Tied, TypeOK, TrackedStages
<1>5. ASSUME NEW c \in Calls, Release(c) PROVE Tied'
  <2>1. {c} \in SUBSET leases /\ {} \in SUBSET {"timer", "dispose"}
    BY <1>5 DEF Release
  <2> QED
    BY <1>5, <2>1, ReleasesTied DEF Release
<1>6. ASSUME NEW c \in Calls, TimerFires(c) PROVE Tied'
  <2>1. {c} \cap leases \in SUBSET leases /\ {"timer"} \in SUBSET {"timer", "dispose"}
    OBVIOUS
  <2> QED
    BY <1>6, <2>1, ReleasesTied DEF TimerFires
<1>7. CASE SweepExpired
  <2>1. expired \in SUBSET leases /\ {} \in SUBSET {"timer", "dispose"}
    BY DEF TypeOK
  <2> QED
    BY <1>7, <2>1, ReleasesTied DEF SweepExpired
<1>8. CASE Dispose
  <2>1. leases \in SUBSET leases /\ {"dispose"} \in SUBSET {"timer", "dispose"}
    OBVIOUS
  <2> QED
    BY <1>8, <2>1, ReleasesTied DEF Dispose
<1>9. ASSUME NEW c \in Calls, StopSucceeds(c) \/ StopFails(c) PROVE Tied'
  BY <1>9, AnswerTied DEF StopSucceeds, StopFails
<1>10. CASE Restart
  BY <1>10 DEF Restart, Tied, TypeOK
<1>11. CASE UNCHANGED vars
  BY <1>11 DEF vars, Tied
<1> QED
  BY <1>1, <1>2, <1>3, <1>4, <1>5, <1>6, <1>7, <1>8, <1>9, <1>10, <1>11 DEF Next

LEMMA TimerStep == Inv /\ [Next]_vars => NoStrayTimer'
<1> SUFFICES ASSUME Inv, [Next]_vars PROVE NoStrayTimer'
  OBVIOUS
<1>0. TypeOK /\ Tied /\ NoStrayTimer
  BY DEF Inv
<1> USE <1>0
<1>1. ASSUME NEW c \in Calls,
             Refuse(c) \/ Acquire(c) \/ SandboxComesUp(c) \/ ProvisionFails(c) \/ Release(c)
               \/ DeadlinePasses(c)
      PROVE  NoStrayTimer'
  BY <1>1 DEF Refuse, Acquire, SandboxComesUp, ProvisionFails, Release, DeadlinePasses, NoStrayTimer
<1>2. ASSUME NEW c \in Calls, HandOut(c) \/ StopLateArrival(c) PROVE NoStrayTimer'
  BY <1>2 DEF HandOut, StopLateArrival, NoStrayTimer, TypeOK
<1>3. ASSUME NEW c \in Calls, TimerFires(c) PROVE NoStrayTimer'
  BY <1>3 DEF TimerFires, NoStrayTimer, TypeOK
<1>4. ASSUME NEW c \in Calls, StopSucceeds(c) PROVE NoStrayTimer'
  BY <1>4 DEF StopSucceeds, NoStrayTimer, TypeOK
<1>5. ASSUME NEW c \in Calls, StopFails(c) PROVE NoStrayTimer'
  <2>1. c \in leases
    BY <1>5 DEF StopFails, StopAnswered, Tied
  <2> QED
    BY <1>5, <2>1 DEF StopFails, Rearm, NoStrayTimer, TypeOK
<1>6. CASE SweepExpired \/ Dispose \/ Restart
  BY <1>6 DEF SweepExpired, Dispose, Restart, NoStrayTimer
<1>7. CASE UNCHANGED vars
  BY <1>7 DEF vars, NoStrayTimer
<1> QED
  BY <1>1, <1>2, <1>3, <1>4, <1>5, <1>6, <1>7 DEF Next

\* A release started for whatever reason leaves at least as many ways to the end of a lease.
LEMMA ReleasesPending ==
  ASSUME TypeOK, CleanupPending, NEW L, NEW who, StartReleases(L, who), leases' = leases,
         UNCHANGED timers
  PROVE  CleanupPending'
  BY DEF TypeOK, CleanupPending, StartReleases

LEMMA CleanupStep == Inv /\ [Next]_vars => CleanupPending'
<1> SUFFICES ASSUME Inv, [Next]_vars PROVE CleanupPending'
  OBVIOUS
<1>0. TypeOK /\ Tied /\ NoStrayTimer /\ CleanupPending
  BY DEF Inv
<1> USE <1>0
<1>1. ASSUME NEW c \in Calls,
             Refuse(c) \/ Acquire(c) \/ SandboxComesUp(c) \/ ProvisionFails(c) \/ DeadlinePasses(c)
      PROVE  CleanupPending'
  BY <1>1
     DEF Refuse, Acquire, SandboxComesUp, ProvisionFails, DeadlinePasses, CleanupPending, stops
<1>2. ASSUME NEW c \in Calls, HandOut(c) PROVE CleanupPending'
  BY <1>2 DEF HandOut, CleanupPending, TypeOK, stops
<1>3. ASSUME NEW c \in Calls, StopLateArrival(c) PROVE CleanupPending'
  <2>1. c \notin stopping
    BY <1>3 DEF StopLateArrival, Tied, TrackedStages
  <2>2. stopCalls'[c] > 0 /\ waiting'[c] # {}
    BY <1>3, <2>1 DEF StopLateArrival, StartReleases, TypeOK
  <2>3. ASSUME NEW l \in leases, l # c
        PROVE  timers'[l] # "none" \/ (stopCalls'[l] > 0 /\ waiting'[l] # {})
    BY <1>3, <2>3 DEF StopLateArrival, StartReleases, CleanupPending, TypeOK
  <2> QED
    BY <1>3, <2>2, <2>3 DEF StopLateArrival, CleanupPending
<1>4. ASSUME NEW c \in Calls, Release(c) PROVE CleanupPending'
  BY <1>4, ReleasesPending DEF Release
<1>5. ASSUME NEW c \in Calls, TimerFires(c) PROVE CleanupPending'
  <2>1. c \in leases
    BY <1>5 DEF TimerFires, NoStrayTimer
  <2>2. stopCalls'[c] > 0 /\ waiting'[c] # {}
    BY <1>5, <2>1 DEF TimerFires, StartReleases, Tied, TypeOK
  <2>3. ASSUME NEW l \in leases', l # c
        PROVE  timers'[l] # "none" \/ (stopCalls'[l] > 0 /\ waiting'[l] # {})
    BY <1>5, <2>3 DEF TimerFires, StartReleases, CleanupPending, TypeOK
  <2> QED
    BY <2>2, <2>3 DEF CleanupPending
<1>6. CASE SweepExpired
  BY <1>6, ReleasesPending DEF SweepExpired
<1>7. CASE Dispose
  <2>1. ASSUME NEW l \in leases PROVE stopCalls'[l] > 0 /\ waiting'[l] # {}
    BY <1>7 DEF Dispose, StartReleases, Tied, TypeOK
  <2> QED
    BY <1>7, <2>1 DEF Dispose, CleanupPending
<1>8. ASSUME NEW c \in Calls, StopSucceeds(c) PROVE CleanupPending'
  BY <1>8 DEF StopSucceeds, StopAnswered, CleanupPending, TypeOK
<1>9. ASSUME NEW c \in Calls, StopFails(c) PROVE CleanupPending'
  <2>1. c \in leases /\ timers'[c] # "none"
    BY <1>9 DEF StopFails, StopAnswered, Rearm, Tied, CleanupPending, TypeOK
  <2>2. ASSUME NEW l \in leases, l # c
        PROVE  timers'[l] # "none" \/ (stopCalls'[l] > 0 /\ waiting'[l] # {})
    BY <1>9, <2>2 DEF StopFails, StopAnswered, Rearm, CleanupPending, TypeOK
  <2> QED
    BY <1>9, <2>1, <2>2 DEF StopFails, CleanupPending
<1>10. CASE Restart
  BY <1>10 DEF Restart, CleanupPending
<1>11. CASE UNCHANGED vars
  BY <1>11 DEF vars, CleanupPending
<1> QED
  BY <1>1, <1>2, <1>3, <1>4, <1>5, <1>6, <1>7, <1>8, <1>9, <1>10, <1>11 DEF Next

-----------------------------------------------------------------------------
(* Sandboxes *)

LEMMA EscapeStep == Inv /\ [Next]_vars => NoSandboxEscapes'
<1> SUFFICES ASSUME Inv, [Next]_vars PROVE NoSandboxEscapes'
  OBVIOUS
<1>0. TypeOK /\ Tied /\ NoSandboxEscapes
  BY DEF Inv
<1> USE <1>0
<1>1. ASSUME NEW c \in Calls, Refuse(c) \/ Acquire(c) \/ ProvisionFails(c) PROVE NoSandboxEscapes'
  BY <1>1 DEF Refuse, Acquire, ProvisionFails, NoSandboxEscapes, Running, TypeOK
<1>2. ASSUME NEW c \in Calls, SandboxComesUp(c) PROVE NoSandboxEscapes'
  BY <1>2 DEF SandboxComesUp, NoSandboxEscapes, Running, TypeOK
<1>3. ASSUME NEW c \in Calls, HandOut(c) \/ StopLateArrival(c) PROVE NoSandboxEscapes'
  BY <1>3 DEF HandOut, StopLateArrival, NoSandboxEscapes, Running, TypeOK
<1>4. ASSUME NEW c \in Calls, Release(c) \/ DeadlinePasses(c) \/ TimerFires(c)
      PROVE  NoSandboxEscapes'
  BY <1>4 DEF Release, DeadlinePasses, TimerFires, NoSandboxEscapes, Running
<1>5. ASSUME NEW c \in Calls, StopSucceeds(c) \/ StopFails(c) PROVE NoSandboxEscapes'
  <2>1. /\ c \in leases
        /\ call' = call \/ call' = [call EXCEPT ![c] = "failed"]
    BY <1>5 DEF StopSucceeds, StopFails, StopAnswered, Tied
  <2>2. /\ leases' = leases \/ (leases' = leases \ {c} /\ sandbox'[c] = "gone")
        /\ \A d \in Calls : d # c => sandbox'[d] = sandbox[d]
    BY <1>5 DEF StopSucceeds, StopFails, TypeOK
  <2> QED
    BY <2>1, <2>2 DEF NoSandboxEscapes, Running, TypeOK
<1>6. CASE SweepExpired \/ Dispose
  BY <1>6 DEF SweepExpired, Dispose, NoSandboxEscapes, Running
<1>7. CASE Restart
  \* Whatever runs now is lost: it was tracked, or its acquire() was waiting for it.
  <2>1. ASSUME NEW c \in Calls, sandbox'[c] = "up" PROVE call'[c] = "lost"
    BY <1>7, <2>1 DEF Restart, NoSandboxEscapes, Running, TypeOK
  <2> QED
    BY <2>1 DEF NoSandboxEscapes, Running
<1>8. CASE UNCHANGED vars
  BY <1>8 DEF vars, NoSandboxEscapes, Running
<1> QED
  BY <1>1, <1>2, <1>3, <1>4, <1>5, <1>6, <1>7, <1>8 DEF Next

LEMMA QuotasOfSubset ==
  ASSUME NEW H \in SUBSET Calls, WithinQuotas(H), NEW K \in SUBSET H
  PROVE  WithinQuotas(K)
<1>1. Cardinality(K) <= Cardinality(H) /\ Cardinality(K) \in Nat /\ Cardinality(H) \in Nat
  BY CallsFinite, FS_Subset
<1>2. ASSUME NEW r \in Repositories
      PROVE  Cardinality(InRepository(K, r)) <= MaxActivePerRepository
  <2>1. InRepository(K, r) \in SUBSET InRepository(H, r) /\ InRepository(H, r) \in SUBSET Calls
    BY DEF InRepository
  <2>2. InRepository(K, r) \in SUBSET Calls
    BY <2>1
  <2>3. Cardinality(InRepository(K, r)) <= Cardinality(InRepository(H, r))
    BY <2>1, CallsFinite, FS_Subset
  <2>4. Cardinality(InRepository(K, r)) \in Nat /\ Cardinality(InRepository(H, r)) \in Nat
    BY <2>1, <2>2, CallsFinite
  <2> QED
    BY <2>3, <2>4, PoolAssumption DEF WithinQuotas
<1> QED
  BY <1>1, <1>2, PoolAssumption DEF WithinQuotas

LEMMA UnionBounded ==
  ASSUME NEW H \in SUBSET Calls, NEW K \in SUBSET Calls
  PROVE  Cardinality(H \cup K) <= Cardinality(H) + Cardinality(K)
<1>1. IsFiniteSet(H) /\ IsFiniteSet(K) /\ IsFiniteSet(H \cap K)
  BY CallsFinite
<1>2. Cardinality(H \cup K) = Cardinality(H) + Cardinality(K) - Cardinality(H \cap K)
  BY <1>1, FS_Union
<1>3. Cardinality(H \cap K) \in Nat /\ Cardinality(H) \in Nat /\ Cardinality(K) \in Nat
  BY <1>1, FS_CardinalityType
<1> QED
  BY <1>2, <1>3

\* One more acquire fits where acquire() finds capacity: leases and reservations count it all.
LEMMA CapacityMeansQuotas ==
  ASSUME Inv, NEW c \in Calls, c \notin Occupied, HasCapacity(RepositoryOf[c])
  PROVE  WithinQuotas(Occupied \cup {c})
<1>0. /\ TypeOK /\ ReservationsExact /\ WithinQuotas(Occupied)
      /\ leases \in SUBSET Calls /\ Reserved \in SUBSET Calls /\ Occupied \in SUBSET Calls
      /\ RepositoryOf[c] \in Repositories
  BY PoolAssumption DEF Inv, TypeOK, Reserved, Occupied
<1>1. Occupied \in SUBSET (leases \cup Reserved)
  BY DEF Occupied, Reserved
<1>2. Cardinality(Occupied) < MaxActive
  <2>1. Cardinality(Occupied) <= Cardinality(leases \cup Reserved)
    BY <1>0, <1>1, CallsFinite, FS_Subset
  <2>2. Cardinality(leases \cup Reserved) <= Cardinality(leases) + Cardinality(Reserved)
    BY <1>0, UnionBounded
  <2>3. /\ Cardinality(Occupied) \in Nat /\ Cardinality(leases) \in Nat
        /\ Cardinality(Reserved) \in Nat /\ Cardinality(leases \cup Reserved) \in Nat
    BY <1>0, CallsFinite
  <2> QED
    BY <1>0, <2>1, <2>2, <2>3, PoolAssumption DEF HasCapacity, ReservationsExact
<1>3. Cardinality(InRepository(Occupied, RepositoryOf[c])) < MaxActivePerRepository
  <2> DEFINE r == RepositoryOf[c]
             L == InRepository(leases, r)
             R == InRepository(Reserved, r)
  <2>1. /\ L \in SUBSET Calls /\ R \in SUBSET Calls
        /\ InRepository(Occupied, r) \in SUBSET (L \cup R)
    BY <1>0, <1>1 DEF InRepository
  <2>2. Cardinality(InRepository(Occupied, r)) <= Cardinality(L \cup R)
    BY <2>1, CallsFinite, FS_Subset
  <2>3. Cardinality(L \cup R) <= Cardinality(L) + Cardinality(R)
    BY <2>1, UnionBounded
  <2>4. /\ Cardinality(InRepository(Occupied, r)) \in Nat /\ Cardinality(L) \in Nat
        /\ Cardinality(R) \in Nat /\ Cardinality(L \cup R) \in Nat
    BY <1>0, <2>1, CallsFinite DEF InRepository
  <2>5. Cardinality(LeasesOf(r)) + pendingByRepository[r] < MaxActivePerRepository
    BY DEF HasCapacity
  <2>6. LeasesOf(r) = L /\ pendingByRepository[r] = Cardinality(R)
    BY <1>0 DEF LeasesOf, InRepository, ReservationsExact
  <2> HIDE DEF r, L, R
  <2>7. Cardinality(InRepository(Occupied, r)) < MaxActivePerRepository
    BY <2>2, <2>3, <2>4, <2>5, <2>6, PoolAssumption
  <2> QED
    BY <2>7 DEF r
<1>4. /\ Cardinality(Occupied \cup {c}) = Cardinality(Occupied) + 1
      /\ \A r \in Repositories :
           Cardinality(InRepository(Occupied \cup {c}, r)) =
             Cardinality(InRepository(Occupied, r)) + IF r = RepositoryOf[c] THEN 1 ELSE 0
  BY <1>0, CallAdded
<1>5. /\ Cardinality(Occupied) \in Nat
      /\ \A r \in Repositories : Cardinality(InRepository(Occupied, r)) \in Nat
  BY <1>0, CallsFinite DEF InRepository
<1> QED
  BY <1>0, <1>2, <1>3, <1>4, <1>5, PoolAssumption DEF WithinQuotas

LEMMA QuotaStep == Inv /\ [Next]_vars => WithinQuotas(Occupied)'
<1> SUFFICES ASSUME Inv, [Next]_vars PROVE WithinQuotas(Occupied')
  BY DEF WithinQuotas, InRepository
<1>0. TypeOK /\ Tied /\ WithinQuotas(Occupied) /\ Occupied \in SUBSET Calls
  BY DEF Inv, TypeOK, Occupied
<1> USE <1>0
<1>1. ASSUME NEW c \in Calls, Acquire(c) PROVE WithinQuotas(Occupied')
  <2>1. c \notin Occupied /\ Occupied' = Occupied \cup {c}
    BY <1>1 DEF Acquire, Occupied, Tied, TrackedStages, TypeOK
  <2> QED
    BY <1>1, <2>1, CapacityMeansQuotas DEF Acquire
<1>2. ASSUME NEW c \in Calls,
             Refuse(c) \/ SandboxComesUp(c) \/ ProvisionFails(c) \/ HandOut(c) \/ StopLateArrival(c)
               \/ Release(c) \/ DeadlinePasses(c) \/ TimerFires(c)
      PROVE  Occupied' \subseteq Occupied
  BY <1>2
     DEF Refuse, SandboxComesUp, ProvisionFails, HandOut, StopLateArrival, Release,
         DeadlinePasses, TimerFires, Occupied, TypeOK
<1>3. ASSUME NEW c \in Calls, StopSucceeds(c) \/ StopFails(c) PROVE Occupied' \subseteq Occupied
  BY <1>3 DEF StopSucceeds, StopFails, StopAnswered, Occupied, TypeOK
<1>4. CASE SweepExpired \/ Dispose \/ Restart
  <2>1. Occupied' \subseteq Occupied
    BY <1>4 DEF SweepExpired, Dispose, Restart, Occupied, TypeOK
  <2> QED
    BY <2>1, QuotasOfSubset
<1>5. CASE UNCHANGED vars
  BY <1>5 DEF vars, Occupied
<1> QED
  BY <1>1, <1>2, <1>3, <1>4, <1>5, QuotasOfSubset DEF Next

-----------------------------------------------------------------------------
(* The theorems *)

LEMMA NextInv == Inv /\ [Next]_vars => Inv'
  BY CountedStep, TypeStep, TiedStep, EscapeStep, CleanupStep, TimerStep, QuotaStep
     DEF Inv, Counted

\* Inv is an inductive invariant of the pool.
THEOREM Invariance == Spec => []Inv
  BY InitInv, NextInv, PTL DEF Spec

\* The variables of the pool keep their types; a reservation is never given back twice.
THEOREM TypeCorrect == Spec => []TypeOK
<1>1. Inv => TypeOK
  BY DEF Inv
<1> QED
  BY <1>1, Invariance, PTL

\* Reservations count exactly the acquires inside their try block.
THEOREM ReservationsAreExact == Spec => []ReservationsExact
<1>1. Inv => ReservationsExact
  BY DEF Inv
<1> QED
  BY <1>1, Invariance, PTL

\* The sandboxes that run at the provider stay within both quotas, those included that are still
\* being provisioned or that the pool fails to stop.
THEOREM QuotasAreKept == Spec => []QuotasHold
<1>1. ASSUME Inv PROVE QuotasHold
  <2>1. Occupied \in SUBSET Calls /\ WithinQuotas(Occupied) /\ Running \in SUBSET Occupied
    BY <1>1 DEF Inv, TypeOK, NoSandboxEscapes, Occupied, Running
  <2>2. WithinQuotas(Running)
    BY <2>1, QuotasOfSubset
  <2> QED
    BY <2>2 DEF QuotasHold, WithinQuotas, InRepository
<1> QED
  BY <1>1, Invariance, PTL

\* No sandbox runs without a lease or an acquire that awaits it, also when the pool is disposed while
\* it is being provisioned.
THEOREM NoneEscapes == Spec => []NoSandboxEscapes
<1>1. Inv => NoSandboxEscapes
  BY DEF Inv
<1> QED
  BY <1>1, Invariance, PTL

\* Every tracked lease has a timer, or a stop in flight with somebody to arm one if it fails; timers
\* are armed for tracked leases alone, and however many releases meet, one stop is in flight at most.
THEOREM CleanupIsExact == Spec => []CleanupExact
<1>1. Inv => CleanupExact
  BY DEF Inv, Tied, TypeOK, OneStopInFlight, CleanupExact
<1> QED
  BY <1>1, Invariance, PTL

\* A disposed pool hands out no lease, not even for an acquire that was waiting.
THEOREM NothingAfterDisposal == Spec => DisposedHandsOutNothing
<1>1. ASSUME TypeOK, [Next]_vars, disposed, disposed', NEW c \in Calls, call'[c] = "leased"
      PROVE  call[c] = "leased"
  <2> USE <1>1 DEF TypeOK
  <2>1. ASSUME NEW d \in Calls,
               Refuse(d) \/ Acquire(d) \/ ProvisionFails(d) \/ HandOut(d) \/ StopLateArrival(d)
        PROVE  call[c] = "leased"
    BY <2>1 DEF Refuse, Acquire, ProvisionFails, HandOut, StopLateArrival
  <2>2. ASSUME NEW d \in Calls, StopSucceeds(d) \/ StopFails(d) PROVE call[c] = "leased"
    BY <2>2 DEF StopSucceeds, StopFails, StopAnswered
  <2>3. ASSUME NEW d \in Calls, SandboxComesUp(d) \/ Release(d) \/ DeadlinePasses(d) \/ TimerFires(d)
        PROVE  call[c] = "leased"
    BY <2>3 DEF SandboxComesUp, Release, DeadlinePasses, TimerFires
  <2>4. CASE SweepExpired \/ Dispose \/ Restart
    BY <2>4 DEF SweepExpired, Dispose, Restart
  <2>5. CASE UNCHANGED vars
    BY <2>5 DEF vars
  <2> QED
    BY <2>1, <2>2, <2>3, <2>4, <2>5 DEF Next
<1>2. TypeOK /\ [Next]_vars =>
        [disposed /\ disposed' => \A c \in Calls : call'[c] = "leased" => call[c] = "leased"]_vars
  BY <1>1
<1> QED
  BY <1>2, TypeCorrect, PTL DEF Spec, DisposedHandsOutNothing

=============================================================================
