------------------------------ MODULE RunnerPool ------------------------------
(***************************************************************************)
(* The hosted sandbox pool: packages/core/runner/src/sandbox.ts, class     *)
(* RunnerPool, together with the remote provider it drives.                *)
(*                                                                         *)
(* One member of Calls is one acquire() call and the lease and remote      *)
(* sandbox that may come of it.  Between two awaits JavaScript runs to the *)
(* end of the stretch, so an action is one such stretch: the start of      *)
(* acquire, release, dispose or a timer callback, and what follows the     *)
(* provider's answer.  All the release() calls that share one stop resume  *)
(* in the same turn, before anything else can run.                         *)
(***************************************************************************)
EXTENDS Integers, FiniteSets

CONSTANTS
  Calls,                     \* acquire() calls
  Repositories,
  RepositoryOf,              \* request.repository
  MaxActive,                 \* options.maxActive
  MaxActivePerRepository,    \* options.maxActivePerRepository
  MaxRestarts                \* bound: how often the process dies and starts anew

ASSUME PoolAssumption ==
  /\ IsFiniteSet(Calls)
  /\ RepositoryOf \in [Calls -> Repositories]
  /\ MaxActive \in Nat \ {0}
  /\ MaxActivePerRepository \in Nat \ {0}
  /\ MaxRestarts \in Nat

VARIABLES
  call,                  \* how far each acquire() call is
  pendingTotal,          \* reserved, not yet settled, acquires
  pendingByRepository,
  leases,                \* the leases the pool tracks
  timers,                \* the armed timer of each lease
  stopping,              \* leases with an entry in the map of stops in flight
  waiting,               \* the retriers among those who await the stop of each lease
  disposed,
  sandbox,               \* the remote sandbox of each call
  stopCalls,             \* provider.stop() calls in flight
  expired,               \* tracked leases whose expiresAt has passed
  restarts

counters == <<pendingTotal, pendingByRepository>>
stops == <<stopping, waiting, stopCalls>>
vars == <<call, pendingTotal, pendingByRepository, leases, timers, stopping, waiting, disposed,
          sandbox, stopCalls, expired, restarts>>

\* "late": provisioned after the pool was disposed, awaiting its own stop.
\* "lost": the process died while the call or its lease was alive.
Stages == {"idle", "refused", "provisioning", "leased", "late", "failed", "lost"}

\* Who arms a retry when the stop it awaits fails: a timer callback, dispose(), and an acquire()
\* that came too late.  Callers of release() and sweepExpired() wait too, but do nothing more.
Retriers == {"timer", "dispose", "acquire"}

TypeOK ==
  /\ call \in [Calls -> Stages]
  /\ pendingTotal \in Nat
  /\ pendingByRepository \in [Repositories -> Nat]
  /\ leases \in SUBSET Calls
  /\ timers \in [Calls -> {"none", "expiry", "retry"}]
  /\ stopping \in SUBSET Calls
  /\ waiting \in [Calls -> SUBSET Retriers]
  /\ disposed \in BOOLEAN
  /\ sandbox \in [Calls -> {"none", "up", "gone"}]
  /\ stopCalls \in [Calls -> Nat]
  /\ expired \in SUBSET leases
  /\ restarts \in 0 .. MaxRestarts

-----------------------------------------------------------------------------

LeasesOf(r) == {l \in leases : RepositoryOf[l] = r}

\* Mutant: capacity counts the leases alone, not the acquires still provisioning.
HasCapacityIgnoringPending(r) ==
  /\ Cardinality(leases) < MaxActive
  /\ Cardinality(LeasesOf(r)) < MaxActivePerRepository

HasCapacity(r) ==
  /\ Cardinality(leases) + pendingTotal < MaxActive
  /\ Cardinality(LeasesOf(r)) + pendingByRepository[r] < MaxActivePerRepository

Reserve(r) ==
  /\ pendingTotal' = pendingTotal + 1
  /\ pendingByRepository' = [pendingByRepository EXCEPT ![r] = @ + 1]

\* Mutant: the reservation of the repository is never returned.
UnreserveTotalOnly(r) ==
  /\ pendingTotal' = pendingTotal - 1
  /\ UNCHANGED pendingByRepository

\* The `finally` of acquire().
Unreserve(r) ==
  /\ pendingTotal' = pendingTotal - 1
  /\ pendingByRepository' = [pendingByRepository EXCEPT ![r] = @ - 1]

\* release() of every lease in L up to `await stop`: one provider call per lease, shared with the
\* release already in flight if there is one.
StartReleases(L, who) ==
  /\ stopping' = stopping \cup L
  /\ stopCalls' = [l \in Calls |->
                     IF l \in L \ stopping THEN stopCalls[l] + 1 ELSE stopCalls[l]]
  /\ waiting' = [l \in Calls |-> IF l \in L THEN waiting[l] \cup who ELSE waiting[l]]

-----------------------------------------------------------------------------

Init ==
  /\ call = [c \in Calls |-> "idle"]
  /\ pendingTotal = 0
  /\ pendingByRepository = [r \in Repositories |-> 0]
  /\ leases = {}
  /\ timers = [c \in Calls |-> "none"]
  /\ stopping = {}
  /\ waiting = [c \in Calls |-> {}]
  /\ disposed = FALSE
  /\ sandbox = [c \in Calls |-> "none"]
  /\ stopCalls = [c \in Calls |-> 0]
  /\ expired = {}
  /\ restarts = 0

\* acquire() throws RunnerPoolQuotaError before it reserves anything.  (A request for a duration the
\* pool does not grant is refused the same way, in any state; it changes nothing either.)
Refuse(c) ==
  /\ call[c] = "idle"
  /\ disposed \/ ~HasCapacity(RepositoryOf[c])
  /\ call' = [call EXCEPT ![c] = "refused"]
  /\ UNCHANGED <<counters, leases, timers, stops, disposed, sandbox, expired, restarts>>

\* acquire() reserves capacity and calls provider.provision().
Acquire(c) ==
  /\ call[c] = "idle"
  /\ ~disposed
  /\ HasCapacity(RepositoryOf[c])
  /\ call' = [call EXCEPT ![c] = "provisioning"]
  /\ Reserve(RepositoryOf[c])
  /\ UNCHANGED <<leases, timers, stops, disposed, sandbox, expired, restarts>>

\* The provider creates the sandbox; the pool has not heard of it yet.
SandboxComesUp(c) ==
  /\ call[c] = "provisioning"
  /\ sandbox[c] = "none"
  /\ sandbox' = [sandbox EXCEPT ![c] = "up"]
  /\ UNCHANGED <<call, counters, leases, timers, stops, disposed, expired, restarts>>

\* provision() rejects: nothing was created.
ProvisionFails(c) ==
  /\ call[c] = "provisioning"
  /\ sandbox[c] = "none"
  /\ call' = [call EXCEPT ![c] = "failed"]
  /\ Unreserve(RepositoryOf[c])
  /\ UNCHANGED <<leases, timers, stops, disposed, sandbox, expired, restarts>>

\* Mutant: the lease is handed out without a timer, to be swept by whoever sweeps.
HandOutUntimed(c) ==
  /\ call[c] = "provisioning"
  /\ sandbox[c] = "up"
  /\ ~disposed
  /\ leases' = leases \cup {c}
  /\ call' = [call EXCEPT ![c] = "leased"]
  /\ Unreserve(RepositoryOf[c])
  /\ UNCHANGED <<timers, stops, disposed, sandbox, expired, restarts>>

\* provision() resolves: the lease is tracked, its deadline armed, and the caller gets it.
HandOut(c) ==
  /\ call[c] = "provisioning"
  /\ sandbox[c] = "up"
  /\ ~disposed
  /\ leases' = leases \cup {c}
  /\ timers' = [timers EXCEPT ![c] = "expiry"]
  /\ call' = [call EXCEPT ![c] = "leased"]
  /\ Unreserve(RepositoryOf[c])
  /\ UNCHANGED <<stops, disposed, sandbox, expired, restarts>>

\* Mutant: a runner provisioned for a disposed pool is dropped on the spot, unstopped.
StopLateArrivalDropped(c) ==
  /\ call[c] = "provisioning"
  /\ sandbox[c] = "up"
  /\ disposed
  /\ call' = [call EXCEPT ![c] = "failed"]
  /\ Unreserve(RepositoryOf[c])
  /\ UNCHANGED <<leases, timers, stops, disposed, sandbox, expired, restarts>>

\* Mutant: a runner provisioned for a disposed pool is handed out all the same.
StopLateArrivalHandedOut(c) ==
  /\ call[c] = "provisioning"
  /\ sandbox[c] = "up"
  /\ disposed
  /\ leases' = leases \cup {c}
  /\ timers' = [timers EXCEPT ![c] = "expiry"]
  /\ call' = [call EXCEPT ![c] = "leased"]
  /\ Unreserve(RepositoryOf[c])
  /\ UNCHANGED <<stops, disposed, sandbox, expired, restarts>>

\* Mutant: the reservation is given back before the stop, and once more in the `finally`.
StopLateArrivalUnreserved(c) ==
  /\ call[c] = "provisioning"
  /\ sandbox[c] = "up"
  /\ disposed
  /\ leases' = leases \cup {c}
  /\ call' = [call EXCEPT ![c] = "late"]
  /\ Unreserve(RepositoryOf[c])
  /\ StartReleases({c}, {"acquire"})
  /\ UNCHANGED <<timers, disposed, sandbox, expired, restarts>>

\* provision() resolves after dispose(): the lease is tracked and released at once.
StopLateArrival(c) ==
  /\ call[c] = "provisioning"
  /\ sandbox[c] = "up"
  /\ disposed
  /\ leases' = leases \cup {c}
  /\ call' = [call EXCEPT ![c] = "late"]
  /\ StartReleases({c}, {"acquire"})
  /\ UNCHANGED <<counters, timers, disposed, sandbox, expired, restarts>>

\* The holder of a lease calls release(), perhaps once more after a failure or while a stop of the
\* same lease is in flight.  A lease the pool no longer tracks is left alone.
Release(l) ==
  /\ call[l] = "leased"
  /\ l \in leases
  /\ StartReleases({l}, {})
  /\ UNCHANGED <<call, counters, leases, timers, disposed, sandbox, expired, restarts>>

\* The deadline of the lease passes.
DeadlinePasses(c) ==
  /\ c \in leases \ expired
  /\ expired' = expired \cup {c}
  /\ UNCHANGED <<call, counters, leases, timers, stops, disposed, sandbox, restarts>>

\* A timer callback: the expiry timer at the deadline, a retry timer expiryRetryMs after a failure.
TimerFires(l) ==
  /\ timers[l] # "none"
  /\ timers[l] = "expiry" => l \in expired
  /\ timers' = [timers EXCEPT ![l] = "none"]
  /\ StartReleases({l} \cap leases, {"timer"})
  /\ UNCHANGED <<call, counters, leases, disposed, sandbox, expired, restarts>>

\* sweepExpired() releases every tracked lease that is past its deadline.
SweepExpired ==
  /\ expired # {}
  /\ StartReleases(expired, {})
  /\ UNCHANGED <<call, counters, leases, timers, disposed, sandbox, expired, restarts>>

\* dispose() up to Promise.all: every timer is cleared and every lease released.
Dispose ==
  /\ disposed' = TRUE
  /\ timers' = [c \in Calls |-> "none"]
  /\ StartReleases(leases, {"dispose"})
  /\ UNCHANGED <<call, counters, leases, sandbox, expired, restarts>>

\* What follows the answer to the stop of lease l in every release() that awaited it.  An acquire()
\* among them ends in an error either way, and gives its reservation back.
StopAnswered(l) ==
  /\ stopCalls[l] > 0
  /\ stopCalls' = [stopCalls EXCEPT ![l] = @ - 1]
  /\ stopping' = stopping \ {l}
  /\ waiting' = [waiting EXCEPT ![l] = {}]
  /\ IF "acquire" \in waiting[l]
       THEN /\ call' = [call EXCEPT ![l] = "failed"]
            /\ Unreserve(RepositoryOf[l])
       ELSE UNCHANGED <<call, counters>>
  /\ UNCHANGED <<disposed, restarts>>

StopSucceeds(l) ==
  /\ StopAnswered(l)
  /\ sandbox' = [sandbox EXCEPT ![l] = "gone"]
  /\ leases' = leases \ {l}
  /\ expired' = expired \ {l}
  /\ timers' = [timers EXCEPT ![l] = "none"]

\* Mutant: only the timer callback arms a retry; dispose() reports the failure and leaves it there.
RearmTimerOnly(l) ==
  IF "timer" \in waiting[l] THEN timers' = [timers EXCEPT ![l] = "retry"] ELSE UNCHANGED timers

\* scheduleStopRetry, in the catch of whoever must see the stop through.
Rearm(l) ==
  IF waiting[l] # {}
    THEN timers' = [timers EXCEPT ![l] = "retry"]
    ELSE UNCHANGED timers

\* stop() rejects; the sandbox may have gone nevertheless.  The lease stays tracked.
StopFails(l) ==
  /\ StopAnswered(l)
  /\ \/ UNCHANGED sandbox
     \/ sandbox' = [sandbox EXCEPT ![l] = "gone"]
  /\ Rearm(l)
  /\ UNCHANGED <<leases, expired>>

\* The process dies and another takes its place: every map, timer and promise of the pool is gone;
\* a stop in flight may still take effect, and a sandbox being provisioned may still come up.
Restart ==
  /\ restarts < MaxRestarts
  /\ restarts' = restarts + 1
  /\ call' = [c \in Calls |->
                IF call[c] \in {"provisioning", "leased", "late"} \/ c \in leases
                  THEN "lost" ELSE call[c]]
  /\ pendingTotal' = 0
  /\ pendingByRepository' = [r \in Repositories |-> 0]
  /\ leases' = {}
  /\ timers' = [c \in Calls |-> "none"]
  /\ stopping' = {}
  /\ waiting' = [c \in Calls |-> {}]
  /\ stopCalls' = [c \in Calls |-> 0]
  /\ disposed' = FALSE
  /\ \E ended \in SUBSET stopping, born \in SUBSET {c \in Calls : call[c] = "provisioning"} :
       sandbox' = [c \in Calls |->
                     IF c \in ended THEN "gone" ELSE IF c \in born THEN "up" ELSE sandbox[c]]
  /\ expired' = {}

Next ==
  \/ \E c \in Calls :
       \/ Refuse(c) \/ Acquire(c) \/ SandboxComesUp(c) \/ ProvisionFails(c)
       \/ HandOut(c) \/ StopLateArrival(c) \/ Release(c) \/ DeadlinePasses(c)
       \/ TimerFires(c) \/ StopSucceeds(c) \/ StopFails(c)
  \/ SweepExpired
  \/ Dispose
  \/ Restart

Spec == Init /\ [][Next]_vars

\* The provider answers every call and acquire() goes on; time passes, so deadlines do and timers
\* fire.  A stop that is asked for again and again succeeds in the end: without that no pool could
\* promise anything.  Neither callers nor operators are obliged to release, sweep or dispose.
Fairness ==
  \A c \in Calls :
    /\ WF_vars(SandboxComesUp(c) \/ ProvisionFails(c) \/ HandOut(c) \/ StopLateArrival(c))
    /\ WF_vars(DeadlinePasses(c) \/ TimerFires(c))
    /\ SF_vars(StopSucceeds(c))

FairSpec == Spec /\ Fairness

-----------------------------------------------------------------------------

\* The sandboxes this process had created and that still run.
Running == {c \in Calls : sandbox[c] = "up" /\ call[c] # "lost"}

\* Acquires that hold a reservation.
Reserved == {c \in Calls : call[c] \in {"provisioning", "late"}}

\* The reservation counters are exactly the acquires inside their try block, whatever way each of
\* them leaves it.
ReservationsExact ==
  /\ pendingTotal = Cardinality(Reserved)
  /\ \A r \in Repositories :
       pendingByRepository[r] = Cardinality({c \in Reserved : RepositoryOf[c] = r})

\* Overlapping acquires cannot bypass a quota (sandbox.ts:108): the sandboxes that really run at the
\* provider, known to the pool or not yet, stay within both.
QuotasHold ==
  /\ Cardinality(Running) <= MaxActive
  /\ \A r \in Repositories :
       Cardinality({c \in Running : RepositoryOf[c] = r}) <= MaxActivePerRepository

\* No sandbox escapes the pool: as long as one runs, the pool tracks its lease or an acquire still
\* awaits it (sandbox.ts:131, 165).
NoSandboxEscapes == \A c \in Running : c \in leases \/ call[c] = "provisioning"

\* A tracked lease always has a way to its end that needs nobody's help: a timer is armed, or a stop
\* is in flight whose failure will arm one (sandbox.ts:151, 254-258).
CleanupPending ==
  \A l \in leases : timers[l] # "none" \/ (stopCalls[l] > 0 /\ waiting[l] # {})

\* A timer is armed only for a tracked lease: timers are referenced and keep the process alive, so
\* one left behind would hold up an exit for nothing.
NoStrayTimer == \A c \in Calls : timers[c] # "none" => c \in leases

\* Concurrent release, sweep, expiry and dispose calls share one stop (sandbox.ts:166).
OneStopInFlight == \A c \in Calls : stopCalls[c] <= 1

\* The cleanup of a lease is due exactly as long as it is tracked: there is always something that
\* will end it, nothing that outlives it, and never two stops of one sandbox at once, whichever of
\* release, sweep, expiry and dispose meet (sandbox.ts:151, 166, 254-258).
CleanupExact == CleanupPending /\ NoStrayTimer /\ OneStopInFlight

\* Once the pool is disposed no caller is handed a lease, not even one whose acquire was already
\* waiting for the provider.
DisposedHandsOutNothing ==
  [][disposed /\ disposed' => \A c \in Calls : call'[c] = "leased" => call[c] = "leased"]_vars

\* Every sandbox is stopped in the end, whether or not its holder ever releases it, as long as the
\* process that created it lives.
EverySandboxStops ==
  \A c \in Calls : c \in Running ~> sandbox[c] = "gone" \/ call[c] = "lost"

=============================================================================
