---------------------------- MODULE TaskScheduler ----------------------------
(***************************************************************************)
(* The in-process task scheduler of the control plane:                     *)
(* packages/api/src/control-plane.ts, class TaskScheduler.                 *)
(*                                                                         *)
(* schedule() queues a job and drains the queue; drain() repeatedly starts *)
(* the first job in the queue that fits under three ceilings (every run,   *)
(* the runs of one repository, the runs of one group).  A job carries the  *)
(* limits it was submitted under, so two jobs in one queue may be held to  *)
(* different ceilings.  JavaScript runs each synchronous stretch to its    *)
(* end: while `draining` is TRUE only drain's own loop takes steps, which  *)
(* makes one iteration of that loop one action.                            *)
(***************************************************************************)
EXTENDS Integers, FiniteSets, SequencesExt

CONSTANTS
  Jobs,                        \* submission slots; each may be submitted again
  Repositories,
  Groups,                      \* organizations with a ceiling of their own
  NoGroup,                     \* the group of a job submitted without one
  RepositoryOf,                \* the repository a job runs against
  GroupOf,                     \* limits.group?.key
  JobMaxConcurrent,            \* limits.maxConcurrent, 0 when not given
  GroupMaxConcurrent,          \* limits.group?.maxConcurrent
  MaxConcurrent,               \* options.maxConcurrent
  MaxQueued,                   \* options.maxQueued
  MaxConcurrentPerRepository   \* options.maxConcurrentPerRepository

Positive == Nat \ {0}

ASSUME JobsAssumption ==
  /\ IsFiniteSet(Jobs)
  /\ NoGroup \notin Groups
  /\ RepositoryOf \in [Jobs -> Repositories]
  /\ GroupOf \in [Jobs -> Groups \cup {NoGroup}]

\* The constructor and schedule() refuse a limit that is not a positive integer.
ASSUME LimitsAssumption ==
  /\ JobMaxConcurrent \in [Jobs -> Nat]
  /\ GroupMaxConcurrent \in [Jobs -> Positive]
  /\ MaxConcurrent \in Positive
  /\ MaxQueued \in Positive
  /\ MaxConcurrentPerRepository \in Positive

VARIABLES
  queue,               \* jobs waiting to start, oldest first
  active,              \* slots taken
  activeByRepository,  \* slots taken, by repository
  activeByGroup,       \* slots taken, by group
  status,              \* where each job is
  draining             \* is drain() on the stack?

vars == <<queue, active, activeByRepository, activeByGroup, status, draining>>

\* "settled": run() has answered its caller, the slot is not yet given back.
Statuses == {"idle", "refused", "queued", "running", "settled"}

TypeOK ==
  /\ queue \in Seq(Jobs)
  /\ active \in Nat
  /\ activeByRepository \in [Repositories -> Nat]
  /\ activeByGroup \in [Groups -> Nat]
  /\ status \in [Jobs -> Statuses]
  /\ draining \in BOOLEAN

-----------------------------------------------------------------------------

\* `limits.maxConcurrent ?? options.maxConcurrent`
Ceiling(j) == IF JobMaxConcurrent[j] = 0 THEN MaxConcurrent ELSE JobMaxConcurrent[j]

\* Mutant: the global ceiling is off by one.
CanStartOneTooMany(j) ==
  /\ active <= Ceiling(j)
  /\ activeByRepository[RepositoryOf[j]] < MaxConcurrentPerRepository
  /\ GroupOf[j] # NoGroup => activeByGroup[GroupOf[j]] < GroupMaxConcurrent[j]

\* Mutant: the group's ceiling is off by one the other way, so that a ceiling of one admits nobody.
CanStartOneTooFew(j) ==
  /\ active < Ceiling(j)
  /\ activeByRepository[RepositoryOf[j]] < MaxConcurrentPerRepository
  /\ GroupOf[j] # NoGroup => activeByGroup[GroupOf[j]] + 1 < GroupMaxConcurrent[j]

CanStart(j) ==
  /\ active < Ceiling(j)
  /\ activeByRepository[RepositoryOf[j]] < MaxConcurrentPerRepository
  /\ GroupOf[j] # NoGroup => activeByGroup[GroupOf[j]] < GroupMaxConcurrent[j]

\* increment and decrement: an absent key counts as zero.
Bump(counts, key, by) ==
  IF key \in DOMAIN counts THEN [counts EXCEPT ![key] = @ + by] ELSE counts

TakeSlot(j) ==
  /\ active' = active + 1
  /\ activeByRepository' = Bump(activeByRepository, RepositoryOf[j], 1)
  /\ activeByGroup' = Bump(activeByGroup, GroupOf[j], 1)

\* Mutant: the group's count is never given back.
GiveSlotBackNotGroup(j) ==
  /\ active' = active - 1
  /\ activeByRepository' = Bump(activeByRepository, RepositoryOf[j], -1)
  /\ UNCHANGED activeByGroup

GiveSlotBack(j) ==
  /\ active' = active - 1
  /\ activeByRepository' = Bump(activeByRepository, RepositoryOf[j], -1)
  /\ activeByGroup' = Bump(activeByGroup, GroupOf[j], -1)

UnchangedSlots == UNCHANGED <<active, activeByRepository, activeByGroup>>

-----------------------------------------------------------------------------

Init ==
  /\ queue = <<>>
  /\ active = 0
  /\ activeByRepository = [r \in Repositories |-> 0]
  /\ activeByGroup = [g \in Groups |-> 0]
  /\ status = [j \in Jobs |-> "idle"]
  /\ draining = FALSE

\* schedule() throws TaskQueueQuotaError: only a job that would have to wait is refused.
Refuse(j) ==
  /\ ~draining
  /\ status[j] \in {"idle", "refused"}
  /\ Len(queue) >= MaxQueued
  /\ ~CanStart(j)
  /\ status' = [status EXCEPT ![j] = "refused"]
  /\ UNCHANGED <<queue, draining>>
  /\ UnchangedSlots

\* Mutant: newest first.
SubmitInFront(j) ==
  /\ ~draining
  /\ status[j] \in {"idle", "refused"}
  /\ Len(queue) < MaxQueued \/ CanStart(j)
  /\ queue' = <<j>> \o queue
  /\ status' = [status EXCEPT ![j] = "queued"]
  /\ draining' = TRUE
  /\ UnchangedSlots

\* schedule() pushes the job behind every other one and enters drain().
Submit(j) ==
  /\ ~draining
  /\ status[j] \in {"idle", "refused"}
  /\ Len(queue) < MaxQueued \/ CanStart(j)
  /\ queue' = Append(queue, j)
  /\ status' = [status EXCEPT ![j] = "queued"]
  /\ draining' = TRUE
  /\ UnchangedSlots

\* The position `queue.findIndex((job) => this.canStart(job))` answers.
FirstStartable(i) ==
  /\ CanStart(queue[i])
  /\ \A k \in 1 .. (i - 1) : ~CanStart(queue[k])

\* Mutant: the job that fits starts, the one at the head of the queue leaves it.
DrainStartShift ==
  /\ draining
  /\ \E i \in DOMAIN queue :
       /\ FirstStartable(i)
       /\ queue' = Tail(queue)
       /\ status' = [status EXCEPT ![queue[i]] = "running"]
       /\ TakeSlot(queue[i])
  /\ UNCHANGED draining

\* One iteration of drain(): the first job that fits leaves the queue and starts.
DrainStart ==
  /\ draining
  /\ \E i \in DOMAIN queue :
       /\ FirstStartable(i)
       /\ queue' = RemoveAt(queue, i)
       /\ status' = [status EXCEPT ![queue[i]] = "running"]
       /\ TakeSlot(queue[i])
  /\ UNCHANGED draining

\* drain() returns: findIndex found nothing.
DrainDone ==
  /\ draining
  /\ \A i \in DOMAIN queue : ~CanStart(queue[i])
  /\ draining' = FALSE
  /\ UNCHANGED <<queue, status>>
  /\ UnchangedSlots

\* Mutant: the slot is given back as the run answers, and again in the `finally`.
SettleGivingSlotBack(j) ==
  /\ ~draining
  /\ status[j] = "running"
  /\ status' = [status EXCEPT ![j] = "settled"]
  /\ GiveSlotBack(j)
  /\ UNCHANGED <<queue, draining>>

\* run() resolves or rejects, and schedule()'s promise with it.  The caller may go on before the
\* `finally` below has run: whatever it submits meets a slot that is still taken.
Settle(j) ==
  /\ ~draining
  /\ status[j] = "running"
  /\ status' = [status EXCEPT ![j] = "settled"]
  /\ UNCHANGED <<queue, draining>>
  /\ UnchangedSlots

\* Mutant: the slot is given back without another look at the queue.
FinishWithoutDrain(j) ==
  /\ ~draining
  /\ status[j] = "settled"
  /\ status' = [status EXCEPT ![j] = "idle"]
  /\ GiveSlotBack(j)
  /\ UNCHANGED <<queue, draining>>

\* The `finally` of a started job: the slot is given back and the queue drained.
Finish(j) ==
  /\ ~draining
  /\ status[j] = "settled"
  /\ status' = [status EXCEPT ![j] = "idle"]
  /\ GiveSlotBack(j)
  /\ draining' = TRUE
  /\ UNCHANGED queue

Next ==
  \/ DrainStart
  \/ DrainDone
  \/ \E j \in Jobs : Submit(j) \/ Refuse(j) \/ Settle(j) \/ Finish(j)

Spec == Init /\ [][Next]_vars

\* drain() is synchronous code; a run is bounded by its own timeouts, so it settles, and the
\* `finally` of a settled promise always runs.  Both wait only for the synchronous stretch on the
\* stack to end (they are disabled while draining), and the event loop serves reactions in turn,
\* hence strong fairness.  Nobody is obliged to submit anything.
Fairness ==
  /\ WF_vars(DrainStart \/ DrainDone)
  /\ \A j \in Jobs : SF_vars(Settle(j) \/ Finish(j))

FairSpec == Spec /\ Fairness

-----------------------------------------------------------------------------

Holding == {j \in Jobs : status[j] \in {"running", "settled"}}

\* The three counters are exactly the jobs that hold a slot: no increment is lost and no slot is
\* given back twice, whatever the order in which jobs are queued, started, settled and finished.
CountersExact ==
  /\ active = Cardinality(Holding)
  /\ \A r \in Repositories :
       activeByRepository[r] = Cardinality({j \in Holding : RepositoryOf[j] = r})
  /\ \A g \in Groups : activeByGroup[g] = Cardinality({j \in Holding : GroupOf[j] = g})

\* The jobs that hold a slot never exceed the ceiling of the most generous of them, a repository
\* never runs more than its quota, and a group no more than the most generous ceiling its holding
\* jobs were given: every ceiling of every started job was respected as it started.
CeilingsRespected ==
  /\ Holding # {} => \E j \in Holding : Cardinality(Holding) <= Ceiling(j)
  /\ \A r \in Repositories :
       Cardinality({j \in Holding : RepositoryOf[j] = r}) <= MaxConcurrentPerRepository
  /\ \A g \in Groups :
       LET members == {j \in Holding : GroupOf[j] = g}
       IN  members # {} => \E j \in members : Cardinality(members) <= GroupMaxConcurrent[j]

\* Whenever control is outside drain(), no queued job could start: a slot is never left free while
\* a job that fits waits for it, because everything that frees capacity drains.
WorkConserving == ~draining => \A i \in DOMAIN queue : ~CanStart(queue[i])

\* maxQueued bounds the jobs that wait.  schedule() may push past it when the new job can start;
\* that the job which then leaves the queue brings it back under the bound depends on no earlier
\* job being startable at that moment (control-plane.ts:307-313).
QueueBounded ==
  /\ ~draining => Len(queue) <= MaxQueued
  /\ Len(queue) <= MaxQueued + 1

\* A job waits in the queue exactly once, and only while it is neither running nor refused.
QueuedOnce ==
  /\ \A j \in Jobs : status[j] = "queued" <=> \E i \in DOMAIN queue : queue[i] = j
  /\ \A i, k \in DOMAIN queue : queue[i] = queue[k] => i = k

\* The queue is what it is taken for: within its bound, and each waiting job in it exactly once.
QueueSound == QueueBounded /\ QueuedOnce

Ahead(k, j) == \E m, n \in DOMAIN queue : m < n /\ queue[m] = k /\ queue[n] = j

\* Whatever capacity lets j start would also let k start.
NeedsNoMore(k, j) ==
  /\ RepositoryOf[k] = RepositoryOf[j]
  /\ Ceiling(k) >= Ceiling(j)
  /\ \/ GroupOf[k] = NoGroup
     \/ GroupOf[k] = GroupOf[j] /\ GroupMaxConcurrent[k] >= GroupMaxConcurrent[j]

Starts(j) == status[j] = "queued" /\ status'[j] = "running"

Waits(j) == status[j] = "queued" /\ status'[j] = "queued"

FairStep ==
  \A j, k \in Jobs :
    /\ Starts(j) /\ Ahead(k, j) => ~NeedsNoMore(k, j)
    /\ Waits(k) /\ Ahead(j, k)' => Ahead(j, k)

\* Nobody gets in front of a waiting job, and a job never starts while one in front of it waits that
\* runs in its repository and needs no more capacity than it does: between jobs held to the same
\* limits the queue is first in, first out.
NoUnfairOvertaking == [][FairStep]_vars

\* A job behind j in the queue starts while j waits.
Overtaken(j) == status[j] = "queued" /\ \E k \in Jobs : Starts(k) /\ Ahead(j, k)

\* Only overtaking can starve a job.  The scheduler does not promise a start to a job that needs a
\* slot of several ceilings, or one under a lower ceiling than others (control-plane.ts:326): later
\* jobs may take every slot that falls free.  But a job that is passed finitely often starts, however
\* many jobs are submitted behind it: no job is lost in the queue, and none waits for a job that does
\* not run.
StarvedOnlyByOvertaking ==
  \A j \in Jobs : []<>(status[j] # "queued") \/ []<><<Overtaken(j)>>_vars

=============================================================================
