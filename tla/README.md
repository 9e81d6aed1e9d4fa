# Code Zero: verification project

TLA+ specifications of the stateful core of Code Zero, their model-checking
configurations for TLC, and proofs for the TLA+ proof system. Every definition
is translated from the source; the comment above it, or `map` in `PROJECT.json`,
names the lines.

Code Zero runs an AI agent over a repository checkout. A request (a command, a
webhook delivery, a polled pull request) becomes a *task*; the control plane
queues it, leases a sandbox, runs the agent, records each step, and leaves a
result a human may have to approve. The program is TypeScript on an event loop:
nothing runs in parallel inside a process, but everything is interleaved at
every `await`, several processes may share one storage, and any of them may die.

## Inventory

| Component | State | Operations | What is hard about it |
|---|---|---|---|
| **Task scheduler** (`packages/api/src/control-plane.ts` 225-351) | queue; active counts in total, per repository, per group | `schedule`, `drain`, the settling of a job | per-job limits that change while jobs wait; a drain re-entered from every settling job; bound and fairness |
| **Sandbox runner pool** (`packages/core/runner/src/sandbox.ts`) | leases, reservations, timers, stops in flight, disposed flag | `acquire`, `release`, `dispose`, `sweepExpired`, timer callbacks | acquires that overlap, disposal during provisioning, stops that fail, restarts |
| **Delivery claims** (`control-plane.ts` 93-199) | per delivery: marker and contender register in shared storage | `claim`, `complete`, `release` | mutual exclusion over single reads and writes, among processes, with crashes |
| **Task run and approval** (`packages/api/src/operations.ts` 204-371, task store `control-plane.ts` 69-91) | the in-memory record, its chain of event saves, the stored record, the lease | `runTask`, `onEvent`, `decideApproval` | saves that land late or are rejected, failures at every stage, two reviewers |
| **Agent** (`packages/core/agent/src`) | lifecycle, attempt, finding, proposal, check results, the checkout | `CodeZero.run` | an untrusted model; repairs; authorization and evidence across attempts |
| **Webhook ingestion** (`operations.ts` 432-716) | in-memory map of deliveries, durable claim | `ingestWebhook`, `ingestIssueEvent`, `runIssueTask` | redelivery racing a run, eviction, failure after the work, other processes |
| **Poller** (`apps/web/server/utils/poller.ts`, `server/plugins/poller.ts`) | durable claims per head commit | `pollOnce`, the loop | a failed start told apart from a failed run |
| **Live overview** (`apps/web/server/utils/overview.ts`, `server/api/events.get.ts`, `useLiveOverview.ts`) | debounce flags, listeners, stream counts | change, broadcast, subscribe, reconnect | no change may be lost; no old snapshot over a new one; broken connections that still count |
| **Model providers** (`packages/core/models/src`) | wait budget, attempt count, the session a transport reports | `decide` | bounded waits, stale reports, one fallback |
| **Runner boundary** (`packages/core/runner/src`) | the checkout | `write`, `check`, `changedFiles` | path safety, process I/O |
| **Storage, audit log, credentials, settings** | files, key-value records, rows | get, set, create, list | torn writes, read-modify-write |
| Forge, source control, API procedures, CLI, UI, sites, build tools | none of their own | | pure functions and I/O |

How they interact: `runTask` awaits `scheduler.schedule(...)`, and inside the
job calls `runnerPool.acquire`, `new CodeZero(...).run` (which calls the model
provider and the runner) and `runnerPool.release`; `onEvent` of the agent calls
back into the record and its chain of saves. Webhook handler and poller take a
delivery claim before they call `runTask`, and complete or release it after.
Every save through the web store emits a change that the overview broadcaster
debounces and pushes to the open event streams. `decideApproval` and other
processes meet a run only through the stored record.

What makes each correct: the scheduler never exceeds a ceiling, wastes no slot,
and starves a job only by letting later ones overtake it, which the code permits
between jobs that need different slots; the pool never exceeds a quota and never leaves a sandbox
running unowned; a delivery is worked on by one claimant at a time; a task's
record ends as what its caller was told; the agent writes only what was
authorized and claims only what was checked; a commit is reviewed by one run, and
a run that fails leaves it open to the next; an open page comes to show the newest
store; a wait for a usage window is bounded and, where a timer can last as long,
long enough. `PROJECT.json` lists the hazards
behind these, each at its line, with the properties that cover it.

## Modules

| Module | Models | Built on |
|---|---|---|
| `TaskScheduler` | class `TaskScheduler` | |
| `TaskSchedulerProofs` | theorems about it | `TaskScheduler`, `TLAPS` |
| `RunnerPool` | class `RunnerPool` and the remote provider | |
| `RunnerPoolProofs` | theorems about it | `RunnerPool`, `TLAPS` |
| `ExclusiveClaim` | what `DeliveryClaimStore` promises its callers, on either driver | |
| `DeliveryClaims` | class `PersistentDeliveryClaimStore`, both drivers | refines `ExclusiveClaim` |
| `DeliveryClaimsProofs` | theorems about it, the refinement included | `DeliveryClaims`, `TLAPS` |
| `TaskRun` | `runTask`, `decideApproval` over the task store | |
| `TaskRunProofs` | theorems about it | `TaskRun`, `TLAPS` |
| `AgentRun` | `CodeZero.run` with its lifecycle and validation | |
| `AgentRunProofs` | theorems about it | `AgentRun`, `TLAPS` |
| `Ingest` | webhook deliveries and polling passes on several processes | composes the channels over the claim store `DeliveryClaims` models; refines `ExclusiveClaim`, key by key |
| `IngestProofs` | theorems about it | `Ingest`, `TLAPS` |
| `Overview` | broadcaster, event streams and pages | |
| `OverviewProofs` | theorems about it | `Overview`, `TLAPS` |
| `SubscriptionModel` | the waiting and the fallback provider over a subscription transport | |
| `SubscriptionModelProofs` | theorems about it | `SubscriptionModel`, `TLAPS` |
| `MC*` | the small instances TLC checks | the module each is named after |

Definitions marked `Mutant:` model a plausible defect of the definition they
precede. They are in no specification: each property has one that it refutes
when it is put in the place of the original, which shows that the property can
fail.

### Correspondence

An action is a stretch of code between two awaits, or one storage call.

* **TaskScheduler.** `queue`, `active`, `activeByRepository`, `activeByGroup`
  are the private fields. `Submit`/`Refuse` are `schedule()`, `DrainStart` is an
  iteration of `drain()`, `DrainDone` its return, `Settle` the answer of the
  job's promise and `Finish` its `finally`. `draining` is TRUE while `drain()` is
  on the stack; no other action is enabled then, which is the run-to-completion
  of JavaScript. Between `Settle` and `Finish` the caller may go on, as it may
  between the two microtasks.
* **RunnerPool.** A member of `Calls` is one `acquire()` with its lease and
  remote sandbox. `Acquire`, `HandOut`, `StopLateArrival`, `ProvisionFails` are
  the stretches of `acquire()`; `Release`, `SweepExpired`, `Dispose` and
  `TimerFires` all start releases through `StartReleases`, and `StopSucceeds` /
  `StopFails` are what follows the provider's answer in all of them, the retry
  of `scheduleStopRetry` included. `sandbox` is the truth at the provider, which
  the code never sees. A stop that is answered with an error may have worked.
* **DeliveryClaims.** `marker` and `contender` are the two storage keys. Every
  `getItem`, `setItem`, `setItemIfAbsent`, `removeItem` is an action; `driver`
  chooses between the conditional create and the splitter. A crash leaves an
  attempt where it is for good. `TheClaim` and `Outcome` map these to what a caller
  of `ExclusiveClaim` sees: the claim is held while an attempt works under it, free
  while no marker stands or the last contender in the register may still win the one
  that does (`MayWin`), and standing for good otherwise.
* **TaskRun.** `record` is the mutable object, `stored` what the storage holds.
  `saves[w]` is the save a writer has in flight: its snapshot is taken as it
  begins, `Land` lets it take effect, and an acknowledgement or a rejection
  answers it, where a rejected save may have landed. `chain` is `eventWrites`.
* **AgentRun.** `lifecycle` is the `LifecycleMachine` and `Allowed` its table;
  `Emit` and `Finish` fall to `failed` where the code would throw. The model may
  answer any finding and any proposal. The content of the checkout is explicit,
  since whether the agent changed something is read from it; it may be changed
  before the run begins, and a check may change it. Confidence values are
  reduced to the thresholds they are compared with (`standing`), and texts,
  token usage and evidence are left out.
* **Ingest.** A member of `Requests` is a slot that is used again and again: an
  issue delivery, a proactive review delivery or a polled pull request, of a fixed
  key and process. The map in memory is `deliveries`, a sequence for its order of
  eviction; `claim` and `outcome` are the durable record of a key. The claim store
  is one step per call here, with the effects `DeliveryClaims` shows its calls to
  have on the driver `apps/web` composes: `LateMarker` is the loser that writes its
  empty marker over the winner's, `AllLose` the contention nobody wins, `Standing` a
  marker no live request will complete or release. Every storage call may fail, and
  a call that fails may have landed. `Claim(k)` reads `claim[k]` and `outcome[k]` as
  an `ExclusiveClaim` on a driver without a conditional create. `Fail` is any rejection of the run, from a full
  queue to its last save; `Crash` loses a process with its map and its requests.
* **Overview.** The store is a version number. A read is two steps and returns any
  version between them. `owner` is what the server counts; a page that goes away
  (`Leave`) leaves its stream counted until `Close`. `due` is a specification
  variable: the version the page's stream has to bring it, raised when a write is
  announced, forgiven when the read that was to bring it fails.
* **SubscriptionModel.** `at`, `attempt` and `budget` are the loop of
  `ResumingSubscriptionProvider.decide`; `session` is the object the transport's
  reports write to between two calls; the clock counts whole units. `waitedFor`
  remembers the instant of the last wait for the property alone, and nothing when
  the wait was longer than a timer can be: `LongestTimer` is the delay above which
  `setTimeout` (`index.ts:338`) ends after one millisecond, and `TimerFor` what the
  sleep then lasts.

## Runs

| Run | Checks | Bounds |
|---|---|---|
| `scheduler` | counters exact, ceilings, no idle slot, a bounded queue without duplicates, no unfair overtaking, no starvation other than by overtaking | six jobs, two repositories, one group, ceilings 1, 2 and 3 in one queue, queue of two |
| `runner_pool` | quotas at the provider, reservations, nothing escapes, the cleanup of a lease due exactly while it is tracked, disposed pools hand out nothing, every sandbox stops | three acquires, two of one repository, capacity two, one per repository, one restart |
| `claims` | at most one holder, the marker and the recorded outcome tell the truth, no marker for nobody unless calls overlap or die halfway, refinement of `ExclusiveClaim` | four attempts, both drivers |
| `task_run` | a resolved run is stored and its sandbox returned, history grows, a run once started or refused settles | three events, two decisions |
| `agent_run` | the table fits the loop, completion is checked, writes authorized, the run ends | three files (source, document, test), one of them possibly left over, two attempts, proposals of up to three changes of which two are allowed, nine policies |
| `ingest` | one run at a time, accepted means done, done stays done, a failed run never blocks its retry | two processes; two deliveries of one issue and one of another on a process whose map holds one entry; one commit seen by that process's poller and by the other's webhook |
| `overview` | stream counters exact, nothing owed is forgotten, pages catch up | two pages of two accounts, three streams, limits of two and three, two writes |
| `model_waits` | waits within budget and count, retries after the reset, every decision ends | two decisions, a budget of four units of which a timer can last three, two waits, reset instants up to six |

The bounds are where each mechanism is complete. The scheduler needs one job
running, one blocked by its repository, one by its group and one held to another
limit behind a full queue. The pool needs a third acquire that meets a full
pool and a full repository. The splitter needs a winner, an
overwriter, a staller and a retry. A chain of saves needs one in flight, one
waiting, one to come. The agent needs one repair, a proposal that is too large,
and for every guard a policy that differs from the permissive one in it alone.
Ingestion needs a redelivery to share a run, another issue to evict its entry
while it is in flight, and the two channels of one commit in two processes. The
overview needs a write during a read and a limit that is full of connections whose
pages are gone; two writes tell an older snapshot from a newer one. The waits need
a reset in the past, one inside and one beyond the budget, and a second wait that
only the first makes too long, and one that a timer cannot last. `CHECK_DEADLOCK FALSE` is said of the instances
whose work is finite: each attempt, task, run or decision is over once, and the
system then rests.

### Fairness

* *Scheduler*: a run settles (it is bounded by its own timeouts) and the
  `finally` of a settled promise runs, strongly, since both are disabled while
  `drain()` is on the stack and the event loop serves reactions in turn. Nobody
  is obliged to submit.
* *Runner pool*: the provider answers, time passes, and a stop that is asked for
  again and again succeeds in the end. No caller is obliged to release, sweep
  or dispose, so that expiry alone must do.
* *Task run*: the storage answers each save either way, and the agent returns.
  Nothing is assumed of the scheduler's queue, where a run may be passed for ever:
  the property is about a run before it is queued and after it has left. A process
  may die at any time and counts as settled.
* *Agent run*: every call to the model and the runner is bounded by a timeout,
  so the next step is taken.
* *Overview*: callbacks run, the debounce timer runs out, a read is answered, with
  a failure perhaps. No page is obliged to come, stay or go.
* *Model*: every call is bounded by its timeout and sleeps end; nothing is assumed
  of what the transport reports.

Safety properties are checked under the same specifications and need none of it.

### Disagreements the runs show

Each has a run of its own that TLC must find violated; `findings` quotes both
sides.

* `claims_plain`: where the driver lacks a conditional create, a slow loser
  overwrites the recorded outcome with its empty marker. Who may *work* is still
  exclusive, which `AtMostOneHolder` shows for the same driver.
* `task_run_failure`: the failure save does not wait for the event saves, and an
  older snapshot may land on top of it.
* `agent_run_applied`: a run that changed nothing is verified on what an earlier
  run left in the checkout.
* `ingest_started`: the poller takes any rejection of `start` for a review that
  never started, but `start` resolves only when the review is over; a review that
  fails late is run again by the next pass.

### Also observed

Met while modelling, and simple enough to need no run:

* A release beside one retry makes the retry lose and leaves the marker for nobody,
  although the register goes "first so a retry never reads a stale token as its own
  loss" (`control-plane.ts:176`): on a driver without a conditional create, the retry
  registers, the release removes first the register and then the marker, and the
  retry finds the door open, writes its marker, reads back nothing and gives up.
  These are six storage calls of two callers. `ExactUnlessOverlapping` is what
  remains true.
* A job that needs a slot of its repository and one of its group is passed for ever
  while the two fall free in turn and jobs that need only one of them keep coming
  (`control-plane.ts:326`), and so is a job under a lower ceiling than the others.
  `StarvedOnlyByOvertaking` says that nothing else starves a job.
* The poller's loop reads its configuration outside the `try` that guards a pass
  (`server/plugins/poller.ts:102`): one rejected read ends polling, although the
  comment above it (97-98) wants a database that is briefly unreachable to be a
  reason to try again.
* Nothing bounds `maxWaitMs` from above, and a wait above 2^31-1 ms ends after one
  (`index.ts:338`): the retry then does not come after the reset it was to wait for.
* `sweepExpired()` is described as a backstop after a restart
  (`sandbox.ts:210`), but a new process knows no leases.
* `decideApproval()` accepts a second decision about a decided task
  (`operations.ts:359`); the second replaces the first.
* `maxChangedFiles` bounds one proposal (`agent.ts:148`); a fix of several
  attempts may touch more.
* A redelivery that arrives after the map was read and before the first run is
  registered is answered "ignored" and does not share the run, contrary to
  `operations.ts:598-599`.
* `events.get.ts:101` calls the first snapshot "only ever older" than a live
  message that came before it. It may be newer, when the broadcast's read began
  earlier; the write in between is announced still, which is what
  `SnapshotFollowed` and `ReadFollowed` of `OverviewProofs` say.
* The page's own query of the overview and its live messages write one cache
  entry: a slow response replaces a newer message until the next write.
* A broadcast or a first read that fails is repeated only by the next write
  (`overview.ts:54`, `events.get.ts:103`, where the rejection is not handled
  either); `BoardsCatchUp` forgives exactly what such a read was to bring.
* `session.rejected` and `session.resetsAt` stay set when a wait does not fit the
  budget (`index.ts:318`), so a later failure of another kind is still classified
  as a spent window, and may reach the fallback, contrary to `index.ts:345-347`.

## Proofs

For every value of the constants that meets the named assumptions.

**TaskScheduler** (`JobsAssumption`, `LimitsAssumption`: finitely many jobs,
positive limits). No invariant of the list is inductive alone. The inductive
`Inv` joins the type, `CountersExact` (the counts are the cardinalities of the
jobs that hold a slot), `CeilingsFit` (which is `CeilingsRespected` in the form a
start preserves), `WorkConserving`, `BoundedOrDraining` (past the bound by one,
only inside `drain()`, and only with a job in the queue that can start) and
`QueuedOnce`, the last two of which give `QueueSound`. It is needed because each
leans on another: the bound holds on the way out of `drain()` only since outside
`drain()` nothing in the queue could start, and ceilings are about jobs while the
guard reads counters. From it follow all five invariants and the action property
`NoUnfairOvertaking`; and `NobodyWaitsForNobody`, the part of `StarvedOnlyByOvertaking`
that needs no fairness: outside `drain()` a queued job is blocked by jobs that do
hold slots, each of which drains the queue again as it ends.

**RunnerPool** (`PoolAssumption`: finitely many acquires, positive quotas). The
inductive `Inv` joins the type, `ReservationsExact`, `NoSandboxEscapes`,
`CleanupPending` and `NoStrayTimer` with two facts the code relies on. `Tied`: a
stop in flight is one provider call for a tracked lease, whoever waits for it
waits for that call, and an acquire waits for a stop exactly while it is late.
Without it a rejected stop might find nobody to arm the retry, and a reservation
be returned twice. `WithinQuotas(Occupied)`: the leases together with the
acquires being provisioned keep both quotas; `QuotasHold` cannot be preserved
alone, since it counts only sandboxes that are already up. The five invariants
(`CleanupExact` among them) and the action property `DisposedHandsOutNothing`
follow.

**DeliveryClaims** (any set of attempts, `ClaimsAssumption`: the tokens differ
from the markers). Exclusion is not inductive: nothing in it keeps a contender
that is past the open door from winning beside a holder. The inductive `Inv` adds
the splitter's argument: while the claim is held, no contender past the door is
the last one in the register (`NobodyAhead`); one that closed the door and is
still the last finds a marker standing (`OwnMarkerStands`); and a store with a
conditional create never runs the splitter (`NoSplitter`). From it follow
exclusion and `MarkerTruthful`. `OneByOneIsExact` proves `ExactUnlessOverlapping` by
an invariant of its own, `InOrder`, which the steps keep as long as calls come one
after the other: who is inside a call is alone there, and finds the register as it
left it.
`OutcomeStandsIfConditional` is what is true of the property that `claims_plain`
refutes: with a conditional create no recorded outcome is replaced. `Refinement`:
every step of the store is a step of `ExclusiveClaim` or a stutter. What makes the
map hard is that a marker does not say yet whether anybody will own it: it does not
count as standing before the last contender past the open door has lost its chance,
a chance that once gone does not come back while the marker stands
(`ChancesOnlyVanish`); when it goes without a winner, that step is the abstract
`Spoil`.

**TaskRun** (`TaskRunAssumption`: any number of events, any decisions). That a
resolved run is what is stored cannot be preserved alone, since saves land at any
time. The inductive `Inv` adds that a run saves one snapshot at a time
(`OneSaveAtATime`), that events are counted (`Counted`), and the order of things
(`Ordered`): until an outcome is recorded the storage is behind every save in
flight and these behind the record in memory; once the final record has landed,
it, with at most a decision, is all that is ever saved again. From it follow
`ResolvedIsComplete` and the action property `HistoryGrows`. A second inductive
invariant, `Traced`, follows what every save in flight carries once the run has
failed or offered its result for a decision. It gives the exact extent of the
finding of `task_run_failure`: a stored failure is replaced only by an event save
that was in flight, or by a decision on a result whose save had landed and was
answered by a rejection (`FailuresYieldToLateSaves`); and a stored decision only by
another decision or by that failure (`DecisionsYieldToDecisions`).

**AgentRun** (`AgentAssumption`: finite sets of files and drafts, a positive number
of attempts, policies that are well formed). The inductive `Inv` ties where the loop is to the
lifecycle state it has announced (`InStep`: from it and the transition table
follows `NothingFailsByItself`), the writes to the attempt that made them
(`Budgeted`), the changes still to write to what was authorized (`Authorized`, from
which `WritesStayAuthorized` follows), and the check results to the writes before
them (`Checked`, from which `CompletedIsChecked` follows). `RunsAreBounded` is the
part of `RunEnds` that needs no fairness: `StepsLeft`, which counts the attempts not
begun, the changes not written and the checks not run, is a natural number that
every step lowers, so a run takes at most `MaxAttempts + 1` rounds of
`MaxChangedFiles + checks + 4` steps, and four more.

**Ingest** (`IngestAssumption`: a delivery's key is never a commit's; any requests,
processes, and size of the map). Exclusion rests on the durable claim alone: the
inductive `Inv` says that whoever works on a key holds its claim (`HoldersHold`),
that the claim of a key that is done is never open (`DoneIsClosed`), and that
whoever may yet give a claim back has not succeeded (`UnfinishedIsNotDone`); what
is recorded and what a map remembers is done (`RecordedIsDone`, `SettledIsDone`).
The map in memory is never needed for exclusion, which is why an eviction is
harmless. `OneRunAtATime`, `AcceptedMeansDone` and `DoneIsDone` follow, and
`BlockedByTroubleOnly` (`OnlyTroubleBlocks`): a claim that is not open belongs to
work that is done or that a request holds, and each step of a request keeps it so
unless a crash, a disturbed contention or a failing storage call closes it for
nobody.
The map has an invariant of its own, `MapInv`, proved on top of `Inv`: one entry for
a key at most, and behind each entry in flight, and each redelivery that shares one,
a request of the same process that is at work and will answer it (`MapsAreMaps`,
`SharersAreAnswered`): a promise in the map is never one that nobody settles, also
after an eviction. `ClaimsAreExclusive` proves for each key that
ingestion implements `ExclusiveClaim`, the specification `Refinement` shows the claim
store to implement: what `Ingest` takes for one step is the promise that
the store's several storage calls keep. (TLC takes no `PROPERTY` that is
quantified over keys in this way, so the theorem has no run of its own.)

**Overview** (`OverviewAssumption`: finitely many streams). `StreamsCounted` is
inductive with the type. `NothingForgotten` is not, since an overview older than
what a page shows may be on its way to it; `Inv` adds that each read that could
bring one is followed by a newer broadcast (`ReadFollowed`, `SnapshotFollowed`),
and that the timer is never set during a read (`TimerRests`).

**SubscriptionModel** (`SubscriptionAssumption`: any budget and count, a positive
margin). The type says that both bounds hold; it needs only that the sleep in
progress ends late enough (`SleepsLongEnough`, for every wait that a timer can last) to give
`RetriesAfterReset`.
`DecidesAreBounded` is the part of `DecideEnds` that needs no fairness: whatever is
reported, a decision changes hands at most `2 * MaxLimitWaits + 2` times.

Every invariant and every action property of a passing run is proved, and both
refinements. Model-checked only: the liveness properties (`StarvedOnlyByOvertaking`,
`EverySandboxStops`, `EventuallySettles`, `RunEnds`, `BoardsCatchUp`, `DecideEnds`), since liveness under fairness and `ENABLED` are out
of the prover's reach, and the four properties that the code violates.

## Not modelled

* *Most of the repository by lines*. `.agents/skills` alone holds tens of thousands
  of lines of vendored browser and command-line scripts (page detectors, a live
  editor) that serve the authors' tools and are no part of the program; the user
  interface, sites, mail templates, schemas and prompts are most of the rest. The
  modules cover the stateful core, which is a small part of the line count.
* *Model transports*: the vendor SDKs, prompts and token costs. `AgentRun` takes a
  provider for any answer or failure, `SubscriptionModel` a transport for any report.
* *Pure functions and adapters*: configuration and settings merging, redaction,
  evidence, forge payloads, source-control HTTP, API procedures, the CLI. They
  keep no state; their outcome enters as constants (limits, policies, thresholds).
* *Process and path handling of the runner*: spawning, output capture, timeouts of
  a child, symbolic links. `AgentRun` uses the answers.
* *User interfaces, sites, mail, build tools*; of the live overview, the page's own
  query and the clock that calls a connection stale.
* *Torn file writes* of the file driver: a storage call is one step.
* *Clock values* elsewhere than in the waits: a deadline passes or it does not, and
  the limit of `setTimeout` is modelled for the waits only, not for a lease's timer.
* *Liveness of ingestion*: whether a review is granted, started and successful in the
  end depends on GitHub's redeliveries, on rival processes and on the agent; of the
  code itself `BlockedByTroubleOnly` says that a failed run is no obstacle.
* *Recovery of records after a crash*: the code has none, so a record stays
  queued or running.

## Plan

The plan is done: scheduler, pool, claims, task run, agent, ingestion with the
poller, live overview and the subscription waits, each checked and its safety
proved. What a team could add next: two storage calls for one file write, under
`DeliveryClaims` and `TaskRun`; `TaskScheduler` as the source of the starts and
refusals of `Ingest`, which now takes both at any time; and `Ingest` over
`DeliveryClaims` itself, where the two now meet in `ExclusiveClaim` only.
