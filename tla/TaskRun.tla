-------------------------------- MODULE TaskRun --------------------------------
(***************************************************************************)
(* One task from runTask() to its last approval:                           *)
(* packages/api/src/operations.ts, runTask and decideApproval, over the    *)
(* task store of packages/api/src/control-plane.ts.                        *)
(*                                                                         *)
(* runTask keeps one mutable record and saves it at every turn of its own  *)
(* flow; beside that, each event of the agent appends to the record and to *)
(* a chain of saves nobody awaits until the agent has returned.  A save    *)
(* takes a snapshot of the record as it begins, takes effect in the        *)
(* storage some time later, and is answered later still, by success or by  *)
(* a rejection that does not tell whether it took effect.  Decisions read  *)
(* the stored record and save it back, from any process.                   *)
(***************************************************************************)
EXTENDS Integers

CONSTANTS
  Deciders,    \* decideApproval() calls
  Absent,      \* no record is stored
  None,        \* no approval, no outcome, no save in flight
  MaxEvents    \* bound: the events one agent run emits

Outcomes == {"completed", "needs-human", "failed"}

Records == [status : {"queued", "running"} \cup Outcomes,
            events : 0 .. MaxEvents + 1,
            result : Outcomes \cup {None},
            approval : Deciders \cup {None}]

\* A save in flight: what it saves, and whether it has taken effect.
Saves == [value : Records, landed : BOOLEAN]

ASSUME TaskRunAssumption ==
  /\ MaxEvents \in Nat
  /\ Absent \notin Records
  /\ None \notin Saves \cup Deciders
  /\ Deciders \cap {"run", "events"} = {}

\* Who saves: the flow of runTask(), its chain of event saves, and each decision.
Writers == {"run", "events"} \cup Deciders

VARIABLES
  stage,      \* where runTask() is
  record,     \* its record in memory
  stored,     \* the record in the storage, or Absent
  saves,      \* the save each writer has in flight
  chain,      \* the chain of event saves: how many wait, and whether one was rejected
  outcome,    \* what the agent returned
  lease,      \* the sandbox lease of the run
  decision    \* where each decision is

vars == <<stage, record, stored, saves, chain, outcome, lease, decision>>

\* "unrecorded": the first save was rejected, so runTask() threw before its `try`.
\* "dead": the process died before runTask() settled.
Settled == {"refused", "unrecorded", "resolved", "rejected", "unsaved", "dead"}

Stages == {"new", "recording", "queued", "starting", "preparing", "leased", "running", "wrapping",
           "draining", "finishing", "failing"} \cup Settled

TypeOK ==
  /\ stage \in Stages
  /\ record \in Records
  /\ stored \in Records \cup {Absent}
  /\ saves \in [Writers -> Saves \cup {None}]
  /\ chain \in [waiting : 0 .. MaxEvents, broken : BOOLEAN]
  /\ outcome \in Outcomes \cup {None}
  /\ lease \in {"none", "held", "returned"}
  /\ decision \in [Deciders -> {"idle", "saving", "made", "refused", "lost"}]

-----------------------------------------------------------------------------

Init ==
  /\ stage = "new"
  /\ record = [status |-> "queued", events |-> 0, result |-> None, approval |-> None]
  /\ stored = Absent
  /\ saves = [w \in Writers |-> None]
  /\ chain = [waiting |-> 0, broken |-> FALSE]
  /\ outcome = None
  /\ lease = "none"
  /\ decision = [d \in Deciders |-> "idle"]

\* store.save(): the snapshot is taken at once.
Save(value) == [value |-> value, landed |-> FALSE]

\* The flow of runTask() goes on to `to`, and saves the record it has just changed.
SaveAt(to, changed) ==
  /\ stage' = to
  /\ record' = changed
  /\ saves' = [saves EXCEPT !["run"] = Save(changed)]

\* The catch of runTask(): the failure becomes the record's status and its last event.
Fail == SaveAt("failing", [record EXCEPT !.status = "failed", !.events = @ + 1])

\* A save in flight takes effect, whether or not its process still lives.
Land(w) ==
  /\ saves[w] # None
  /\ ~saves[w].landed
  /\ stored' = saves[w].value
  /\ saves' = [saves EXCEPT ![w].landed = TRUE]
  /\ UNCHANGED <<stage, record, chain, outcome, lease, decision>>

Refuse ==
  /\ stage = "new"
  /\ stage' = "refused"
  /\ UNCHANGED <<record, stored, saves, chain, outcome, lease, decision>>

\* The run is admitted and recorded as queued.
Begin ==
  /\ stage = "new"
  /\ SaveAt("recording", record)
  /\ UNCHANGED <<stored, chain, outcome, lease, decision>>

\* The scheduler refuses the run, its queue being full.
QuotaRefuses ==
  /\ stage = "queued"
  /\ Fail
  /\ UNCHANGED <<stored, chain, outcome, lease, decision>>

\* The scheduler starts the run.
Start ==
  /\ stage = "queued"
  /\ SaveAt("starting", [record EXCEPT !.status = "running"])
  /\ UNCHANGED <<stored, chain, outcome, lease, decision>>

\* The configuration is loaded and, with a pool, a sandbox leased.
Prepare ==
  /\ stage = "preparing"
  /\ stage' = "leased"
  /\ lease' \in {"none", "held"}
  /\ UNCHANGED <<record, stored, saves, chain, outcome, decision>>

\* loadConfig() or acquire() rejects.
PrepareFails ==
  /\ stage = "preparing"
  /\ Fail
  /\ UNCHANGED <<stored, chain, outcome, lease, decision>>

\* A runner that is not as isolated as the policy requires: the lease is released first, which may
\* itself be rejected.  Or the agent cannot be built, and nothing releases the lease.
SetupFails ==
  /\ stage = "leased"
  /\ Fail
  /\ lease' \in {lease, IF lease = "held" THEN "returned" ELSE lease}
  /\ UNCHANGED <<stored, chain, outcome, decision>>

StartAgent ==
  /\ stage = "leased"
  /\ stage' = "running"
  /\ UNCHANGED <<record, stored, saves, chain, outcome, lease, decision>>

\* onEvent: the event joins the record, and a save of the record joins the chain.
AgentEvent ==
  /\ stage = "running"
  /\ record.events < MaxEvents
  /\ record' = [record EXCEPT !.events = @ + 1]
  /\ IF chain.broken
       THEN UNCHANGED <<saves, chain>>
       ELSE IF saves["events"] = None
         THEN saves' = [saves EXCEPT !["events"] = Save(record')] /\ UNCHANGED chain
         ELSE chain' = [chain EXCEPT !.waiting = @ + 1] /\ UNCHANGED saves
  /\ UNCHANGED <<stage, stored, outcome, lease, decision>>

\* The agent never rejects: whatever goes wrong inside is a result.
AgentReturns ==
  /\ stage = "running"
  /\ outcome' \in Outcomes
  /\ stage' = "wrapping"
  /\ UNCHANGED <<record, stored, saves, chain, lease, decision>>

\* The changed files are captured and the lease released.
Wrap ==
  /\ stage = "wrapping"
  /\ stage' = "draining"
  /\ lease' = IF lease = "held" THEN "returned" ELSE lease
  /\ UNCHANGED <<record, stored, saves, chain, outcome, decision>>

\* The snapshot or the release rejects.
WrapFails ==
  /\ stage = "wrapping"
  /\ Fail
  /\ lease' \in {lease, IF lease = "held" THEN "returned" ELSE lease}
  /\ UNCHANGED <<stored, chain, outcome, decision>>

Finished == [record EXCEPT !.status = outcome, !.result = outcome]

\* Mutant: the final save does not wait for the event saves.
FinishEarly ==
  /\ stage = "draining"
  /\ SaveAt("finishing", Finished)
  /\ UNCHANGED <<stored, chain, outcome, lease, decision>>

\* Every event save has been answered, so the final record is saved.
Finish ==
  /\ stage = "draining"
  /\ saves["events"] = None
  /\ ~chain.broken
  /\ SaveAt("finishing", Finished)
  /\ UNCHANGED <<stored, chain, outcome, lease, decision>>

\* `await eventWrites` rejects.
DrainFails ==
  /\ stage = "draining"
  /\ chain.broken
  /\ Fail
  /\ UNCHANGED <<stored, chain, outcome, lease, decision>>

\* Where the flow goes on once its save is answered by success.
AfterSave == [recording |-> "queued", starting |-> "preparing", finishing |-> "resolved",
          failing |-> "rejected"]

RunAck ==
  /\ saves["run"] # None /\ saves["run"].landed
  /\ stage \in DOMAIN AfterSave
  /\ stage' = AfterSave[stage]
  /\ saves' = [saves EXCEPT !["run"] = None]
  /\ UNCHANGED <<record, stored, chain, outcome, lease, decision>>

\* Mutant: the rejection of the final save is swallowed.
RunRejectSwallowed ==
  /\ saves["run"] # None
  /\ stage # "dead"
  /\ CASE stage \in {"recording", "finishing", "failing"} ->
            /\ stage' = [recording |-> "unrecorded", finishing |-> "resolved",
                         failing |-> "unsaved"][stage]
            /\ saves' = [saves EXCEPT !["run"] = None]
            /\ UNCHANGED record
       [] stage = "starting" -> Fail
  /\ UNCHANGED <<stored, chain, outcome, lease, decision>>

\* Mutant: the final save is repeated until it succeeds.
RunRejectRetried ==
  /\ saves["run"] # None
  /\ stage # "dead"
  /\ CASE stage = "recording" ->
            /\ stage' = "unrecorded"
            /\ saves' = [saves EXCEPT !["run"] = None]
            /\ UNCHANGED record
       [] stage = "starting" -> Fail
       [] stage \in {"finishing", "failing"} -> SaveAt(stage, record)
  /\ UNCHANGED <<stored, chain, outcome, lease, decision>>

\* A save of the flow is rejected: before the `try` and in the `catch` the rejection is runTask()'s
\* own, in between it is one more failure to record.
RunReject ==
  /\ saves["run"] # None
  /\ stage # "dead"
  /\ CASE stage = "recording" ->
            /\ stage' = "unrecorded"
            /\ saves' = [saves EXCEPT !["run"] = None]
            /\ UNCHANGED record
       [] stage \in {"starting", "finishing"} -> Fail
       [] stage = "failing" ->
            /\ stage' = "unsaved"
            /\ saves' = [saves EXCEPT !["run"] = None]
            /\ UNCHANGED record
  /\ UNCHANGED <<stored, chain, outcome, lease, decision>>

\* Mutant: whoever answers takes one off the chain, even when nobody waits.
EventAckUnderflow ==
  /\ saves["events"] # None /\ saves["events"].landed
  /\ stage # "dead"
  /\ saves' = [saves EXCEPT !["events"] = IF chain.waiting > 0 THEN Save(record) ELSE None]
  /\ chain' = [chain EXCEPT !.waiting = @ - 1]
  /\ UNCHANGED <<stage, record, stored, outcome, lease, decision>>

\* An event save succeeds, and the next one of the chain begins.
EventAck ==
  /\ saves["events"] # None /\ saves["events"].landed
  /\ stage # "dead"
  /\ IF chain.waiting > 0
       THEN /\ saves' = [saves EXCEPT !["events"] = Save(record)]
            /\ chain' = [chain EXCEPT !.waiting = @ - 1]
       ELSE /\ saves' = [saves EXCEPT !["events"] = None]
            /\ UNCHANGED chain
  /\ UNCHANGED <<stage, record, stored, outcome, lease, decision>>

\* An event save is rejected: the rest of the chain is skipped.
EventReject ==
  /\ saves["events"] # None
  /\ stage # "dead"
  /\ saves' = [saves EXCEPT !["events"] = None]
  /\ chain' = [waiting |-> 0, broken |-> TRUE]
  /\ UNCHANGED <<stage, record, stored, outcome, lease, decision>>

\* The process dies.  What it has sent may still land.
Die ==
  /\ stage \notin Settled
  /\ stage' = "dead"
  /\ chain' = [chain EXCEPT !.waiting = 0]
  /\ UNCHANGED <<record, stored, saves, outcome, lease, decision>>

\* decideApproval() reads the record, and saves it back with the decision if it awaits one.
Decide(d) ==
  /\ decision[d] = "idle"
  /\ IF stored # Absent /\ stored.status = "needs-human"
       THEN /\ decision' = [decision EXCEPT ![d] = "saving"]
            /\ saves' = [saves EXCEPT ![d] = Save([stored EXCEPT !.approval = d])]
       ELSE /\ decision' = [decision EXCEPT ![d] = "refused"]
            /\ UNCHANGED saves
  /\ UNCHANGED <<stage, record, stored, chain, outcome, lease>>

DecideAck(d) ==
  /\ saves[d] # None /\ saves[d].landed
  /\ decision' = [decision EXCEPT ![d] = "made"]
  /\ saves' = [saves EXCEPT ![d] = None]
  /\ UNCHANGED <<stage, record, stored, chain, outcome, lease>>

DecideReject(d) ==
  /\ saves[d] # None
  /\ decision' = [decision EXCEPT ![d] = "lost"]
  /\ saves' = [saves EXCEPT ![d] = None]
  /\ UNCHANGED <<stage, record, stored, chain, outcome, lease>>

Next ==
  \/ Refuse \/ Begin \/ QuotaRefuses \/ Start \/ Prepare \/ PrepareFails \/ SetupFails
  \/ StartAgent \/ AgentEvent \/ AgentReturns \/ Wrap \/ WrapFails \/ Finish \/ DrainFails
  \/ RunAck \/ RunReject \/ EventAck \/ EventReject \/ Die
  \/ \E w \in Writers : Land(w)
  \/ \E d \in Deciders : Decide(d) \/ DecideAck(d) \/ DecideReject(d)

Spec == Init /\ [][Next]_vars

\* The storage answers every save, one way or the other; loading, leasing, the agent and what follows
\* it are bounded by timeouts.  Nothing is assumed of the queue: the scheduler may pass a run for ever
\* (see StarvedOnlyByOvertaking in TaskScheduler).
Fairness ==
  /\ WF_vars(RunAck \/ RunReject)
  /\ WF_vars(EventAck \/ EventReject)
  /\ WF_vars(Prepare \/ PrepareFails)
  /\ WF_vars(SetupFails \/ StartAgent)
  /\ WF_vars(AgentReturns)
  /\ WF_vars(Wrap \/ WrapFails)
  /\ WF_vars(Finish \/ DrainFails)

FairSpec == Spec /\ Fairness

-----------------------------------------------------------------------------

\* A run that answered its caller with a result is stored with exactly that result and all of its
\* events, whatever event saves were still in flight when the agent returned; at most a decision
\* has been added since.
ResolvedIsDurable ==
  stage = "resolved" =>
    /\ stored # Absent
    /\ [stored EXCEPT !.approval = None] = record
    /\ stored.approval # None => outcome = "needs-human"

\* Until the run fails, the stored history only grows: no save of an older snapshot lands on top of
\* a newer one, although the run and its event chain save independently of each other.
HistoryGrows ==
  [][(stored # Absent /\ stage \notin {"failing", "rejected", "unsaved", "dead"}) =>
       /\ stored'.events >= stored.events
       /\ stored.status \in Outcomes => stored'.status = stored.status]_vars

\* A run that resolved gave its sandbox back.
LeaseReturned == stage = "resolved" => lease # "held"

\* To resolve a run is the last thing done: its record is stored and its sandbox given back.
ResolvedIsComplete == ResolvedIsDurable /\ LeaseReturned

\* The scheduler's queue is the only place where a run may wait for ever: once it is started, or
\* refused there, it settles, whichever of its saves are late or rejected, those it awaits in the
\* chain of events included (operations.ts:312-346).
EventuallySettles ==
  /\ stage = "recording" ~> stage \in {"queued"} \cup Settled
  /\ stage \in {"starting", "failing"} ~> stage \in Settled

\* "Queue and run one unit of work, persisting its structured lifecycle and evidence"
\* (operations.ts:197): once a failed run has saved its failure and nothing of it is in flight any
\* more, the stored task says so.
FailureIsRecorded ==
  (stage = "rejected" /\ saves["run"] = None /\ saves["events"] = None) =>
    stored.status = "failed"

=============================================================================
