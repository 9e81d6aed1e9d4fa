-------------------------------- MODULE AgentRun --------------------------------
(***************************************************************************)
(* One run of the agent over one checkout: packages/core/agent/src,        *)
(* agent.ts (class CodeZero and its Run), state.ts and validation.ts, with *)
(* the runner's changedFiles() of packages/core/runner/src/boundary.ts.    *)
(*                                                                         *)
(* The model is an untrusted oracle: it answers any finding and any        *)
(* proposal.  The checkout need not be clean when the run begins, and a    *)
(* check command may itself change files.  An action is one synchronous    *)
(* stretch between two awaits, or a part of one that ends with an event.   *)
(***************************************************************************)
EXTENDS Integers, FiniteSets, SequencesExt

CONSTANTS
  Files,             \* the repository-relative paths
  Outside,           \* a path that is not one of them
  SourceFiles,       \* executable source
  HighImpactFiles,   \* tests, dependency metadata, CI, policy, schemas, migrations
  LeftoverFiles,     \* those that may be changed already: earlier runs leave their changes in place
  DiffFiles,         \* runner.reviewFiles(): the files of the diff under review
  Committed,              \* the committed content of each file
  Contents,
  Absent,            \* the content of a file that does not exist
  Drafts,            \* the contents the model proposes
  MaxChanges,        \* bound: the changes of one proposal
  MaxAttempts,       \* config.agent.maxAttempts
  MaxChangedFiles,   \* config.agent.maxChangedFiles
  Policies           \* the policies and inputs considered

Paths == Files \cup {Outside}

Risks == {"mechanical", "behavioral", "high-impact"}

\* trigger: "empty" is a review without feedback.  open: the boundary is writable and, where the
\* policy asks for it, isolated.  known: validation.requireKnownFiles.  allowed:
\* autofix.allowedChangeRisks.  checks: how many checks were resolved.  faulty: whether a call to the
\* model or the runner may be rejected.
PolicyRecords ==
  [trigger : {"feedback", "proactive", "empty"}, mayModify : BOOLEAN, open : BOOLEAN,
   known : BOOLEAN, allowed : SUBSET {"mechanical", "behavioral"}, checks : Nat, faulty : BOOLEAN]

ASSUME AgentAssumption ==
  /\ Outside \notin Files
  /\ SourceFiles \cup HighImpactFiles \cup LeftoverFiles \cup DiffFiles \subseteq Files
  /\ Absent \in Contents
  /\ Drafts \subseteq Contents \ {Absent}
  /\ IsFiniteSet([path : Paths, content : Drafts])
  /\ Committed \in [Files -> Contents]
  /\ MaxChanges \in Nat
  /\ MaxAttempts \in Nat \ {0}
  /\ MaxChangedFiles \in Nat \ {0}
  /\ Policies \subseteq PolicyRecords

Changes == [path : Paths, content : Drafts]

\* standing "unsupported": the claim is not held valid, or its confidence is no number in 0..1, or it
\* lacks evidence, or quotes what does not appear.  Otherwise its confidence is below
\* validation.minConfidence, below autofix.minConfidence, or above both.
Findings == [standing : {"unsupported", "low", "reportable", "actionable"}, files : SUBSET Paths]

Proposals == [risk : Risks, changes : UNION {kSubset(k, Changes) : k \in 0 .. MaxChanges}]

NoFinding == [standing |-> "unsupported", files |-> {}]
NoProposal == [risk |-> "mechanical", changes |-> {}]
NoResult == [state |-> "none", verified |-> FALSE, changed |-> {}]

VARIABLES
  policy,      \* the policy and the input of this run; never changes
  at,          \* where the run is
  lifecycle,   \* the state of its LifecycleMachine
  attempt,     \* run.attempts
  finding,
  proposal,    \* the risk and the changes the model last proposed
  todo,        \* the changes not yet written
  checks,      \* run.checks: whether each passed, and after how many writes it ran
  files,       \* the content of each file of the checkout
  writes,      \* writes so far
  written,     \* the files this run wrote
  result

vars == <<policy, at, lifecycle, attempt, finding, proposal, todo, checks, files, writes, written,
          result>>

Terminal == {"completed", "needs-human", "failed"}

\* Mutant: the table lacks the repair edge.
AllowedNoRepair ==
  [queued        |-> {"discovering", "failed"},
   discovering   |-> {"understanding", "failed"},
   understanding |-> {"validating", "failed"},
   validating    |-> {"planning"} \cup Terminal,
   planning      |-> {"executing"} \cup Terminal,
   executing     |-> {"verifying", "needs-human", "failed"},
   verifying     |-> {"reviewing", "needs-human", "failed"},
   reviewing     |-> Terminal]

\* allowedTransitions
Allowed ==
  [queued        |-> {"discovering", "failed"},
   discovering   |-> {"understanding", "failed"},
   understanding |-> {"validating", "failed"},
   validating    |-> {"planning"} \cup Terminal,
   planning      |-> {"executing"} \cup Terminal,
   executing     |-> {"verifying", "needs-human", "failed"},
   verifying     |-> {"reviewing", "planning", "needs-human", "failed"},
   reviewing     |-> Terminal]

\* Where the run awaits the runner or the model.
Awaiting == {"probing", "deciding", "validating", "writing", "checking", "reviewing", "replanning",
             "giving up"}

TypeOK ==
  /\ policy \in Policies
  /\ at \in Awaiting \cup {"start", "authorizing", "done"}
  /\ lifecycle \in DOMAIN Allowed \cup Terminal
  /\ attempt \in 0 .. MaxAttempts
  /\ finding \in Findings
  /\ proposal.risk \in Risks /\ proposal.changes \subseteq Changes
  /\ todo \subseteq proposal.changes
  /\ checks \in Seq([passed : BOOLEAN, after : 0 .. writes])
  /\ Len(checks) <= policy.checks
  /\ files \in [Files -> Contents]
  /\ writes \in 0 .. MaxAttempts * MaxChangedFiles
  /\ written \subseteq Files
  /\ result \in [state : Terminal \cup {"none"}, verified : BOOLEAN, changed : SUBSET Files]

-----------------------------------------------------------------------------

Init ==
  /\ policy \in Policies
  /\ at = "start"
  /\ lifecycle = "queued"
  /\ attempt = 0
  /\ finding = NoFinding
  /\ proposal = NoProposal
  /\ todo = {}
  /\ checks = <<>>
  /\ files \in {g \in [Files -> Contents] : \A f \in Files \ LeftoverFiles : g[f] = Committed[f]}
  /\ writes = 0
  /\ written = {}
  /\ result = NoResult

AllChecksPassed == checks # <<>> /\ \A i \in DOMAIN checks : checks[i].passed

\* The run ends in state s, having found these files changed.
End(s, changed) ==
  /\ at' = "done"
  /\ lifecycle' = s
  /\ result' = [state |-> s,
                verified |-> s = "completed" /\ changed # {} /\ AllChecksPassed,
                changed |-> changed]

\* run.finish(): an end the table does not allow throws, and the catch of run() makes it a failure.
Finish(s, changed) == End(IF s \in Allowed[lifecycle] THEN s ELSE "failed", changed)

\* run.emit(), and where the run goes on; a transition the table lacks throws likewise.
Emit(s, where) ==
  IF s \in Allowed[lifecycle]
    THEN /\ at' = where
         /\ lifecycle' = s
         /\ UNCHANGED result
    ELSE End("failed", {})

\* `git status --porcelain`; empty also when git fails.
ReportedChanges(changed) == changed \in {{f \in Files : files[f] # Committed[f]}, {}}

unplanned == <<policy, finding, proposal, todo>>
unwritten == <<files, writes, written>>

\* The run begins; a review without feedback is refused.
Begin ==
  /\ at = "start"
  /\ IF policy.trigger = "empty" THEN End("failed", {}) ELSE Emit("discovering", "probing")
  /\ UNCHANGED <<unplanned, unwritten, attempt, checks>>

\* The checkout is probed: its checks, diff and context.
Probe ==
  /\ at = "probing"
  /\ Emit("understanding", "deciding")
  /\ UNCHANGED <<unplanned, unwritten, attempt, checks>>

\* The model answers.
Decide ==
  /\ at = "deciding"
  /\ finding' \in Findings
  /\ proposal' \in Proposals
  /\ Emit("validating", "validating")
  /\ UNCHANGED <<policy, todo, unwritten, attempt, checks>>

Cited == finding.files \ {Outside}

\* validateFinding() without its last question, the confidence: every path cited lies inside the
\* checkout, one of them exists if the policy asks for that, and one belongs to the diff of a
\* proactive review.
Supported ==
  /\ finding.standing # "unsupported"
  /\ Outside \notin finding.files
  /\ policy.known => \E f \in Cited : files[f] # Absent
  /\ policy.trigger = "proactive" => Cited \cap DiffFiles # {}

\* The claim is rejected, inconclusive, or accepted and planned.
Validate ==
  /\ at = "validating"
  /\ CASE ~Supported -> Finish("completed", {})
       [] Supported /\ finding.standing = "low" -> Finish("needs-human", {})
       [] OTHER -> Emit("planning", "authorizing")
  /\ UNCHANGED <<unplanned, unwritten, attempt, checks>>

\* classifyChangeRisk(): the declared risk, raised as the paths demand.
ChangeRisk ==
  LET touched == {c.path : c \in proposal.changes}
  IN  IF touched \cap HighImpactFiles # {} THEN "high-impact"
      ELSE IF touched \cap SourceFiles # {} /\ proposal.risk = "mechanical" THEN "behavioral"
      ELSE proposal.risk

\* authorize(), after its first question: what else keeps the run from writing.
NeedsApproval ==
  \/ finding.standing # "actionable"
  \/ ChangeRisk \notin policy.allowed
  \/ ~policy.open
  \/ policy.checks = 0

\* scopeChanges(): some changes, not too many, all of them to files the finding cites.
InScope ==
  /\ proposal.changes # {}
  /\ Cardinality(proposal.changes) <= MaxChangedFiles
  /\ \A c \in proposal.changes : c.path \in Cited

\* Before each attempt the run asks whether it may write, and what.
Authorize ==
  /\ at = "authorizing"
  /\ attempt' = IF policy.mayModify /\ ~NeedsApproval /\ attempt = 0 THEN 1 ELSE attempt
  /\ IF ~policy.mayModify THEN Finish("completed", {}) /\ UNCHANGED todo
     ELSE IF NeedsApproval \/ ~InScope THEN Finish("needs-human", {}) /\ UNCHANGED todo
     ELSE Emit("executing", "writing") /\ todo' = proposal.changes
  /\ UNCHANGED <<policy, finding, proposal, unwritten, checks>>

\* runner.write() of one more change.
Write ==
  /\ at = "writing"
  /\ \E c \in todo :
       /\ todo' = todo \ {c}
       /\ files' = [files EXCEPT ![c.path] = c.content]
       /\ written' = written \cup {c.path}
  /\ writes' = writes + 1
  /\ UNCHANGED <<policy, at, lifecycle, attempt, finding, proposal, checks, result>>

\* Mutant: the checks that have passed once are not run again.
VerifyKeepingPassed ==
  /\ at = "writing" /\ todo = {}
  /\ checks' = SelectSeq(checks, LAMBDA c : c.passed)
  /\ Emit("verifying", "checking")
  /\ UNCHANGED <<unplanned, unwritten, attempt>>

\* All changes are written, and verification begins anew.
Verify ==
  /\ at = "writing" /\ todo = {}
  /\ checks' = <<>>
  /\ Emit("verifying", "checking")
  /\ UNCHANGED <<unplanned, unwritten, attempt>>

\* Mutant: a check that fails is run again until it passes.
CheckUntilItPasses ==
  /\ at = "checking"
  /\ Len(checks) < policy.checks
  /\ \E passed \in BOOLEAN :
       checks' = IF passed THEN Append(checks, [passed |-> TRUE, after |-> writes]) ELSE checks
  /\ \/ UNCHANGED files
     \/ \E f \in Files, content \in Contents : files' = [files EXCEPT ![f] = content]
  /\ UNCHANGED <<unplanned, at, lifecycle, attempt, writes, written, result>>

\* One check command runs, passes or fails, and may change a file on its way.
Check ==
  /\ at = "checking"
  /\ Len(checks) < policy.checks
  /\ \E passed \in BOOLEAN : checks' = Append(checks, [passed |-> passed, after |-> writes])
  /\ \/ UNCHANGED files
     \/ \E f \in Files, content \in Contents : files' = [files EXCEPT ![f] = content]
  /\ UNCHANGED <<unplanned, at, lifecycle, attempt, writes, written, result>>

Verified == at = "checking" /\ Len(checks) = policy.checks

\* Mutant: one attempt more than the budget.
JudgeOneMore ==
  /\ Verified
  /\ IF AllChecksPassed
       THEN Emit("reviewing", "reviewing") /\ UNCHANGED attempt
       ELSE IF attempt <= MaxAttempts
         THEN Emit("planning", "replanning") /\ attempt' = attempt + 1
         ELSE at' = "giving up" /\ UNCHANGED <<lifecycle, attempt, result>>
  /\ UNCHANGED <<unplanned, unwritten, checks>>

\* Every check has run: the diff is reviewed, the plan repaired, or the budget is spent.
Judge ==
  /\ Verified
  /\ IF AllChecksPassed
       THEN Emit("reviewing", "reviewing") /\ UNCHANGED attempt
       ELSE IF attempt < MaxAttempts
         THEN Emit("planning", "replanning") /\ attempt' = attempt + 1
         ELSE at' = "giving up" /\ UNCHANGED <<lifecycle, attempt, result>>
  /\ UNCHANGED <<unplanned, unwritten, checks>>

\* The changed files are read, and the run completes unless there are none.
Review ==
  /\ at = "reviewing"
  /\ \E changed \in SUBSET Files :
       /\ ReportedChanges(changed)
       /\ Finish(IF changed = {} THEN "needs-human" ELSE "completed", changed)
  /\ UNCHANGED <<unplanned, unwritten, attempt, checks>>

\* Mutant: what was authorized once is not asked again, only scoped.
ReplanUnauthorized ==
  /\ at = "replanning"
  /\ proposal' \in {p \in Proposals : p.changes # {} /\ \A c \in p.changes : c.path \in Cited}
  /\ todo' = proposal'.changes
  /\ Emit("executing", "writing")
  /\ UNCHANGED <<policy, finding, unwritten, attempt, checks>>

\* The model proposes a repair; what it now finds is ignored.
Replan ==
  /\ at = "replanning"
  /\ proposal' \in Proposals
  /\ at' = "authorizing"
  /\ UNCHANGED <<policy, lifecycle, finding, todo, unwritten, attempt, checks, result>>

\* The budget is spent, and the changes are left in place.
GiveUp ==
  /\ at = "giving up"
  /\ \E changed \in SUBSET Files : ReportedChanges(changed) /\ Finish("needs-human", changed)
  /\ UNCHANGED <<unplanned, unwritten, attempt, checks>>

\* A call to the model or the runner is rejected, and the catch of run() makes it a failure.
Reject ==
  /\ policy.faulty
  /\ at \in Awaiting
  /\ Finish("failed", {})
  /\ UNCHANGED <<unplanned, unwritten, attempt, checks>>

Next ==
  \/ Begin \/ Probe \/ Decide \/ Validate \/ Authorize \/ Write \/ Verify \/ Check \/ Judge
  \/ Review \/ Replan \/ GiveUp \/ Reject

Spec == Init /\ [][Next]_vars

\* Every call to the model and the runner is bounded by a timeout, so each is answered; everything
\* else is synchronous code.
FairSpec == Spec /\ WF_vars(Next)

-----------------------------------------------------------------------------

\* No run fails of itself: the loop never asks the lifecycle for a transition the table lacks, so
\* unless a call was rejected or there was nothing to review, the run ends in an outcome.
NothingFailsByItself ==
  (lifecycle = "failed" /\ ~policy.faulty) => policy.trigger = "empty"

\* What must hold for the run to write f: the policy of the repository and the validated finding
\* allow it, whatever the model proposes in whichever attempt (agent.ts:54, 180-185, 353-361).
MayWrite(f) ==
  /\ policy.mayModify /\ policy.open /\ policy.checks > 0
  /\ finding.standing = "actionable"
  /\ f \in finding.files \ HighImpactFiles
  /\ f \in SourceFiles => "behavioral" \in policy.allowed

\* The agent changes no file it may not write, in no attempt.
WritesStayAuthorized ==
  [][\A f \in Files : (at = "writing" /\ files'[f] # files[f]) => MayWrite(f)]_vars

\* "No state can skip verifying on the way to completed once changes have been executed"
\* (state.ts:18-19), and no stale check speaks for a later change: a run that wrote and completed
\* had every check pass after its last write.
CompletedIsChecked ==
  (lifecycle = "completed" /\ writes > 0) =>
    /\ result.verified
    /\ Len(checks) = policy.checks
    /\ \A i \in DOMAIN checks : checks[i].passed /\ checks[i].after = writes

\* Every run ends: repairs are bounded, and no answer leaves the loop without a way on.
RunEnds == <>(at = "done")

\* "True only when changes were applied" (types.ts:193), "an applied change" (architecture.md:231):
\* among the files a verified run reports as changed is one that it wrote.
VerifiedMeansApplied == result.verified => result.changed \cap written # {}

=============================================================================
