----------------------------- MODULE AgentRunProofs -----------------------------
(***************************************************************************)
(* Proofs about AgentRun, for any checkout, policy, model and number of    *)
(* attempts: the run writes what it may write and nothing else, completes  *)
(* only on checks that passed after its last write, never asks its         *)
(* lifecycle for a transition the table lacks, and takes no more than a    *)
(* fixed number of steps.                                                  *)
(***************************************************************************)
EXTENDS AgentRun, TLAPS, FiniteSetTheorems

\* The lifecycle state in which the run awaits each answer.
LifecycleAt ==
  [start |-> "queued", probing |-> "discovering", deciding |-> "understanding",
   validating |-> "validating", authorizing |-> "planning", writing |-> "executing",
   checking |-> "verifying", reviewing |-> "reviewing", replanning |-> "planning"]

InStep ==
  /\ at \in DOMAIN LifecycleAt => lifecycle = LifecycleAt[at]
  /\ at = "giving up" => lifecycle = "verifying"
  /\ at = "done" => lifecycle \in Terminal

Unwritten == {"start", "probing", "deciding", "validating"}

Spent(n) == writes <= n * MaxChangedFiles

\* Each attempt writes no more than its share, and a change not yet written is paid for.
Budgeted ==
  /\ at \notin {"writing", "done"} => todo = {}
  /\ at \in Unwritten => attempt = 0 /\ writes = 0
  /\ at = "authorizing" => \/ attempt = 0 /\ writes = 0
                           \/ attempt > 0 /\ Spent(attempt - 1)
  /\ at = "replanning" => attempt > 0 /\ Spent(attempt - 1)
  /\ at = "writing" =>
       /\ attempt > 0
       /\ IsFiniteSet(todo) /\ writes + Cardinality(todo) <= attempt * MaxChangedFiles
  /\ at \in {"checking", "reviewing", "giving up"} => attempt > 0 /\ Spent(attempt)

\* What was authorized.
Authorized ==
  /\ attempt > 0 => policy.mayModify
  /\ at = "writing" => \A c \in todo : c.path \in Files /\ MayWrite(c.path)

\* The checks of this attempt have seen all of its writes, and the diff is reviewed once all passed.
Checked ==
  /\ at \in {"checking", "reviewing", "giving up"} => \A i \in DOMAIN checks : checks[i].after = writes
  /\ at = "reviewing" => AllChecksPassed /\ Len(checks) = policy.checks

Inv == TypeOK /\ InStep /\ Budgeted /\ Authorized /\ Checked /\ NothingFailsByItself /\ CompletedIsChecked

-----------------------------------------------------------------------------

LEMMA Products ==
  /\ MaxChangedFiles \in Nat /\ MaxAttempts \in Nat
  /\ \A n \in Nat : n * MaxChangedFiles \in Nat
  /\ \A n \in Nat : (n + 1) * MaxChangedFiles = n * MaxChangedFiles + MaxChangedFiles
  /\ \A n \in 0 .. MaxAttempts : n * MaxChangedFiles <= MaxAttempts * MaxChangedFiles
<1>1. MaxChangedFiles \in Nat /\ MaxAttempts \in Nat
  BY AgentAssumption
<1>2. \A m, n \in Nat : m * n \in Nat
  OBVIOUS
<1>3. \A m, n \in Nat : (n + 1) * m = n * m + m
  OBVIOUS
<1>4. \A m, n, k \in Nat : n <= k => n * m <= k * m
  OBVIOUS
<1> QED
  BY <1>1, <1>2, <1>3, <1>4

LEMMA PolicyType ==
  ASSUME policy \in Policies
  PROVE  /\ policy.checks \in Nat /\ policy.allowed \subseteq {"mechanical", "behavioral"}
         /\ policy.mayModify \in BOOLEAN /\ policy.open \in BOOLEAN /\ policy.faulty \in BOOLEAN
  BY AgentAssumption DEF PolicyRecords

\* The transitions the run asks for are in the table.
LEMMA Table ==
  /\ "discovering" \in Allowed["queued"]
  /\ "understanding" \in Allowed["discovering"]
  /\ "validating" \in Allowed["understanding"]
  /\ {"planning", "completed", "needs-human"} \subseteq Allowed["validating"]
  /\ {"executing", "completed", "needs-human"} \subseteq Allowed["planning"]
  /\ "verifying" \in Allowed["executing"]
  /\ {"reviewing", "planning", "needs-human"} \subseteq Allowed["verifying"]
  /\ {"completed", "needs-human"} \subseteq Allowed["reviewing"]
  /\ \A s \in DOMAIN Allowed : "failed" \in Allowed[s]
  BY DEF Allowed, Terminal

LEMMA InitInv == Init => Inv
<1> SUFFICES ASSUME Init PROVE Inv
  OBVIOUS
<1>1. policy \in Policies /\ policy.checks \in Nat
  BY PolicyType DEF Init
<1>2. /\ checks = <<>> /\ checks \in Seq([passed : BOOLEAN, after : 0 .. writes]) /\ Len(checks) = 0
      /\ DOMAIN checks = {}
  BY DEF Init
<1>3. 0 \in 0 .. MaxAttempts /\ 0 \in 0 .. MaxAttempts * MaxChangedFiles
  BY Products
<1>4. finding \in Findings
  BY DEF Init, NoFinding, Findings
<1>5. files \in [Files -> Contents]
  BY DEF Init
<1>6. proposal.risk \in Risks /\ proposal.changes \subseteq Changes /\ todo \subseteq proposal.changes
  BY DEF Init, NoProposal, Risks
<1>7. result \in [state : Terminal \cup {"none"}, verified : BOOLEAN, changed : SUBSET Files]
  BY DEF Init, NoResult
<1>8. TypeOK
  BY <1>1, <1>2, <1>3, <1>4, <1>5, <1>6, <1>7 DEF Init, TypeOK, Awaiting, Allowed
<1>9. InStep /\ Budgeted /\ Authorized /\ Checked
  BY DEF Init, InStep, LifecycleAt, Budgeted, Authorized, Checked, Unwritten
<1>10. NothingFailsByItself /\ CompletedIsChecked
  BY DEF Init, NothingFailsByItself, CompletedIsChecked
<1> QED
  BY <1>8, <1>9, <1>10 DEF Inv

\* What a run must have done to end in s.
Deserved(s, changed) ==
  /\ s = "failed" => policy.faulty \/ policy.trigger = "empty"
  /\ (s = "completed" /\ writes > 0) =>
       /\ changed # {} /\ AllChecksPassed /\ Len(checks) = policy.checks
       /\ \A i \in DOMAIN checks : checks[i].after = writes

\* The run ends.
LEMMA EndStep ==
  ASSUME Inv, NEW s \in Terminal, NEW changed \in SUBSET Files, End(s, changed), Deserved(s, changed),
         UNCHANGED <<unplanned, unwritten, checks>>,
         attempt' \in 0 .. MaxAttempts, attempt' > 0 => policy.mayModify
  PROVE  Inv'
<1> DEFINE verified == s = "completed" /\ changed # {} /\ AllChecksPassed
<1>1. /\ at' = "done" /\ lifecycle' = s
      /\ result' = [state |-> s, verified |-> verified, changed |-> changed]
      /\ UNCHANGED <<policy, finding, proposal, todo, files, writes, written, checks>>
  BY DEF End, unplanned, unwritten
<1>2. verified \in BOOLEAN /\ (s = "completed" /\ writes > 0 => verified)
  BY DEF Deserved
<1> HIDE DEF verified
<1>3. result' \in [state : Terminal \cup {"none"}, verified : BOOLEAN, changed : SUBSET Files]
  BY <1>1, <1>2
<1>4. TypeOK'
  BY <1>1, <1>3 DEF Inv, TypeOK
<1>5. InStep' /\ Budgeted' /\ Authorized' /\ Checked'
  BY <1>1 DEF InStep, LifecycleAt, Budgeted, Authorized, Checked, Unwritten
<1>6. NothingFailsByItself' /\ CompletedIsChecked'
  <2>1. NothingFailsByItself'
    BY <1>1 DEF NothingFailsByItself, Deserved
  <2>2. CompletedIsChecked'
    <3>1. ASSUME s = "completed", writes > 0
          PROVE  /\ result'.verified
                 /\ Len(checks') = policy'.checks
                 /\ \A i \in DOMAIN checks' : checks'[i].passed /\ checks'[i].after = writes'
      BY <1>1, <1>2, <3>1 DEF Deserved, AllChecksPassed
    <3> QED
      BY <1>1, <3>1 DEF CompletedIsChecked
  <2> QED
    BY <2>1, <2>2
<1> QED
  BY <1>4, <1>5, <1>6 DEF Inv

\* The run goes on after an event.
LEMMA EmitStep ==
  ASSUME NEW s, NEW where, Emit(s, where), s \in Allowed[lifecycle]
  PROVE  at' = where /\ lifecycle' = s /\ result' = result
  BY DEF Emit

\* An end the table allows.
LEMMA FinishStep ==
  ASSUME NEW s, NEW changed, Finish(s, changed), s \in Allowed[lifecycle]
  PROVE  End(s, changed)
  BY DEF Finish

\* A step that writes nothing, runs no check and goes on keeps what was said of results.
LEMMA GoOnStep ==
  ASSUME Inv, lifecycle' \in DOMAIN Allowed, UNCHANGED policy
  PROVE  NothingFailsByItself' /\ CompletedIsChecked'
  BY DEF NothingFailsByItself, CompletedIsChecked, Allowed

LEMMA BeginStep == Inv /\ Begin => Inv'
<1> SUFFICES ASSUME Inv, Begin PROVE Inv'
  OBVIOUS
<1>1. /\ at = "start" /\ lifecycle = "queued" /\ attempt = 0 /\ writes = 0 /\ todo = {} /\ attempt' = 0
      /\ UNCHANGED <<policy, finding, proposal, todo, files, writes, written, attempt, checks>>
      /\ UNCHANGED <<unplanned, unwritten, checks>>
      /\ attempt' \in 0 .. MaxAttempts
  BY DEF Begin, Inv, TypeOK, InStep, LifecycleAt, Budgeted, Unwritten, unplanned, unwritten
<1>2. CASE policy.trigger = "empty"
  BY <1>1, <1>2, EndStep DEF Begin, Deserved, Terminal
<1>3. CASE policy.trigger # "empty"
  <2>1. at' = "probing" /\ lifecycle' = "discovering" /\ result' = result
    BY <1>1, <1>3, Table, EmitStep DEF Begin
  <2>2. TypeOK'
    BY <1>1, <2>1 DEF Inv, TypeOK, Awaiting, Allowed
  <2>3. InStep' /\ Budgeted' /\ Authorized' /\ Checked'
    BY <1>1, <2>1 DEF InStep, LifecycleAt, Budgeted, Authorized, Checked, Unwritten
  <2> QED
    BY <1>1, <2>1, <2>2, <2>3, GoOnStep DEF Inv, Allowed
<1> QED
  BY <1>2, <1>3

LEMMA ProbeStep == Inv /\ Probe => Inv'
<1> SUFFICES ASSUME Inv, Probe PROVE Inv'
  OBVIOUS
<1>1. /\ at = "probing" /\ lifecycle = "discovering" /\ attempt = 0 /\ writes = 0 /\ todo = {}
      /\ UNCHANGED <<policy, finding, proposal, todo, files, writes, written, attempt, checks>>
  BY DEF Probe, Inv, InStep, LifecycleAt, Budgeted, Unwritten, unplanned, unwritten
<1>2. at' = "deciding" /\ lifecycle' = "understanding" /\ result' = result
  BY <1>1, Table, EmitStep DEF Probe
<1>3. TypeOK'
  BY <1>1, <1>2 DEF Inv, TypeOK, Awaiting, Allowed
<1>4. InStep' /\ Budgeted' /\ Authorized' /\ Checked'
  BY <1>1, <1>2 DEF InStep, LifecycleAt, Budgeted, Authorized, Checked, Unwritten
<1> QED
  BY <1>1, <1>2, <1>3, <1>4, GoOnStep DEF Inv, Allowed

LEMMA ProposalType ==
  ASSUME NEW p \in Proposals
  PROVE  p.risk \in Risks /\ p.changes \subseteq Changes /\ IsFiniteSet(p.changes)
<1>1. p.risk \in Risks /\ p.changes \subseteq Changes
  BY DEF Proposals, kSubset
<1>2. IsFiniteSet(Changes)
  BY AgentAssumption DEF Changes
<1> QED
  BY <1>1, <1>2, FS_Subset

LEMMA DecideStep == Inv /\ Decide => Inv'
<1> SUFFICES ASSUME Inv, Decide PROVE Inv'
  OBVIOUS
<1>1. /\ at = "deciding" /\ lifecycle = "understanding" /\ attempt = 0 /\ writes = 0 /\ todo = {}
      /\ finding' \in Findings /\ proposal' \in Proposals
      /\ UNCHANGED <<policy, todo, files, writes, written, attempt, checks>>
  BY DEF Decide, Inv, InStep, LifecycleAt, Budgeted, Unwritten, unwritten
<1>2. at' = "validating" /\ lifecycle' = "validating" /\ result' = result
  BY <1>1, Table, EmitStep DEF Decide
<1>3. TypeOK'
  BY <1>1, <1>2, ProposalType DEF Inv, TypeOK, Awaiting, Allowed
<1>4. InStep' /\ Budgeted' /\ Authorized' /\ Checked'
  BY <1>1, <1>2 DEF InStep, LifecycleAt, Budgeted, Authorized, Checked, Unwritten
<1> QED
  BY <1>1, <1>2, <1>3, <1>4, GoOnStep DEF Inv, Allowed

LEMMA ValidateStep == Inv /\ Validate => Inv'
<1> SUFFICES ASSUME Inv, Validate PROVE Inv'
  OBVIOUS
<1>1. /\ at = "validating" /\ lifecycle = "validating" /\ attempt = 0 /\ writes = 0 /\ todo = {}
      /\ UNCHANGED <<policy, finding, proposal, todo, files, writes, written, attempt, checks>>
      /\ UNCHANGED <<unplanned, unwritten, checks>>
      /\ attempt' \in 0 .. MaxAttempts
  BY DEF Validate, Inv, TypeOK, InStep, LifecycleAt, Budgeted, Unwritten, unplanned, unwritten
<1>2. CASE ~Supported \/ finding.standing = "low"
  <2>1. PICK s \in {"completed", "needs-human"} : Finish(s, {})
    BY <1>2 DEF Validate
  <2> QED
    BY <1>1, <2>1, Table, FinishStep, EndStep DEF Deserved, Terminal
<1>3. CASE Supported /\ finding.standing # "low"
  <2>1. at' = "authorizing" /\ lifecycle' = "planning" /\ result' = result
    BY <1>1, <1>3, Table, EmitStep DEF Validate
  <2>2. TypeOK'
    BY <1>1, <2>1 DEF Inv, TypeOK, Awaiting, Allowed
  <2>3. InStep' /\ Budgeted' /\ Authorized' /\ Checked'
    BY <1>1, <2>1 DEF InStep, LifecycleAt, Budgeted, Authorized, Checked, Unwritten
  <2> QED
    BY <1>1, <2>1, <2>2, <2>3, GoOnStep DEF Inv, Allowed
<1> QED
  BY <1>2, <1>3

\* What the policy and the scope say of a proposal holds of each of its changes.
LEMMA ScopedChanges ==
  ASSUME TypeOK, policy.mayModify, ~NeedsApproval, InScope
  PROVE  \A c \in proposal.changes : c.path \in Files /\ MayWrite(c.path)
<1> SUFFICES ASSUME NEW c \in proposal.changes PROVE c.path \in Files /\ MayWrite(c.path)
  OBVIOUS
<1>1. c.path \in finding.files /\ c.path # Outside /\ c.path \in Paths /\ c \in Changes
  BY DEF InScope, Cited, TypeOK, Changes
<1>2. /\ policy.open /\ policy.checks > 0 /\ finding.standing = "actionable"
      /\ ChangeRisk \in policy.allowed /\ policy.allowed \subseteq {"mechanical", "behavioral"}
  <2>1. policy.checks \in Nat /\ policy.open \in BOOLEAN /\ policy.allowed \subseteq {"mechanical", "behavioral"}
    BY PolicyType DEF TypeOK
  <2> QED
    BY <2>1 DEF NeedsApproval
<1> DEFINE touched == {x.path : x \in proposal.changes}
<1>3. c.path \in touched
  OBVIOUS
<1>4. touched \cap HighImpactFiles = {}
  BY <1>2 DEF ChangeRisk
<1>5. c.path \in SourceFiles => "behavioral" \in policy.allowed
  <2>1. proposal.risk \in {"mechanical", "behavioral", "high-impact"}
    BY DEF TypeOK, Risks
  <2>2. touched \cap SourceFiles # {} => ChangeRisk # "mechanical"
    BY <2>1, <1>4 DEF ChangeRisk
  <2> QED
    BY <1>2, <1>3, <2>2
<1>6. c.path \in Files
  BY <1>1 DEF Paths
<1> QED
  BY <1>1, <1>2, <1>3, <1>4, <1>5, <1>6 DEF MayWrite

LEMMA AuthorizeStep == Inv /\ Authorize => Inv'
<1> SUFFICES ASSUME Inv, Authorize PROVE Inv'
  OBVIOUS
<1>1. /\ at = "authorizing" /\ lifecycle = "planning" /\ todo = {}
      /\ attempt \in 0 .. MaxAttempts /\ (attempt = 0 => writes = 0)
      /\ UNCHANGED <<policy, finding, proposal, files, writes, written, checks>>
      /\ UNCHANGED <<unwritten, checks>>
      /\ writes \in Nat
  BY DEF Authorize, Inv, TypeOK, InStep, LifecycleAt, Budgeted, Unwritten, unwritten
<1>2. /\ attempt' \in 0 .. MaxAttempts /\ (attempt' > 0 => policy.mayModify)
      /\ attempt' = IF policy.mayModify /\ ~NeedsApproval /\ attempt = 0 THEN 1 ELSE attempt
  <2>1. 1 \in 0 .. MaxAttempts
    BY AgentAssumption
  <2> QED
    BY <1>1, <2>1 DEF Authorize, Inv, Authorized
<1>3. CASE ~policy.mayModify \/ NeedsApproval \/ ~InScope
  <2>1. PICK s \in {"completed", "needs-human"} :
          /\ Finish(s, {}) /\ UNCHANGED todo
          /\ s = "completed" => ~policy.mayModify
    BY <1>3 DEF Authorize
  <2>2. s = "completed" => writes = 0
    BY <1>1, <2>1 DEF Inv, Authorized
  <2>3. End(s, {}) /\ UNCHANGED <<unplanned, unwritten, checks>>
    BY <1>1, <2>1, Table, FinishStep DEF unplanned
  <2>4. Deserved(s, {})
    BY <1>1, <2>1, <2>2 DEF Deserved
  <2> QED
    BY <1>2, <2>1, <2>3, <2>4, EndStep DEF Terminal
<1>4. CASE policy.mayModify /\ ~NeedsApproval /\ InScope
  <2>1. Emit("executing", "writing") /\ todo' = proposal.changes
    BY <1>4 DEF Authorize
  <2>2. at' = "writing" /\ lifecycle' = "executing" /\ result' = result
    BY <1>1, <2>1, Table, EmitStep
  <2>3. /\ attempt' > 0 /\ IsFiniteSet(todo') /\ Cardinality(todo') \in Nat
        /\ Cardinality(todo') <= MaxChangedFiles
    <3>1. IsFiniteSet(proposal.changes)
      BY AgentAssumption, FS_Subset DEF Inv, TypeOK, Changes
    <3> QED
      BY <1>1, <1>2, <1>4, <2>1, <3>1, FS_CardinalityType DEF InScope
  <2>4. writes' + Cardinality(todo') <= attempt' * MaxChangedFiles
    <3>1. CASE attempt = 0
      <4>1. attempt' = 1 /\ writes' = 0 /\ 1 * MaxChangedFiles = MaxChangedFiles
        BY <1>1, <1>2, <1>4, <3>1, Products
      <4> QED
        BY <2>3, <4>1
    <3>2. CASE attempt # 0
      <4>1. attempt' = attempt /\ attempt - 1 \in Nat /\ writes <= (attempt - 1) * MaxChangedFiles
        BY <1>1, <1>2, <3>2 DEF Inv, Budgeted, Spent
      <4> DEFINE n == attempt - 1
      <4>2. attempt = n + 1 /\ n \in Nat
        BY <1>1, <4>1
      <4>3. (n + 1) * MaxChangedFiles = n * MaxChangedFiles + MaxChangedFiles /\ n * MaxChangedFiles \in Nat
        BY <4>2, Products
      <4>4. writes <= n * MaxChangedFiles /\ writes' = writes
        BY <1>1, <4>1
      <4> HIDE DEF n
      <4>5. writes' + Cardinality(todo') <= n * MaxChangedFiles + MaxChangedFiles
        BY <1>1, <2>3, <4>3, <4>4, Products
      <4> QED
        BY <4>1, <4>2, <4>3, <4>5
    <3> QED
      BY <3>1, <3>2
  <2>5. TypeOK'
    BY <1>1, <1>2, <2>1, <2>2 DEF Inv, TypeOK, Awaiting, Allowed
  <2>6. InStep' /\ Budgeted' /\ Checked'
    BY <2>2, <2>3, <2>4 DEF InStep, LifecycleAt, Budgeted, Checked, Unwritten
  <2>7. Authorized'
    <3>1. \A c \in proposal.changes : c.path \in Files /\ MayWrite(c.path)
      BY <1>4, ScopedChanges DEF Inv
    <3> QED
      BY <1>1, <1>4, <2>1, <3>1 DEF Authorized, MayWrite
  <2> QED
    BY <1>1, <2>2, <2>5, <2>6, <2>7, GoOnStep DEF Inv, Allowed
<1> QED
  BY <1>3, <1>4

LEMMA WriteStep == Inv /\ Write => Inv'
<1> SUFFICES ASSUME Inv, Write PROVE Inv'
  OBVIOUS
<1>1. PICK c \in todo : /\ todo' = todo \ {c}
                        /\ files' = [files EXCEPT ![c.path] = c.content]
                        /\ written' = written \cup {c.path}
  BY DEF Write
<1>2. /\ at = "writing" /\ writes' = writes + 1 /\ lifecycle = "executing"
      /\ UNCHANGED <<policy, at, lifecycle, attempt, finding, proposal, checks, result>>
      /\ writes \in 0 .. MaxAttempts * MaxChangedFiles /\ attempt \in 0 .. MaxAttempts
      /\ IsFiniteSet(todo) /\ writes + Cardinality(todo) <= attempt * MaxChangedFiles
  BY DEF Write, Inv, TypeOK, InStep, LifecycleAt, Budgeted
<1>3. /\ IsFiniteSet(todo') /\ Cardinality(todo') \in Nat
      /\ Cardinality(todo') = Cardinality(todo) - 1 /\ Cardinality(todo) \in Nat
  BY <1>1, <1>2, FS_RemoveElement, FS_CardinalityType
<1>4. writes' + Cardinality(todo') <= attempt * MaxChangedFiles /\ writes' \in Nat
  <2>1. attempt * MaxChangedFiles \in Nat
    BY <1>2, Products
  <2> QED
    BY <1>2, <1>3, <2>1, Products
<1>5. writes' \in 0 .. MaxAttempts * MaxChangedFiles
  <2>1. /\ attempt * MaxChangedFiles \in Nat /\ MaxAttempts * MaxChangedFiles \in Nat
        /\ attempt * MaxChangedFiles <= MaxAttempts * MaxChangedFiles
    BY <1>2, Products
  <2> QED
    BY <1>3, <1>4, <2>1
<1>6. checks' \in Seq([passed : BOOLEAN, after : 0 .. writes'])
  <2> DEFINE R == [passed : BOOLEAN, after : 0 .. writes]
             T == [passed : BOOLEAN, after : 0 .. writes']
  <2>1. R \subseteq T
    BY <1>2, Products
  <2>2. checks \in Seq(R) /\ checks' = checks
    BY <1>2 DEF Inv, TypeOK
  <2> HIDE DEF R, T
  <2>3. checks' \in Seq(T)
    BY <2>1, <2>2
  <2> QED
    BY <2>3 DEF T
<1>7. c.path \in Files /\ c.content \in Contents
  BY <1>2, AgentAssumption DEF Inv, Authorized, TypeOK, Changes
<1>8. files' \in [Files -> Contents] /\ written' \subseteq Files /\ todo' \subseteq proposal'.changes
  BY <1>1, <1>2, <1>7 DEF Inv, TypeOK
<1>9. TypeOK'
  BY <1>2, <1>5, <1>6, <1>8 DEF Inv, TypeOK
<1>10. InStep' /\ Budgeted'
  BY <1>2, <1>3, <1>4 DEF Inv, InStep, Budgeted, Unwritten
<1>11. Authorized'
  BY <1>1, <1>2 DEF Inv, Authorized, MayWrite
<1>12. Checked'
  BY <1>2 DEF Checked
<1> QED
  BY <1>2, <1>9, <1>10, <1>11, <1>12, GoOnStep DEF Inv, Allowed

LEMMA VerifyStep == Inv /\ Verify => Inv'
<1> SUFFICES ASSUME Inv, Verify PROVE Inv'
  OBVIOUS
<1>1. /\ at = "writing" /\ todo = {} /\ lifecycle = "executing" /\ checks' = <<>>
      /\ UNCHANGED <<policy, finding, proposal, todo, files, writes, written, attempt>>
      /\ attempt > 0 /\ writes + Cardinality(todo) <= attempt * MaxChangedFiles
      /\ policy.checks \in Nat /\ writes \in Nat
  BY PolicyType DEF Verify, Inv, TypeOK, InStep, LifecycleAt, Budgeted, unplanned, unwritten
<1>2. at' = "checking" /\ lifecycle' = "verifying" /\ result' = result
  BY <1>1, Table, EmitStep DEF Verify
<1>3. Spent(attempt)
  BY <1>1, FS_EmptySet DEF Spent
<1>4. /\ checks' \in Seq([passed : BOOLEAN, after : 0 .. writes']) /\ Len(checks') <= policy'.checks
      /\ DOMAIN checks' = {}
  BY <1>1
<1>5. TypeOK'
  BY <1>1, <1>2, <1>4 DEF Inv, TypeOK, Awaiting, Allowed
<1>6. InStep' /\ Budgeted' /\ Authorized' /\ Checked'
  BY <1>1, <1>2, <1>3, <1>4 DEF Inv, InStep, LifecycleAt, Budgeted, Spent, Authorized, Checked, Unwritten
<1> QED
  BY <1>1, <1>2, <1>5, <1>6, GoOnStep DEF Inv, Allowed

LEMMA CheckStep == Inv /\ Check => Inv'
<1> SUFFICES ASSUME Inv, Check PROVE Inv'
  OBVIOUS
<1>1. /\ at = "checking" /\ lifecycle = "verifying" /\ Len(checks) < policy.checks
      /\ UNCHANGED <<policy, finding, proposal, todo, at, lifecycle, attempt, writes, written, result>>
      /\ policy.checks \in Nat /\ writes \in Nat
      /\ checks \in Seq([passed : BOOLEAN, after : 0 .. writes])
      /\ \A i \in DOMAIN checks : checks[i].after = writes
  BY PolicyType DEF Check, Inv, TypeOK, InStep, LifecycleAt, Checked, unplanned
<1>2. PICK passed \in BOOLEAN : checks' = Append(checks, [passed |-> passed, after |-> writes])
  BY DEF Check
<1>3. /\ checks' \in Seq([passed : BOOLEAN, after : 0 .. writes])
      /\ Len(checks') = Len(checks) + 1 /\ Len(checks) \in Nat
      /\ \A i \in DOMAIN checks' : checks'[i].after = writes
  <2> DEFINE one == [passed |-> passed, after |-> writes]
             R == [passed : BOOLEAN, after : 0 .. writes]
  <2>1. one \in R /\ one.after = writes
    BY <1>1
  <2>2. checks' = Append(checks, one) /\ checks \in Seq(R)
    BY <1>1, <1>2
  <2> HIDE DEF one, R
  <2>3. /\ checks' \in Seq(R) /\ Len(checks') = Len(checks) + 1 /\ Len(checks) \in Nat
        /\ DOMAIN checks' = 1 .. Len(checks) + 1 /\ DOMAIN checks = 1 .. Len(checks)
        /\ \A i \in 1 .. Len(checks) : checks'[i] = checks[i]
        /\ checks'[Len(checks) + 1] = one
    BY <2>1, <2>2
  <2>4. ASSUME NEW i \in DOMAIN checks' PROVE checks'[i].after = writes
    <3>1. i \in 1 .. Len(checks) \/ i = Len(checks) + 1
      BY <2>3
    <3> QED
      BY <1>1, <2>1, <2>3, <3>1
  <2> QED
    BY <2>3, <2>4 DEF R
<1>4. files' \in [Files -> Contents]
  <2>1. CASE UNCHANGED files
    BY <2>1 DEF Inv, TypeOK
  <2>2. ASSUME NEW f \in Files, NEW content \in Contents, files' = [files EXCEPT ![f] = content]
        PROVE  files' \in [Files -> Contents]
    BY <2>2 DEF Inv, TypeOK
  <2> QED
    BY <2>1, <2>2 DEF Check
<1>5. Len(checks') <= policy.checks
  BY <1>1, <1>3
<1>6. TypeOK'
  BY <1>1, <1>3, <1>4, <1>5 DEF Inv, TypeOK
<1>7. InStep' /\ Budgeted' /\ Authorized' /\ Checked'
  BY <1>1, <1>3 DEF Inv, InStep, Budgeted, Spent, Authorized, Checked, Unwritten
<1> QED
  BY <1>1, <1>6, <1>7, GoOnStep DEF Inv, Allowed

LEMMA JudgeStep == Inv /\ Judge => Inv'
<1> SUFFICES ASSUME Inv, Judge PROVE Inv'
  OBVIOUS
<1>1. /\ at = "checking" /\ Len(checks) = policy.checks /\ lifecycle = "verifying" /\ todo = {}
      /\ UNCHANGED <<policy, finding, proposal, todo, files, writes, written, checks>>
      /\ attempt > 0 /\ Spent(attempt) /\ attempt \in 0 .. MaxAttempts /\ policy.mayModify
      /\ \A i \in DOMAIN checks : checks[i].after = writes
  BY DEF Judge, Verified, Inv, TypeOK, InStep, LifecycleAt, Budgeted, Authorized, Checked, unplanned,
     unwritten
<1>2. CASE AllChecksPassed
  <2>1. at' = "reviewing" /\ lifecycle' = "reviewing" /\ result' = result /\ attempt' = attempt
    BY <1>1, <1>2, Table, EmitStep DEF Judge
  <2>2. TypeOK'
    BY <1>1, <2>1 DEF Inv, TypeOK, Awaiting, Allowed
  <2>3. InStep' /\ Budgeted' /\ Authorized' /\ Checked'
    BY <1>1, <1>2, <2>1 DEF InStep, LifecycleAt, Budgeted, Spent, Authorized, Checked, AllChecksPassed,
       Unwritten
  <2> QED
    BY <1>1, <2>1, <2>2, <2>3, GoOnStep DEF Inv, Allowed
<1>3. CASE ~AllChecksPassed /\ attempt < MaxAttempts
  <2>1. at' = "replanning" /\ lifecycle' = "planning" /\ result' = result /\ attempt' = attempt + 1
    BY <1>1, <1>3, Table, EmitStep DEF Judge
  <2>2. attempt' \in 0 .. MaxAttempts /\ attempt' > 0 /\ attempt' - 1 = attempt
    BY <1>1, <1>3, <2>1, Products
  <2>3. TypeOK'
    BY <1>1, <2>1, <2>2 DEF Inv, TypeOK, Awaiting, Allowed
  <2>4. InStep' /\ Budgeted' /\ Authorized' /\ Checked'
    BY <1>1, <2>1, <2>2 DEF InStep, LifecycleAt, Budgeted, Spent, Authorized, Checked, Unwritten
  <2> QED
    BY <1>1, <2>1, <2>3, <2>4, GoOnStep DEF Inv, Allowed
<1>4. CASE ~AllChecksPassed /\ ~(attempt < MaxAttempts)
  <2>1. at' = "giving up" /\ UNCHANGED <<lifecycle, attempt, result>>
    BY <1>4 DEF Judge
  <2>2. TypeOK'
    BY <1>1, <2>1 DEF Inv, TypeOK, Awaiting
  <2>3. InStep' /\ Budgeted' /\ Authorized' /\ Checked'
    BY <1>1, <2>1 DEF InStep, LifecycleAt, Budgeted, Spent, Authorized, Checked, Unwritten
  <2> QED
    BY <1>1, <2>1, <2>2, <2>3, GoOnStep DEF Inv, Allowed
<1> QED
  BY <1>2, <1>3, <1>4

LEMMA ReplanStep == Inv /\ Replan => Inv'
<1> SUFFICES ASSUME Inv, Replan PROVE Inv'
  OBVIOUS
<1>1. /\ at = "replanning" /\ at' = "authorizing" /\ lifecycle = "planning" /\ todo = {}
      /\ proposal' \in Proposals
      /\ UNCHANGED <<policy, lifecycle, finding, todo, files, writes, written, attempt, checks, result>>
      /\ attempt > 0 /\ Spent(attempt - 1)
  BY DEF Replan, Inv, InStep, LifecycleAt, Budgeted, unwritten
<1>2. TypeOK'
  BY <1>1, ProposalType DEF Inv, TypeOK
<1>3. InStep' /\ Budgeted' /\ Authorized' /\ Checked'
  BY <1>1 DEF Inv, InStep, LifecycleAt, Budgeted, Spent, Authorized, Checked, Unwritten
<1> QED
  BY <1>1, <1>2, <1>3, GoOnStep DEF Inv, Allowed

\* The three ways a run that has written ends.
LEMMA LateEndStep == Inv /\ (Review \/ GiveUp \/ Reject) => Inv'
<1> SUFFICES ASSUME Inv, Review \/ GiveUp \/ Reject PROVE Inv'
  OBVIOUS
<1>1. /\ UNCHANGED <<unplanned, unwritten, attempt, checks>>
      /\ attempt' \in 0 .. MaxAttempts /\ (attempt' > 0 => policy.mayModify)
      /\ UNCHANGED <<unplanned, unwritten, checks>>
  BY DEF Review, GiveUp, Reject, Inv, TypeOK, Authorized
<1>2. CASE Review
  <2>1. PICK changed \in SUBSET Files :
          Finish(IF changed = {} THEN "needs-human" ELSE "completed", changed)
    BY <1>2 DEF Review
  <2>2. /\ lifecycle = "reviewing" /\ AllChecksPassed /\ Len(checks) = policy.checks
        /\ \A i \in DOMAIN checks : checks[i].after = writes
    BY <1>2 DEF Review, Inv, InStep, LifecycleAt, Checked
  <2>3. CASE changed = {}
    <3>1. End("needs-human", {}) /\ Deserved("needs-human", {})
      BY <2>1, <2>2, <2>3, Table, FinishStep DEF Deserved
    <3> QED
      BY <1>1, <3>1, EndStep DEF Terminal
  <2>4. CASE changed # {}
    <3>1. End("completed", changed) /\ Deserved("completed", changed)
      BY <2>1, <2>2, <2>4, Table, FinishStep DEF Deserved
    <3> QED
      BY <1>1, <3>1, EndStep DEF Terminal
  <2> QED
    BY <2>3, <2>4
<1>3. CASE GiveUp
  <2>1. PICK changed \in SUBSET Files : Finish("needs-human", changed)
    BY <1>3 DEF GiveUp
  <2>2. lifecycle = "verifying"
    BY <1>3 DEF GiveUp, Inv, InStep
  <2>3. End("needs-human", changed) /\ Deserved("needs-human", changed)
    BY <2>1, <2>2, Table, FinishStep DEF Deserved
  <2> QED
    BY <1>1, <2>3, EndStep DEF Terminal
<1>4. CASE Reject
  <2>1. Finish("failed", {}) /\ policy.faulty /\ at \in Awaiting
    BY <1>4 DEF Reject
  <2>2. lifecycle \in DOMAIN Allowed
    <3>1. lifecycle \in {"discovering", "understanding", "validating", "planning", "executing",
                         "verifying", "reviewing"}
      <4>1. CASE at = "giving up"
        BY <4>1 DEF Inv, InStep
      <4>2. CASE at # "giving up"
        <5>1. at \in DOMAIN LifecycleAt /\ lifecycle = LifecycleAt[at]
          BY <2>1, <4>2 DEF Inv, InStep, LifecycleAt, Awaiting
        <5>2. /\ LifecycleAt["probing"] = "discovering" /\ LifecycleAt["deciding"] = "understanding"
              /\ LifecycleAt["validating"] = "validating" /\ LifecycleAt["writing"] = "executing"
              /\ LifecycleAt["checking"] = "verifying" /\ LifecycleAt["reviewing"] = "reviewing"
              /\ LifecycleAt["replanning"] = "planning"
          BY DEF LifecycleAt
        <5>3. at \in {"probing", "deciding", "validating", "writing", "checking", "reviewing",
                      "replanning"}
          BY <2>1, <4>2 DEF Awaiting
        <5> QED
          BY <5>1, <5>2, <5>3
      <4> QED
        BY <4>1, <4>2
    <3> QED
      BY <3>1 DEF Allowed
  <2>3. End("failed", {}) /\ Deserved("failed", {})
    BY <2>1, <2>2, Table, FinishStep DEF Deserved
  <2> QED
    BY <1>1, <2>3, EndStep DEF Terminal
<1> QED
  BY <1>2, <1>3, <1>4

LEMMA NextInv == Inv /\ [Next]_vars => Inv'
<1> SUFFICES ASSUME Inv, [Next]_vars PROVE Inv'
  OBVIOUS
<1>1. CASE UNCHANGED vars
  <2>1. TypeOK'
    BY <1>1 DEF vars, Inv, TypeOK
  <2>2. InStep'
    BY <1>1 DEF vars, Inv, InStep
  <2>3. Budgeted'
    BY <1>1 DEF vars, Inv, Budgeted, Spent
  <2>4. Checked'
    BY <1>1 DEF vars, Inv, Checked, AllChecksPassed
  <2>5. Authorized' /\ NothingFailsByItself' /\ CompletedIsChecked'
    BY <1>1 DEF vars, Inv, Authorized, MayWrite, NothingFailsByItself, CompletedIsChecked
  <2> QED
    BY <2>1, <2>2, <2>3, <2>4, <2>5 DEF Inv
<1> QED
  BY <1>1, BeginStep, ProbeStep, DecideStep, ValidateStep, AuthorizeStep, WriteStep, VerifyStep,
     CheckStep, JudgeStep, ReplanStep, LateEndStep DEF Next

\* Inv is an inductive invariant.
THEOREM Invariance == Spec => []Inv
  BY InitInv, NextInv, PTL DEF Spec

\* Every variable keeps its type; the writes of all attempts together stay within their bound.
THEOREM TypeCorrect == Spec => []TypeOK
<1>1. Inv => TypeOK
  BY DEF Inv
<1> QED
  BY <1>1, Invariance, PTL

\* Without a rejected call, only a review without feedback fails.
THEOREM NoRunFailsByItself == Spec => []NothingFailsByItself
<1>1. Inv => NothingFailsByItself
  BY DEF Inv
<1> QED
  BY <1>1, Invariance, PTL

\* A run that wrote and completed had every check pass after its last write.
THEOREM CompletionIsChecked == Spec => []CompletedIsChecked
<1>1. Inv => CompletedIsChecked
  BY DEF Inv
<1> QED
  BY <1>1, Invariance, PTL

\* The agent changes no file it may not write, whatever the model proposes in whichever attempt.
THEOREM EveryWriteIsAuthorized == Spec => WritesStayAuthorized
<1> DEFINE allowed == \A f \in Files : (at = "writing" /\ files'[f] # files[f]) => MayWrite(f)
<1>1. Inv /\ [Next]_vars => [allowed]_vars
  <2> SUFFICES ASSUME Inv, Next, NEW f \in Files, at = "writing", files'[f] # files[f]
               PROVE  MayWrite(f)
    OBVIOUS
  <2>1. Write
    BY DEF Next, Begin, Probe, Decide, Validate, Authorize, Verify, Check, Judge, Verified, Review,
       Replan, GiveUp, Reject, unplanned, unwritten
  <2>2. PICK c \in todo : files' = [files EXCEPT ![c.path] = c.content]
    BY <2>1 DEF Write
  <2>3. f = c.path
    BY <2>2 DEF Inv, TypeOK
  <2> QED
    BY <2>3 DEF Inv, Authorized
<1> QED
  BY <1>1, Invariance, PTL DEF Spec, WritesStayAuthorized

-----------------------------------------------------------------------------

\* How many steps an attempt takes at most, and how many a run has left: for each attempt not begun, a
\* repair; for the attempt that runs, its changes not yet written and its checks not yet run.
Round == MaxChangedFiles + policy.checks + 4

Unbegun == (MaxAttempts - attempt) * Round

StepsToAttempt ==
  [start |-> 4, probing |-> 3, deciding |-> 2, validating |-> 1, replanning |-> 1, authorizing |-> 0]

StepsLeft ==
  IF at = "done" THEN 0
  ELSE IF at = "writing" THEN Unbegun + Cardinality(todo) + policy.checks + 3
  ELSE IF at = "checking" THEN Unbegun + (policy.checks - Len(checks)) + 2
  ELSE IF at \in {"reviewing", "giving up"} THEN Unbegun + 1
  ELSE Unbegun + Round + StepsToAttempt[at]

LEMMA Rounds ==
  ASSUME TypeOK
  PROVE  /\ Round \in Nat /\ Round = MaxChangedFiles + policy.checks + 4 /\ Unbegun \in Nat
         /\ MaxChangedFiles \in Nat /\ policy.checks \in Nat
         /\ attempt < MaxAttempts => (MaxAttempts - (attempt + 1)) * Round = Unbegun - Round
<1>1. policy.checks \in Nat /\ MaxChangedFiles \in Nat /\ MaxAttempts \in Nat /\ attempt \in 0 .. MaxAttempts
  BY Products, PolicyType DEF TypeOK
<1>2. Round \in Nat
  BY <1>1 DEF Round
<1> DEFINE n == MaxAttempts - attempt
<1>3. n \in Nat /\ MaxAttempts - (attempt + 1) = n - 1
  BY <1>1
<1>4. \A m, r \in Nat : m * r \in Nat /\ (m - 1) * r = m * r - r
  OBVIOUS
<1>5. Unbegun = n * Round
  BY DEF Unbegun
<1> HIDE DEF n
<1> QED
  BY <1>1, <1>2, <1>3, <1>4, <1>5 DEF Round

Early == DOMAIN StepsToAttempt

LEMMA Earlies ==
  /\ Early = {"start", "probing", "deciding", "validating", "replanning", "authorizing"}
  /\ StepsToAttempt["start"] = 4 /\ StepsToAttempt["probing"] = 3 /\ StepsToAttempt["deciding"] = 2
  /\ StepsToAttempt["validating"] = 1 /\ StepsToAttempt["replanning"] = 1
  /\ StepsToAttempt["authorizing"] = 0
  BY DEF Early, StepsToAttempt

\* What is left, place by place.
LEMMA StepsNow ==
  /\ at = "done" => StepsLeft = 0
  /\ at = "writing" => StepsLeft = Unbegun + Cardinality(todo) + policy.checks + 3
  /\ at = "checking" => StepsLeft = Unbegun + (policy.checks - Len(checks)) + 2
  /\ at \in {"reviewing", "giving up"} => StepsLeft = Unbegun + 1
  /\ at \in Early => StepsLeft = Unbegun + Round + StepsToAttempt[at]
  BY Earlies DEF StepsLeft

LEMMA StepsThen ==
  /\ at' = "done" => StepsLeft' = 0
  /\ at' = "writing" => StepsLeft' = Unbegun' + Cardinality(todo') + policy'.checks + 3
  /\ at' = "checking" => StepsLeft' = Unbegun' + (policy'.checks - Len(checks')) + 2
  /\ at' \in {"reviewing", "giving up"} => StepsLeft' = Unbegun' + 1
  /\ at' \in Early => StepsLeft' = Unbegun' + Round' + StepsToAttempt[at']
  BY Earlies DEF StepsLeft, StepsToAttempt

\* What is left is a number, and positive until the run is done.
LEMMA StepsType ==
  ASSUME Inv
  PROVE  StepsLeft \in Nat /\ (at # "done" => StepsLeft > 0)
<1>1. /\ Round \in Nat /\ Round > 0 /\ Unbegun \in Nat /\ policy.checks \in Nat
      /\ Len(checks) \in Nat /\ Len(checks) <= policy.checks
  BY Rounds DEF Inv, TypeOK
<1>2. at = "writing" => Cardinality(todo) \in Nat
  BY FS_CardinalityType DEF Inv, Budgeted
<1>3. at \in Early \cup {"writing", "checking", "reviewing", "giving up", "done"}
  BY Earlies DEF Inv, TypeOK, Awaiting
<1>4. \A where \in Early : StepsToAttempt[where] \in Nat
  BY Earlies
<1>5. CASE at \in Early
  <2>1. StepsLeft = Unbegun + Round + StepsToAttempt[at]
    BY <1>5, StepsNow
  <2> QED
    BY <1>1, <1>4, <1>5, <2>1
<1>6. CASE at = "writing"
  BY <1>1, <1>2, <1>6, StepsNow
<1>7. CASE at = "checking"
  BY <1>1, <1>7, StepsNow
<1>8. CASE at \in {"reviewing", "giving up"}
  <2>1. StepsLeft = Unbegun + 1
    BY <1>8, StepsNow
  <2> QED
    BY <1>1, <2>1
<1>9. CASE at = "done"
  BY <1>9, StepsNow
<1> QED
  BY <1>3, <1>5, <1>6, <1>7, <1>8, <1>9

\* The run ends, or goes on after an event.
LEMMA FinishEnds == ASSUME NEW s, NEW changed, Finish(s, changed) PROVE at' = "done"
  BY DEF Finish, End

LEMMA EmitGoesOn ==
  ASSUME NEW s, NEW where, Emit(s, where)
  PROVE  at' = "done" \/ at' = where
  BY DEF Emit, End

\* Before the first attempt.
LEMMA EarlyStepsFewer ==
  ASSUME Inv, Begin \/ Probe \/ Decide \/ Validate \/ Replan
  PROVE  StepsLeft' < StepsLeft
<1>1. StepsLeft \in Nat /\ (at # "done" => StepsLeft > 0) /\ Round \in Nat /\ Unbegun \in Nat
  BY StepsType, Rounds DEF Inv
<1>2. UNCHANGED <<policy, attempt>>
  BY DEF Begin, Probe, Decide, Validate, Replan, unplanned
<1>3. Round' = Round /\ Unbegun' = Unbegun
  BY <1>2 DEF Round, Unbegun
<1>4. \/ at # "done" /\ at' = "done"
      \/ at = "start" /\ at' = "probing"
      \/ at = "probing" /\ at' = "deciding"
      \/ at = "deciding" /\ at' = "validating"
      \/ at \in {"validating", "replanning"} /\ at' = "authorizing"
  <2>1. CASE Begin
    BY <2>1, EmitGoesOn DEF Begin, End
  <2>2. CASE Probe
    BY <2>2, EmitGoesOn DEF Probe
  <2>3. CASE Decide
    BY <2>3, EmitGoesOn DEF Decide
  <2>4. CASE Validate
    BY <2>4, EmitGoesOn, FinishEnds DEF Validate
  <2>5. CASE Replan
    BY <2>5 DEF Replan
  <2> QED
    BY <2>1, <2>2, <2>3, <2>4, <2>5
<1>5. CASE at' = "done"
  BY <1>1, <1>4, <1>5, StepsThen
<1>6. CASE at' # "done"
  <2>1. /\ at \in Early /\ at' \in Early /\ StepsToAttempt[at'] < StepsToAttempt[at]
        /\ StepsToAttempt[at'] \in Nat /\ StepsToAttempt[at] \in Nat
    BY <1>4, <1>6, Earlies
  <2>2. /\ StepsLeft = Unbegun + Round + StepsToAttempt[at]
        /\ StepsLeft' = Unbegun + Round + StepsToAttempt[at']
    BY <1>3, <2>1, StepsNow, StepsThen
  <2> QED
    BY <1>1, <2>1, <2>2
<1> QED
  BY <1>5, <1>6

LEMMA AuthorizeFewer ==
  ASSUME Inv, Authorize
  PROVE  StepsLeft' < StepsLeft
<1>1. /\ StepsLeft \in Nat /\ StepsLeft > 0 /\ Round \in Nat /\ Unbegun \in Nat
      /\ at = "authorizing" /\ StepsLeft = Unbegun + Round /\ policy' = policy
      /\ policy.checks \in Nat /\ MaxChangedFiles \in Nat
  <2>1. at = "authorizing" /\ policy' = policy /\ TypeOK
    BY DEF Authorize, Inv
  <2>2. StepsLeft = Unbegun + Round + 0
    BY <2>1, StepsNow, Earlies
  <2> QED
    BY <2>1, <2>2, StepsType, Rounds
<1>2. Round' = Round
  BY <1>1 DEF Round
<1>3. Unbegun' <= Unbegun
  <2>1. CASE attempt' = attempt
    BY <1>1, <1>2, <2>1 DEF Unbegun
  <2>2. CASE attempt = 0 /\ attempt' = attempt + 1
    <3>1. attempt < MaxAttempts
      BY <2>2, AgentAssumption
    <3> QED
      BY <1>1, <1>2, <2>2, <3>1, Rounds DEF Inv, Unbegun
  <2> QED
    BY <2>1, <2>2 DEF Authorize
<1>4. CASE at' = "done"
  BY <1>1, <1>4, StepsThen
<1>5. CASE at' # "done"
  <2>1. InScope /\ Emit("executing", "writing") /\ todo' = proposal.changes
    BY <1>5, FinishEnds DEF Authorize
  <2>2. at' = "writing" /\ Cardinality(todo') <= MaxChangedFiles
    BY <1>5, <2>1, EmitGoesOn DEF InScope
  <2>3. Cardinality(todo') \in Nat
    BY <2>1, AgentAssumption, FS_Subset, FS_CardinalityType DEF Inv, TypeOK, Changes
  <2>4. StepsLeft' = Unbegun' + Cardinality(todo') + policy.checks + 3
    BY <1>1, <2>2, StepsThen
  <2>5. Unbegun' \in Nat
    <3>1. attempt' \in 0 .. MaxAttempts
      <4>1. Inv'
        BY AuthorizeStep
      <4> QED
        BY <4>1 DEF Inv, TypeOK
    <3>2. MaxAttempts - attempt' \in Nat
      <4>1. MaxAttempts \in Nat
        BY Products
      <4>2. \A n \in 0 .. MaxAttempts : MaxAttempts - n \in Nat
        BY <4>1
      <4> QED
        BY <3>1, <4>2
    <3> QED
      BY <1>1, <1>2, <3>2 DEF Unbegun
  <2> QED
    BY <1>1, <1>3, <2>2, <2>3, <2>4, <2>5 DEF Round
<1> QED
  BY <1>4, <1>5

LEMMA WorkFewer ==
  ASSUME Inv, Write \/ Verify \/ Check
  PROVE  StepsLeft' < StepsLeft
<1>1. /\ StepsLeft \in Nat /\ Unbegun \in Nat /\ policy.checks \in Nat
      /\ Len(checks) \in Nat /\ UNCHANGED <<policy, attempt>>
  BY StepsType, Rounds, PolicyType DEF Inv, TypeOK, Write, Verify, Check, unplanned
<1>2. Unbegun' = Unbegun
  BY <1>1 DEF Round, Unbegun
<1>3. CASE Write
  <2>1. PICK c \in todo : todo' = todo \ {c}
    BY <1>3 DEF Write
  <2>2. at = "writing" /\ at' = "writing" /\ IsFiniteSet(todo)
    BY <1>3 DEF Write, Inv, Budgeted
  <2>3. Cardinality(todo') = Cardinality(todo) - 1 /\ Cardinality(todo) \in Nat
    BY <2>1, <2>2, FS_RemoveElement, FS_CardinalityType
  <2> QED
    BY <1>1, <1>2, <2>2, <2>3, StepsNow, StepsThen
<1>4. CASE Verify
  <2>1. at = "writing" /\ Cardinality(todo) = 0 /\ Len(checks') = 0 /\ at' \in {"checking", "done"}
    BY <1>4, EmitGoesOn, FS_EmptySet DEF Verify
  <2>2. StepsLeft = Unbegun + policy.checks + 3
    BY <1>1, <2>1, StepsNow
  <2>3. CASE at' = "checking"
    BY <1>1, <1>2, <2>1, <2>2, <2>3, StepsThen
  <2>4. CASE at' = "done"
    BY <1>1, <2>2, <2>4, StepsThen
  <2> QED
    BY <2>1, <2>3, <2>4
<1>5. CASE Check
  <2>1. at = "checking" /\ at' = "checking" /\ Len(checks') = Len(checks) + 1
    <3>1. PICK r : checks' = Append(checks, r)
      BY <1>5 DEF Check
    <3>2. \A S, t : checks \in Seq(S) => Len(Append(checks, t)) = Len(checks) + 1
      OBVIOUS
    <3> QED
      BY <1>5, <3>1, <3>2 DEF Check, Inv, TypeOK
  <2> QED
    BY <1>1, <1>2, <2>1, StepsNow, StepsThen
<1> QED
  BY <1>3, <1>4, <1>5

LEMMA LateFewer ==
  ASSUME Inv, Judge \/ Review \/ GiveUp \/ Reject
  PROVE  StepsLeft' < StepsLeft
<1>1. /\ StepsLeft \in Nat /\ at # "done" /\ StepsLeft > 0 /\ Unbegun \in Nat /\ Round \in Nat
      /\ policy' = policy
  BY StepsType, Rounds DEF Inv, TypeOK, Judge, Verified, Review, GiveUp, Reject, Awaiting, unplanned
<1>2. CASE at' = "done"
  BY <1>1, <1>2, StepsThen
<1>3. CASE at' # "done"
  <2>1. Judge
    BY <1>3, FinishEnds DEF Review, GiveUp, Reject
  <2>2. StepsLeft = Unbegun + 2
    <3>1. at = "checking" /\ Len(checks) = policy.checks /\ policy.checks \in Nat
      BY <2>1, PolicyType DEF Judge, Verified, Inv, TypeOK
    <3> QED
      BY <1>1, <3>1, StepsNow
  <2>3. CASE attempt' = attempt
    <3>1. at' \in {"reviewing", "giving up"}
      <4>1. attempt' # attempt + 1
        BY <2>3 DEF Inv, TypeOK
      <4> QED
        BY <1>3, <2>1, <4>1, EmitGoesOn DEF Judge
    <3>2. Unbegun' = Unbegun
      BY <1>1, <2>3 DEF Unbegun, Round
    <3>3. StepsLeft' = Unbegun + 1
      BY <3>1, <3>2, StepsThen
    <3> QED
      BY <1>1, <2>2, <3>3
  <2>4. CASE attempt' # attempt
    <3>1. attempt < MaxAttempts /\ attempt' = attempt + 1 /\ at' = "replanning"
      BY <1>3, <2>1, <2>4, EmitGoesOn DEF Judge
    <3>2. Round' = Round /\ Unbegun' = Unbegun - Round
      BY <1>1, <3>1, Rounds DEF Inv, Unbegun, Round
    <3> QED
      BY <1>1, <2>2, <3>1, <3>2, StepsThen, Earlies
  <2> QED
    BY <2>3, <2>4
<1> QED
  BY <1>2, <1>3

\* However the model answers and the checks go, each step leaves fewer: a run takes no more than
\* MaxAttempts + 1 rounds and four steps.
THEOREM RunsAreBounded ==
  /\ Spec => [](StepsLeft \in Nat)
  /\ Spec => [][StepsLeft' < StepsLeft]_vars
<1>1. Inv => StepsLeft \in Nat
  BY StepsType
<1>2. Inv /\ [Next]_vars => [StepsLeft' < StepsLeft]_vars
  BY EarlyStepsFewer, AuthorizeFewer, WorkFewer, LateFewer DEF Next
<1> QED
  BY <1>1, <1>2, Invariance, PTL DEF Spec

=============================================================================
