------------------------------ MODULE MCAgentRun ------------------------------
(***************************************************************************)
(* A checkout of a source file, a document and a test; one repair; up to   *)
(* three changes in a proposal, of which two are allowed.                  *)
(***************************************************************************)
EXTENDS AgentRun

CONSTANTS src, doc, test, old, new

MCCommitted == [f \in {src, doc, test} |-> IF f = doc THEN Absent ELSE old]

Policy(trigger, mayModify, open, known, allowed, n, faulty) ==
  [trigger |-> trigger, mayModify |-> mayModify, open |-> open, known |-> known,
   allowed |-> allowed, checks |-> n, faulty |-> faulty]

Both == {"mechanical", "behavioral"}

\* A policy that lets the run write, and those that differ from it in one respect.
MCPolicies ==
  {Policy("feedback", TRUE, TRUE, TRUE, Both, 2, FALSE),
   Policy("proactive", TRUE, TRUE, TRUE, Both, 1, FALSE),
   Policy("empty", TRUE, TRUE, TRUE, Both, 1, FALSE),
   Policy("feedback", FALSE, TRUE, TRUE, Both, 1, FALSE),
   Policy("feedback", TRUE, FALSE, TRUE, Both, 1, FALSE),
   Policy("feedback", TRUE, TRUE, FALSE, Both, 1, FALSE),
   Policy("feedback", TRUE, TRUE, TRUE, {"mechanical"}, 1, FALSE),
   Policy("feedback", TRUE, TRUE, TRUE, Both, 0, FALSE),
   Policy("feedback", TRUE, TRUE, TRUE, Both, 1, TRUE)}

MCClean == {Policy("feedback", TRUE, TRUE, TRUE, Both, 1, FALSE)}
=============================================================================
