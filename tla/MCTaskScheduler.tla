--------------------------- MODULE MCTaskScheduler ---------------------------
(***************************************************************************)
(* Six jobs of two repositories.  Organization g1 started the jobs of      *)
(* repository ra and b1; b2 belongs to no organization.  a4 and b1 were    *)
(* submitted after the deployment's limit was raised from two to three,    *)
(* b1 after its organization lowered its own to one, and b2 while the      *)
(* deployment's was one.                                                   *)
(***************************************************************************)
EXTENDS TaskScheduler

CONSTANTS a1, a2, a3, a4, b1, b2, ra, rb, g1

OfA == {a1, a2, a3, a4}

MCJobs == OfA \cup {b1, b2}
MCRepositoryOf == [j \in MCJobs |-> IF j \in OfA THEN ra ELSE rb]
MCGroupOf == [j \in MCJobs |-> IF j = b2 THEN NoGroup ELSE g1]
MCJobMaxConcurrent ==
  [j \in MCJobs |-> CASE j = b2 -> 1 [] j \in {a4, b1} -> 3 [] OTHER -> 0]
MCGroupMaxConcurrent == [j \in MCJobs |-> IF j = b1 THEN 1 ELSE 2]
=============================================================================
