----------------------------- MODULE MCRunnerPool -----------------------------
(***************************************************************************)
(* Three acquires, two of them for one repository, and a pool of two       *)
(* sandboxes of which a repository may hold one.                           *)
(***************************************************************************)
EXTENDS RunnerPool

CONSTANTS c1, c2, c3, ra, rb

MCRepositoryOf == [c \in Calls |-> IF c = c3 THEN rb ELSE ra]
=============================================================================
