----------------------------- MODULE MCOverview -----------------------------
(***************************************************************************)
(* A page of each of two accounts and two more streams than pages, so that *)
(* connections the server has not seen break fill the limits.              *)
(***************************************************************************)
EXTENDS Overview

CONSTANTS b1, b2, u1, u2, s1, s2, s3

MCUserOf == [b \in {b1, b2} |-> IF b = b1 THEN u1 ELSE u2]
=============================================================================
