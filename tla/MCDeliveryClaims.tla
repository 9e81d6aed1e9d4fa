--------------------------- MODULE MCDeliveryClaims ---------------------------
(***************************************************************************)
(* Four attempts at one delivery, on both kinds of storage: enough for a   *)
(* winner, a contender that overwrites its register, one that is stalled   *)
(* in front of an open door and one that retries after a release.          *)
(***************************************************************************)
EXTENDS DeliveryClaims

CONSTANTS a1, a2, a3, a4
=============================================================================
