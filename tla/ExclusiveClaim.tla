---------------------------- MODULE ExclusiveClaim ----------------------------
(***************************************************************************)
(* What DeliveryClaimStore promises its callers about one delivery key     *)
(* (packages/api/src/control-plane.ts:99-113): a claim is granted to one   *)
(* claimant at a time; only its holder ends it; and once it is neither     *)
(* free nor given back, the marker that stands refuses every later         *)
(* claimant for good.  A storage with a conditional create promises more:  *)
(* only claimants make a marker stand, and a recorded outcome is never     *)
(* lost.                                                                   *)
(***************************************************************************)
CONSTANTS
  Claimants,
  Outcomes,
  Free,      \* nobody holds the claim, and it may be granted
  Standing,  \* nobody holds the claim, and it is never granted again
  None       \* no outcome is recorded

VARIABLES
  conditional,  \* whether the storage has a conditional create
  claim,        \* Free, Standing, or the claimant that holds it
  outcome       \* what the store answers to those it refuses

Init ==
  /\ conditional \in BOOLEAN
  /\ claim = Free
  /\ outcome = None

Take(a) ==
  /\ claim = Free
  /\ claim' = a
  /\ UNCHANGED <<conditional, outcome>>

GiveBack(a) ==
  /\ claim = a
  /\ claim' = Free
  /\ UNCHANGED <<conditional, outcome>>

Record(a, o) ==
  /\ claim = a
  /\ claim' = Standing
  /\ outcome' = o
  /\ UNCHANGED conditional

\* The holder dies, or its outcome or its release cannot be written.
Lose(a) ==
  /\ claim = a
  /\ claim' = Standing
  /\ UNCHANGED <<conditional, outcome>>

\* Contenders that disturb each other may all lose.
Spoil ==
  /\ ~conditional
  /\ claim = Free
  /\ claim' = Standing
  /\ UNCHANGED <<conditional, outcome>>

\* A contender writes its empty marker over the one that stands.
Forget ==
  /\ ~conditional
  /\ claim = Standing
  /\ outcome' = None
  /\ UNCHANGED <<conditional, claim>>

Next ==
  \/ \E a \in Claimants :
       Take(a) \/ GiveBack(a) \/ Lose(a) \/ \E o \in Outcomes : Record(a, o)
  \/ Spoil \/ Forget

Spec == Init /\ [][Next]_<<conditional, claim, outcome>>

=============================================================================
