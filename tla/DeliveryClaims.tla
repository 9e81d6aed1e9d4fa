---------------------------- MODULE DeliveryClaims ----------------------------
(***************************************************************************)
(* The durable delivery claims of packages/api/src/control-plane.ts, class *)
(* PersistentDeliveryClaimStore, for one delivery key.                     *)
(*                                                                         *)
(* A member of Attempts is one claim() call and, when it is granted, the   *)
(* complete() or release() its caller makes afterwards.  Attempts come     *)
(* from any process: what they share is the storage, one marker and one    *)
(* contender register per key.  Every storage call is one action, since    *)
(* anything may happen between two of them.  The storage is taken to be    *)
(* linearizable for each key.                                              *)
(***************************************************************************)
EXTENDS Naturals, FiniteSets

CONSTANTS
  Attempts,
  None,       \* the register without a contender, the answer without an outcome
  Absent,     \* no marker is stored
  Drivers     \* the kinds of storage considered: "conditional" has setItemIfAbsent, "plain" has not

ASSUME ClaimsAssumption ==
  /\ None \notin Attempts
  /\ Absent \notin Attempts
  /\ None # Absent
  /\ Drivers \subseteq {"conditional", "plain"}

VARIABLES
  driver,      \* the storage of this deployment; never changes
  contender,   \* the register: the token of the last contender
  marker,      \* Absent, None while unfinished, or the attempt whose outcome it records
  stage,       \* how far each attempt is
  answer       \* the outcome an attempt that was not granted reports

vars == <<driver, contender, marker, stage, answer>>

\* "abandoned": a claim that was granted and will be neither completed nor released, because the
\* process died or the storage refused the write; its marker stands.
\* "gone": the process died before claim() answered.
Stages == {"idle", "registered", "open", "closed", "behind", "declined", "gone",
           "owner", "completed", "releasing", "released", "abandoned"}

TypeOK ==
  /\ driver \in Drivers
  /\ contender \in Attempts \cup {None}
  /\ marker \in Attempts \cup {None, Absent}
  /\ stage \in [Attempts -> Stages]
  /\ answer \in [Attempts -> Attempts \cup {None}]

-----------------------------------------------------------------------------

Init ==
  /\ driver \in Drivers
  /\ contender = None
  /\ marker = Absent
  /\ stage = [a \in Attempts |-> "idle"]
  /\ answer = [a \in Attempts |-> None]

MoveTo(a, from, to) ==
  /\ stage[a] = from
  /\ stage' = [stage EXCEPT ![a] = to]

\* claim() with a conditional create, which either creates the marker or does nothing.
CreateIfAbsent(a) ==
  /\ driver = "conditional"
  /\ IF marker = Absent
       THEN MoveTo(a, "idle", "owner") /\ marker' = None
       ELSE MoveTo(a, "idle", "behind") /\ UNCHANGED marker
  /\ UNCHANGED <<driver, contender, answer>>

\* claim() without one.  First the contender's own token goes into the register.
Register(a) ==
  /\ driver = "plain"
  /\ MoveTo(a, "idle", "registered")
  /\ contender' = a
  /\ UNCHANGED <<driver, marker, answer>>

\* Mutant: an unfinished claim does not count as a closed door.
CheckDoorOutcomeOnly(a) ==
  /\ IF marker \in {Absent, None}
       THEN MoveTo(a, "registered", "open") /\ UNCHANGED answer
       ELSE /\ MoveTo(a, "registered", "declined")
            /\ answer' = [answer EXCEPT ![a] = marker]
  /\ UNCHANGED <<driver, contender, marker>>

\* Then an existing marker is a closed door, and its outcome the answer.
CheckDoor(a) ==
  /\ IF marker = Absent
       THEN MoveTo(a, "registered", "open") /\ UNCHANGED answer
       ELSE /\ MoveTo(a, "registered", "declined")
            /\ answer' = [answer EXCEPT ![a] = marker]
  /\ UNCHANGED <<driver, contender, marker>>

\* Then the marker is written, whatever has been written there since.
CloseDoor(a) ==
  /\ MoveTo(a, "open", "closed")
  /\ marker' = None
  /\ UNCHANGED <<driver, contender, answer>>

\* Mutant: the marker is written and trusted; the register is never read back.
ReadBackNothing(a) ==
  /\ MoveTo(a, "closed", "owner")
  /\ UNCHANGED <<driver, contender, marker, answer>>

\* Mutant: the token does not compare equal to what the storage gives back.
ReadBackNeverOwn(a) ==
  /\ MoveTo(a, "closed", "behind")
  /\ UNCHANGED <<driver, contender, marker, answer>>

\* Last, the register tells whether another contender came after.
ReadBack(a) ==
  /\ MoveTo(a, "closed", IF contender = a THEN "owner" ELSE "behind")
  /\ UNCHANGED <<driver, contender, marker, answer>>

\* Mutant: an absent marker is answered as it was read.
ReadOutcomeRaw(a) ==
  /\ MoveTo(a, "behind", "declined")
  /\ answer' = [answer EXCEPT ![a] = marker]
  /\ UNCHANGED <<driver, contender, marker>>

\* recordedOutcome(): what an attempt that lost reports of the standing claim.
ReadOutcome(a) ==
  /\ MoveTo(a, "behind", "declined")
  /\ answer' = [answer EXCEPT ![a] = IF marker = Absent THEN None ELSE marker]
  /\ UNCHANGED <<driver, contender, marker>>

\* complete(): the outcome overwrites the marker.
Complete(a) ==
  /\ MoveTo(a, "owner", "completed")
  /\ marker' = a
  /\ UNCHANGED <<driver, contender, answer>>

\* release(): the register goes first,
ReleaseRegister(a) ==
  /\ MoveTo(a, "owner", "releasing")
  /\ contender' = None
  /\ UNCHANGED <<driver, marker, answer>>

\* Mutant: the marker stays.
ReleaseMarkerKept(a) ==
  /\ MoveTo(a, "releasing", "released")
  /\ UNCHANGED <<driver, contender, marker, answer>>

\* and the marker second.
ReleaseMarker(a) ==
  /\ MoveTo(a, "releasing", "released")
  /\ marker' = Absent
  /\ UNCHANGED <<driver, contender, answer>>

\* The process dies between two storage calls, or the storage rejects the next one.
Abandon(a) ==
  /\ \/ /\ stage[a] \in {"registered", "open", "closed", "behind"}
        /\ stage' = [stage EXCEPT ![a] = "gone"]
     \/ /\ stage[a] \in {"owner", "releasing"}
        /\ stage' = [stage EXCEPT ![a] = "abandoned"]
  /\ UNCHANGED <<driver, contender, marker, answer>>

Next ==
  \E a \in Attempts :
    \/ CreateIfAbsent(a) \/ Register(a) \/ CheckDoor(a) \/ CloseDoor(a) \/ ReadBack(a)
    \/ ReadOutcome(a) \/ Complete(a) \/ ReleaseRegister(a) \/ ReleaseMarker(a) \/ Abandon(a)

Spec == Init /\ [][Next]_vars

-----------------------------------------------------------------------------

\* The attempts whose claim stands: their caller works, has worked, or died at it.
Holders == {a \in Attempts : stage[a] \in {"owner", "completed", "releasing", "abandoned"}}

\* Two contenders can never both win (control-plane.ts:150-154): a delivery is worked on once,
\* except again after its holder released it.
AtMostOneHolder == \A a, b \in Holders : a = b

\* The door stays closed as long as somebody holds the claim: nobody's release, retry or crash opens
\* it under a holder.
ClosedWhileHeld == Holders # {} => marker # Absent

\* With a conditional create the marker says exactly whether the claim is held, so a released claim
\* can be taken again; without one it may be left standing by contenders that all lost.
MarkerTellsConditional == driver = "conditional" => (marker # Absent <=> Holders # {})

\* An outcome that is recorded, or that was answered, is one its holder did record.
OutcomesAreRecorded ==
  \A a \in Attempts : (marker = a \/ \E b \in Attempts : answer[b] = a) => stage[a] = "completed"

\* The marker, all that later deliveries go by, tells the truth about the claim.
MarkerTruthful == ClosedWhileHeld /\ MarkerTellsConditional /\ OutcomesAreRecorded

\* Between two storage calls of claim() or release(); complete() is a single one.
Inside(a) == stage[a] \in {"registered", "open", "closed", "behind", "releasing"}

Overlapping == \E a, b \in Attempts : a # b /\ Inside(a) /\ Inside(b)

\* One call at a time, and none cut short before claim() has answered.
OneByOne == ~Overlapping /\ \A a \in Attempts : stage[a] # "gone"

\* The marker stands for a claim that is held or about to be granted, and no splitter is lost.
Exact ==
  /\ marker # Absent => \E a \in Attempts : a \in Holders \/ stage[a] = "closed"
  /\ driver = "plain" => \A a \in Attempts : stage[a] # "behind"

\* A marker may stand for nobody only once calls have overlapped or a process died inside claim().
\* As long as claims and releases come one after the other, a released delivery can be claimed again,
\* on either driver.  One retry beside one release is enough to lose that: the release takes the
\* register from a contender that has yet to look at the door, opens the door for it, and leaves it to
\* lose (control-plane.ts:157-163, 175-179).
ExactUnlessOverlapping == []OneByOne => []Exact

\* "Record the delivery's final outcome under this caller's claim so redeliveries replay it"
\* (control-plane.ts:109), on any storage.
OutcomeStands == [][(marker \in Attempts) => (marker' = marker)]_vars

\* Who works under the claim, and who may still be granted it.
Working == {a \in Attempts : stage[a] \in {"owner", "releasing"}}
MayWin == {a \in Attempts : stage[a] \in {"open", "closed"} /\ contender = a}

\* The claim as its callers see it.  A marker that its writer may still win is not standing yet; one
\* that nobody works under and nobody may win is (None).
TheClaim ==
  IF Working # {} THEN CHOOSE a \in Working : TRUE
  ELSE IF marker # Absent /\ MayWin = {} THEN None ELSE Absent

Outcome == IF marker \in Attempts THEN marker ELSE None

\* The store implements the exclusive claim it promises.
Claim ==
  INSTANCE ExclusiveClaim WITH
    Claimants <- Attempts, Outcomes <- Attempts, Free <- Absent, Standing <- None,
    conditional <- (driver = "conditional"), claim <- TheClaim, outcome <- Outcome

ImplementsExclusiveClaim == Claim!Spec

=============================================================================
