------------------------- MODULE DeliveryClaimsProofs -------------------------
(***************************************************************************)
(* Proofs about DeliveryClaims, for any set of attempts and either kind of *)
(* storage: the claim is exclusive, its door stays closed while it is held, *)
(* calls that do not overlap leave no marker behind, what is answered was  *)
(* recorded, and the store implements ExclusiveClaim.                      *)
(*                                                                         *)
(* The argument is the splitter's.  A contender that found the door open   *)
(* and is still the last one in the register excludes every holder         *)
(* (NobodyAhead): a holder was the last one itself when it read back, and  *)
(* from then on the door it closed stays closed.                           *)
(***************************************************************************)
EXTENDS DeliveryClaims, TLAPS

\* The stages of a contender that found the door open and has not read its register back.
Past == {"open", "closed"}

Held == {"owner", "completed", "releasing", "abandoned"}

\* While the claim is held, no contender past the door is the last one in the register.
NobodyAhead == Holders # {} => \A b \in Attempts : stage[b] \in Past => contender # b

\* A contender that closed the door and is still the last one finds its marker standing.
OwnMarkerStands == \A b \in Attempts : stage[b] = "closed" /\ contender = b => marker # Absent

\* A store with a conditional create never runs the splitter.
NoSplitter ==
  driver = "conditional" => \A b \in Attempts : stage[b] \notin {"registered", "open", "closed"}

Inv ==
  /\ TypeOK
  /\ AtMostOneHolder
  /\ ClosedWhileHeld
  /\ NobodyAhead
  /\ OwnMarkerStands
  /\ NoSplitter

LEMMA InitInv == Init => Inv
<1> SUFFICES ASSUME Init PROVE Inv
  OBVIOUS
<1>1. TypeOK
  BY DEF Init, TypeOK, Stages
<1>2. Holders = {}
  BY DEF Init, Holders
<1>3. OwnMarkerStands /\ NoSplitter
  BY DEF Init, OwnMarkerStands, NoSplitter
<1> QED
  BY <1>1, <1>2, <1>3 DEF Inv, AtMostOneHolder, ClosedWhileHeld, NobodyAhead

\* A step of one attempt that neither makes it a holder nor ends its claim leaves the holders alone.
LEMMA SameHolders ==
  ASSUME TypeOK, NEW a \in Attempts, NEW to,
         stage' = [stage EXCEPT ![a] = to],
         stage[a] \in Held <=> to \in Held
  PROVE  Holders' = Holders
  BY DEF TypeOK, Holders, Held

LEMMA NewHolder ==
  ASSUME TypeOK, NEW a \in Attempts, stage' = [stage EXCEPT ![a] = "owner"]
  PROVE  Holders' = Holders \cup {a}
  BY DEF TypeOK, Holders

LEMMA HolderGone ==
  ASSUME TypeOK, NEW a \in Attempts, stage' = [stage EXCEPT ![a] = "released"]
  PROVE  Holders' = Holders \ {a}
  BY DEF TypeOK, Holders

LEMMA NextType == TypeOK /\ [Next]_vars => TypeOK'
<1> SUFFICES ASSUME TypeOK, [Next]_vars PROVE TypeOK'
  OBVIOUS
<1> USE DEF TypeOK, Stages, MoveTo
<1>1. CASE UNCHANGED vars
  BY <1>1 DEF vars
<1>2. ASSUME NEW a \in Attempts, CreateIfAbsent(a) \/ Register(a) PROVE TypeOK'
  BY <1>2 DEF CreateIfAbsent, Register
<1>3. ASSUME NEW a \in Attempts, CheckDoor(a) PROVE TypeOK'
  BY <1>3 DEF CheckDoor
<1>4. ASSUME NEW a \in Attempts, CloseDoor(a) \/ ReadBack(a) \/ ReadOutcome(a) PROVE TypeOK'
  BY <1>4 DEF CloseDoor, ReadBack, ReadOutcome
<1>5. ASSUME NEW a \in Attempts,
             Complete(a) \/ ReleaseRegister(a) \/ ReleaseMarker(a) \/ Abandon(a)
      PROVE  TypeOK'
  BY <1>5 DEF Complete, ReleaseRegister, ReleaseMarker, Abandon
<1> QED
  BY <1>1, <1>2, <1>3, <1>4, <1>5 DEF Next

LEMMA NextInv == Inv /\ [Next]_vars => Inv'
<1> SUFFICES ASSUME Inv, [Next]_vars PROVE Inv'
  OBVIOUS
<1>0. TypeOK /\ TypeOK'
  BY NextType DEF Inv
<1>1. CASE UNCHANGED vars
  BY <1>1 DEF vars, Inv, TypeOK, AtMostOneHolder, ClosedWhileHeld, NobodyAhead, OwnMarkerStands,
              NoSplitter, Holders
<1>2. ASSUME NEW a \in Attempts, CreateIfAbsent(a) PROVE Inv'
  <2>1. driver = "conditional" /\ driver' = driver /\ contender' = contender
    BY <1>2 DEF CreateIfAbsent
  <2>2. NoSplitter' /\ OwnMarkerStands'
    BY <1>0, <1>2, <2>1 DEF CreateIfAbsent, MoveTo, Inv, NoSplitter, OwnMarkerStands, TypeOK
  <2>3. NobodyAhead'
    BY <2>1, <2>2 DEF NobodyAhead, NoSplitter, Past
  <2>4. CASE marker = Absent
    <3>1. Holders = {}
      BY <2>4 DEF Inv, ClosedWhileHeld
    <3>2. Holders' = {a} /\ marker' = None
      BY <1>0, <1>2, <2>4, <3>1, NewHolder DEF CreateIfAbsent, MoveTo
    <3> QED
      BY <1>0, <2>2, <2>3, <3>2, ClaimsAssumption DEF Inv, AtMostOneHolder, ClosedWhileHeld
  <2>5. CASE marker # Absent
    <3>1. Holders' = Holders /\ marker' = marker
      BY <1>0, <1>2, <2>5, SameHolders DEF CreateIfAbsent, MoveTo, Held
    <3> QED
      BY <1>0, <2>2, <2>3, <3>1 DEF Inv, AtMostOneHolder, ClosedWhileHeld
  <2> QED
    BY <2>4, <2>5
<1>3. ASSUME NEW a \in Attempts, Register(a) PROVE Inv'
  <2>1. Holders' = Holders
    BY <1>0, <1>3, SameHolders DEF Register, MoveTo, Held
  <2>2. NobodyAhead'
    BY <1>0, <1>3, <2>1 DEF Register, MoveTo, Inv, NobodyAhead, Past, TypeOK
  <2>3. OwnMarkerStands' /\ NoSplitter'
    BY <1>0, <1>3 DEF Register, MoveTo, Inv, OwnMarkerStands, NoSplitter, TypeOK
  <2> QED
    BY <1>0, <1>3, <2>1, <2>2, <2>3 DEF Register, Inv, AtMostOneHolder, ClosedWhileHeld
<1>4. ASSUME NEW a \in Attempts, CheckDoor(a) PROVE Inv'
  <2>1. Holders' = Holders
    BY <1>0, <1>4, SameHolders DEF CheckDoor, MoveTo, Held
  <2>2. NobodyAhead'
    <3>1. CASE marker = Absent
      BY <2>1, <3>1 DEF Inv, ClosedWhileHeld, NobodyAhead
    <3>2. CASE marker # Absent
      BY <1>0, <1>4, <2>1, <3>2 DEF CheckDoor, MoveTo, Inv, NobodyAhead, Past, TypeOK
    <3> QED
      BY <3>1, <3>2
  <2>3. OwnMarkerStands' /\ NoSplitter'
    BY <1>0, <1>4 DEF CheckDoor, MoveTo, Inv, OwnMarkerStands, NoSplitter, TypeOK
  <2> QED
    BY <1>0, <1>4, <2>1, <2>2, <2>3 DEF CheckDoor, Inv, AtMostOneHolder, ClosedWhileHeld
<1>5. ASSUME NEW a \in Attempts, CloseDoor(a) PROVE Inv'
  <2>1. Holders' = Holders
    BY <1>0, <1>5, SameHolders DEF CloseDoor, MoveTo, Held
  <2>2. NobodyAhead'
    BY <1>0, <1>5, <2>1 DEF CloseDoor, MoveTo, Inv, NobodyAhead, Past, TypeOK
  <2>3. marker' # Absent /\ NoSplitter'
    BY <1>0, <1>5, ClaimsAssumption DEF CloseDoor, MoveTo, Inv, NoSplitter, TypeOK
  <2> QED
    BY <1>0, <2>1, <2>2, <2>3 DEF Inv, AtMostOneHolder, ClosedWhileHeld, OwnMarkerStands
<1>6. ASSUME NEW a \in Attempts, ReadBack(a) PROVE Inv'
  <2>1. UNCHANGED <<driver, contender, marker>>
    BY <1>6 DEF ReadBack
  <2>2. OwnMarkerStands' /\ NoSplitter'
    BY <1>0, <1>6 DEF ReadBack, MoveTo, Inv, OwnMarkerStands, NoSplitter, TypeOK
  <2>3. CASE contender = a
    <3>1. Holders = {} /\ marker # Absent
      BY <1>6, <2>3 DEF ReadBack, MoveTo, Inv, NobodyAhead, OwnMarkerStands, Past
    <3>2. Holders' = {a}
      BY <1>0, <1>6, <2>3, <3>1, NewHolder DEF ReadBack, MoveTo
    <3>3. NobodyAhead'
      BY <1>0, <1>6, <2>3 DEF ReadBack, MoveTo, NobodyAhead, Past, TypeOK
    <3> QED
      BY <1>0, <2>1, <2>2, <3>1, <3>2, <3>3 DEF Inv, AtMostOneHolder, ClosedWhileHeld
  <2>4. CASE contender # a
    <3>1. Holders' = Holders
      BY <1>0, <1>6, <2>4, SameHolders DEF ReadBack, MoveTo, Held
    <3>2. NobodyAhead'
      BY <1>0, <1>6, <2>4, <3>1 DEF ReadBack, MoveTo, Inv, NobodyAhead, Past, TypeOK
    <3> QED
      BY <1>0, <2>1, <2>2, <3>1, <3>2 DEF Inv, AtMostOneHolder, ClosedWhileHeld
  <2> QED
    BY <2>3, <2>4
<1>7. ASSUME NEW a \in Attempts, ReadOutcome(a) PROVE Inv'
  <2>1. Holders' = Holders
    BY <1>0, <1>7, SameHolders DEF ReadOutcome, MoveTo, Held
  <2>2. NobodyAhead' /\ OwnMarkerStands' /\ NoSplitter'
    BY <1>0, <1>7, <2>1
    DEF ReadOutcome, MoveTo, Inv, NobodyAhead, OwnMarkerStands, NoSplitter, Past, TypeOK
  <2> QED
    BY <1>0, <1>7, <2>1, <2>2 DEF ReadOutcome, Inv, AtMostOneHolder, ClosedWhileHeld
<1>8. ASSUME NEW a \in Attempts, Complete(a) PROVE Inv'
  <2>1. Holders' = Holders /\ marker' # Absent
    BY <1>0, <1>8, SameHolders, ClaimsAssumption DEF Complete, MoveTo, Held
  <2>2. NobodyAhead' /\ NoSplitter'
    BY <1>0, <1>8, <2>1 DEF Complete, MoveTo, Inv, NobodyAhead, NoSplitter, Past, TypeOK
  <2> QED
    BY <1>0, <2>1, <2>2 DEF Inv, AtMostOneHolder, ClosedWhileHeld, OwnMarkerStands
<1>9. ASSUME NEW a \in Attempts, ReleaseRegister(a) PROVE Inv'
  <2>1. Holders' = Holders
    BY <1>0, <1>9, SameHolders DEF ReleaseRegister, MoveTo, Held
  <2>2. NobodyAhead' /\ OwnMarkerStands' /\ NoSplitter'
    BY <1>0, <1>9, ClaimsAssumption
    DEF ReleaseRegister, MoveTo, Inv, NobodyAhead, OwnMarkerStands, NoSplitter, Past, TypeOK
  <2> QED
    BY <1>0, <1>9, <2>1, <2>2 DEF ReleaseRegister, Inv, AtMostOneHolder, ClosedWhileHeld
<1>10. ASSUME NEW a \in Attempts, ReleaseMarker(a) PROVE Inv'
  \* The releasing attempt was the only holder, so the door it opens protected nobody else.
  <2>1. a \in Holders
    BY <1>10 DEF ReleaseMarker, MoveTo, Holders
  <2>2. Holders' = {}
    BY <1>0, <1>10, <2>1, HolderGone DEF ReleaseMarker, MoveTo, Inv, AtMostOneHolder
  <2>3. OwnMarkerStands'
    BY <1>0, <1>10, <2>1
    DEF ReleaseMarker, MoveTo, Inv, OwnMarkerStands, NobodyAhead, Past, TypeOK
  <2>4. NoSplitter'
    BY <1>0, <1>10 DEF ReleaseMarker, MoveTo, Inv, NoSplitter, TypeOK
  <2> QED
    BY <1>0, <2>2, <2>3, <2>4 DEF Inv, AtMostOneHolder, ClosedWhileHeld, NobodyAhead
<1>11. ASSUME NEW a \in Attempts, Abandon(a) PROVE Inv'
  <2>1. Holders' = Holders
    BY <1>0, <1>11, SameHolders DEF Abandon, Held
  <2>2. NobodyAhead' /\ OwnMarkerStands' /\ NoSplitter'
    BY <1>0, <1>11, <2>1
    DEF Abandon, Inv, NobodyAhead, OwnMarkerStands, NoSplitter, Past, TypeOK
  <2> QED
    BY <1>0, <1>11, <2>1, <2>2 DEF Abandon, Inv, AtMostOneHolder, ClosedWhileHeld
<1> QED
  BY <1>1, <1>2, <1>3, <1>4, <1>5, <1>6, <1>7, <1>8, <1>9, <1>10, <1>11 DEF Next

LEMMA SpecInv == Spec => []Inv
  BY InitInv, NextInv, PTL DEF Spec

\* Every variable of the claim store keeps its type.
THEOREM TypeCorrect == Spec => []TypeOK
<1>1. Inv => TypeOK
  BY DEF Inv
<1> QED
  BY <1>1, SpecInv, PTL

\* Two contenders never both win, however many there are and however their storage calls interleave.
THEOREM Exclusive == Spec => []AtMostOneHolder
<1>1. Inv => AtMostOneHolder
  BY DEF Inv
<1> QED
  BY <1>1, SpecInv, PTL

LEMMA MarkerStep == Inv /\ MarkerTellsConditional /\ [Next]_vars => MarkerTellsConditional'
<1> SUFFICES ASSUME Inv, MarkerTellsConditional, [Next]_vars, driver' = "conditional",
                    Inv', marker' # Absent
             PROVE  Holders' # {}
  BY NextInv DEF Inv, ClosedWhileHeld, MarkerTellsConditional
<1>0. TypeOK /\ NoSplitter
  BY DEF Inv
<1>1. driver = "conditional"
  BY DEF Next, vars, CreateIfAbsent, Register, CheckDoor, CloseDoor, ReadBack, ReadOutcome, Complete,
         ReleaseRegister, ReleaseMarker, Abandon
<1>2. CASE UNCHANGED vars
  BY <1>1, <1>2 DEF vars, Holders, MarkerTellsConditional
<1>3. ASSUME NEW a \in Attempts, CreateIfAbsent(a) PROVE Holders' # {}
  <2>1. CASE marker = Absent
    BY <1>0, <1>3, <2>1, NewHolder DEF CreateIfAbsent, MoveTo
  <2>2. CASE marker # Absent
    <3>1. Holders' = Holders
      BY <1>0, <1>3, <2>2, SameHolders DEF CreateIfAbsent, MoveTo, Held
    <3> QED
      BY <1>1, <2>2, <3>1 DEF MarkerTellsConditional
  <2> QED
    BY <2>1, <2>2
<1>4. ASSUME NEW a \in Attempts, Register(a) \/ CheckDoor(a) \/ CloseDoor(a) \/ ReadBack(a)
      PROVE  FALSE
  BY <1>0, <1>1, <1>4 DEF Register, CheckDoor, CloseDoor, ReadBack, MoveTo, NoSplitter
<1>5. ASSUME NEW a \in Attempts, Complete(a) PROVE Holders' # {}
  BY <1>0, <1>5 DEF Complete, MoveTo, Holders, TypeOK
<1>6. ASSUME NEW a \in Attempts, ReadOutcome(a) \/ ReleaseRegister(a) \/ Abandon(a)
      PROVE  Holders' # {}
  <2>1. Holders' = Holders /\ marker' = marker
    BY <1>0, <1>6, SameHolders DEF ReadOutcome, ReleaseRegister, Abandon, MoveTo, Held
  <2> QED
    BY <1>1, <2>1 DEF MarkerTellsConditional
<1>7. ASSUME NEW a \in Attempts, ReleaseMarker(a) PROVE FALSE
  BY <1>7 DEF ReleaseMarker
<1> QED
  BY <1>2, <1>3, <1>4, <1>5, <1>6, <1>7 DEF Next

\* Only the holder writes itself into the marker, and "completed" is never left.
LEMMA OutcomesStep == TypeOK /\ OutcomesAreRecorded /\ [Next]_vars => OutcomesAreRecorded'
<1> SUFFICES ASSUME TypeOK, OutcomesAreRecorded, [Next]_vars PROVE OutcomesAreRecorded'
  OBVIOUS
<1> USE DEF TypeOK, OutcomesAreRecorded, MoveTo
<1>1. CASE UNCHANGED vars
  BY <1>1 DEF vars
<1>2. ASSUME NEW a \in Attempts, CreateIfAbsent(a) \/ Register(a) \/ CloseDoor(a) \/ ReadBack(a)
      PROVE  OutcomesAreRecorded'
  BY <1>2, ClaimsAssumption DEF CreateIfAbsent, Register, CloseDoor, ReadBack
<1>3. ASSUME NEW a \in Attempts, CheckDoor(a) PROVE OutcomesAreRecorded'
  BY <1>3, ClaimsAssumption DEF CheckDoor
<1>4. ASSUME NEW a \in Attempts, ReadOutcome(a) PROVE OutcomesAreRecorded'
  BY <1>4, ClaimsAssumption DEF ReadOutcome
<1>5. ASSUME NEW a \in Attempts, Complete(a) PROVE OutcomesAreRecorded'
  BY <1>5 DEF Complete
<1>6. ASSUME NEW a \in Attempts, ReleaseRegister(a) \/ ReleaseMarker(a) \/ Abandon(a)
      PROVE  OutcomesAreRecorded'
  BY <1>6, ClaimsAssumption DEF ReleaseRegister, ReleaseMarker, Abandon
<1> QED
  BY <1>1, <1>2, <1>3, <1>4, <1>5, <1>6 DEF Next

LEMMA SpecTruth == Spec => [](Inv /\ MarkerTellsConditional /\ OutcomesAreRecorded)
<1>1. Init => MarkerTellsConditional /\ OutcomesAreRecorded
  BY ClaimsAssumption DEF Init, MarkerTellsConditional, OutcomesAreRecorded, Holders
<1>2. Inv => TypeOK
  BY DEF Inv
<1> QED
  BY <1>1, <1>2, MarkerStep, OutcomesStep, SpecInv, PTL DEF Spec

\* The marker stands as long as somebody holds the claim, a holder that died included; where it is
\* created conditionally, it stands for nobody else; and an outcome is only ever its holder's.
THEOREM MarkerIsTruthful == Spec => []MarkerTruthful
<1>1. Inv /\ MarkerTellsConditional /\ OutcomesAreRecorded => MarkerTruthful
  BY DEF Inv, MarkerTruthful
<1> QED
  BY <1>1, SpecTruth, PTL

\* While calls come one by one, a contender is the last one in the register, an open door is one no
\* marker stands in, and a marker has somebody behind it.
InOrder ==
  driver = "plain" =>
    /\ marker # Absent => \E a \in Attempts : stage[a] \in Held \cup {"closed"}
    /\ \A b \in Attempts :
         /\ stage[b] # "behind"
         /\ stage[b] \in {"registered"} \cup Past => contender = b
         /\ stage[b] = "open" => marker = Absent

LEMMA InOrderStep == Inv /\ InOrder /\ OneByOne /\ OneByOne' /\ [Next]_vars => InOrder'
<1> SUFFICES ASSUME Inv, InOrder, OneByOne, OneByOne', [Next]_vars, driver' = "plain" PROVE InOrder'
  BY DEF InOrder
<1>0. /\ TypeOK /\ driver = "plain" /\ ClosedWhileHeld
  BY DEF Inv, Next, vars, CreateIfAbsent, Register, CheckDoor, CloseDoor, ReadBack, ReadOutcome,
         Complete, ReleaseRegister, ReleaseMarker, Abandon
<1>1. \A a, b \in Attempts : Inside(a) /\ Inside(b) => a = b
  BY DEF OneByOne, Overlapping
<1>2. \A a, b \in Attempts : Inside(a)' /\ Inside(b)' => a = b
  BY DEF OneByOne, Overlapping
<1>3. \A b \in Attempts : stage'[b] # "gone"
  BY DEF OneByOne
<1> USE DEF TypeOK, MoveTo, Inside, InOrder, Held, Past
<1>4. CASE UNCHANGED vars
  BY <1>0, <1>4 DEF vars
<1>5. ASSUME NEW a \in Attempts, CreateIfAbsent(a) PROVE FALSE
  BY <1>0, <1>5 DEF CreateIfAbsent
<1>6. ASSUME NEW a \in Attempts, Register(a) PROVE InOrder'
  BY <1>0, <1>2, <1>6 DEF Register
<1>7. ASSUME NEW a \in Attempts, CheckDoor(a) PROVE InOrder'
  BY <1>0, <1>1, <1>7 DEF CheckDoor
<1>8. ASSUME NEW a \in Attempts, CloseDoor(a) PROVE InOrder'
  BY <1>0, <1>1, <1>8 DEF CloseDoor
<1>9. ASSUME NEW a \in Attempts, ReadBack(a) PROVE InOrder'
  BY <1>0, <1>1, <1>9 DEF ReadBack
<1>10. ASSUME NEW a \in Attempts, ReadOutcome(a) PROVE FALSE
  BY <1>0, <1>10 DEF ReadOutcome
<1>11. ASSUME NEW a \in Attempts, Complete(a) PROVE InOrder'
  <2>1. marker # Absent
    BY <1>0, <1>11 DEF Complete, ClosedWhileHeld, Holders
  <2> QED
    BY <1>0, <1>11, <2>1 DEF Complete
<1>12. ASSUME NEW a \in Attempts, ReleaseRegister(a) PROVE InOrder'
  BY <1>0, <1>2, <1>12 DEF ReleaseRegister
<1>13. ASSUME NEW a \in Attempts, ReleaseMarker(a) PROVE InOrder'
  BY <1>0, <1>1, <1>13 DEF ReleaseMarker
<1>14. ASSUME NEW a \in Attempts, Abandon(a) PROVE InOrder'
  BY <1>0, <1>3, <1>14 DEF Abandon
<1> QED
  BY <1>4, <1>5, <1>6, <1>7, <1>8, <1>9, <1>10, <1>11, <1>12, <1>13, <1>14 DEF Next

\* Claims and releases that come one after the other, with callers that may die in between but not
\* inside claim(), leave no marker standing for nobody: a released delivery is granted again.
THEOREM OneByOneIsExact == Spec => ExactUnlessOverlapping
<1>1. Init => InOrder
  BY ClaimsAssumption DEF Init, InOrder, Past, Held
<1>2. Inv /\ MarkerTellsConditional /\ InOrder => Exact
  <2> SUFFICES ASSUME Inv, MarkerTellsConditional, InOrder PROVE Exact
    OBVIOUS
  <2>1. driver \in {"conditional", "plain"}
    BY ClaimsAssumption DEF Inv, TypeOK
  <2>2. CASE driver = "conditional"
    <3>1. marker # Absent => \E a \in Attempts : a \in Holders
      BY <2>2 DEF MarkerTellsConditional, Holders
    <3> QED
      BY <2>2, <3>1 DEF Exact
  <2>3. CASE driver = "plain"
    BY <2>3 DEF InOrder, Exact, Holders, Held
  <2> QED
    BY <2>1, <2>2, <2>3
<1> QED
  BY <1>1, <1>2, InOrderStep, SpecTruth, PTL DEF Spec, ExactUnlessOverlapping

\* "Record the delivery's final outcome ... so redeliveries replay it" (control-plane.ts:109) is true
\* of a storage with a conditional create: there a recorded outcome stands for good.
THEOREM OutcomeStandsIfConditional ==
  Spec => [][(driver = "conditional" /\ marker \in Attempts) => marker' = marker]_vars
<1>1. Inv /\ OutcomesAreRecorded /\ [Next]_vars =>
        [(driver = "conditional" /\ marker \in Attempts) => marker' = marker]_vars
  <2> SUFFICES ASSUME Inv, OutcomesAreRecorded, Next, driver = "conditional", marker \in Attempts
               PROVE  marker' = marker
    OBVIOUS
  <2>1. marker \in Holders /\ stage[marker] = "completed"
    BY DEF OutcomesAreRecorded, Holders
  <2>2. ASSUME NEW a \in Attempts, Complete(a) \/ ReleaseMarker(a) PROVE FALSE
    <3>1. a \in Holders /\ stage[a] # "completed"
      BY <2>2 DEF Complete, ReleaseMarker, MoveTo, Holders
    <3> QED
      BY <2>1, <3>1 DEF Inv, AtMostOneHolder
  <2>3. ASSUME NEW a \in Attempts, CloseDoor(a) PROVE FALSE
    BY <2>3 DEF CloseDoor, MoveTo, Inv, NoSplitter
  <2>4. ASSUME NEW a \in Attempts, CreateIfAbsent(a) PROVE marker' = marker
    BY <2>4, ClaimsAssumption DEF CreateIfAbsent
  <2> QED
    BY <2>2, <2>3, <2>4 DEF Next, Register, CheckDoor, ReadBack, ReadOutcome, ReleaseRegister, Abandon
<1> QED
  BY <1>1, SpecTruth, PTL DEF Spec

-----------------------------------------------------------------------------
(* The refinement *)

\* One who works under the claim is its only holder, and leaves nobody who may win it.
LEMMA WorkingAlone ==
  ASSUME Inv, NEW a \in Working
  PROVE  /\ Working = {a} /\ TheClaim = a
         /\ MayWin = {} /\ marker # Absent
         /\ OutcomesAreRecorded => Outcome = None
<1>1. a \in Holders /\ Working \subseteq Holders
  BY DEF Working, Holders
<1>2. Working = {a}
  BY <1>1 DEF Inv, AtMostOneHolder
<1>3. TheClaim = a
  BY <1>2 DEF TheClaim
<1>4. MayWin = {} /\ marker # Absent
  BY <1>1 DEF Inv, NobodyAhead, ClosedWhileHeld, MayWin, Past
<1>5. ASSUME OutcomesAreRecorded, marker \in Attempts PROVE FALSE
  <2>1. stage[marker] = "completed" /\ marker \in Holders
    BY <1>5 DEF OutcomesAreRecorded, Holders
  <2> QED
    BY <1>1, <2>1 DEF Inv, AtMostOneHolder, Working
<1> QED
  BY <1>2, <1>3, <1>4, <1>5 DEF Outcome

\* A recorded outcome leaves nobody who may win.
LEMMA RecordedAlone ==
  ASSUME Inv, OutcomesAreRecorded, marker \in Attempts
  PROVE  MayWin = {}
<1>1. marker \in Holders
  BY DEF OutcomesAreRecorded, Holders
<1> QED
  BY <1>1 DEF Inv, NobodyAhead, MayWin, Past

LEMMA ClaimOfNobody ==
  Working = {} => TheClaim = IF marker # Absent /\ MayWin = {} THEN None ELSE Absent
  BY DEF TheClaim

Abstract == Claim!Next \/ UNCHANGED <<driver = "conditional", TheClaim, Outcome>>

\* A step that touches neither the marker nor who works can only take somebody's chance to win, which
\* may leave the marker standing for nobody.
LEMMA ChancesOnlyVanish ==
  ASSUME Inv, UNCHANGED <<driver, marker, Working>>, MayWin' \subseteq MayWin,
         MayWin' = MayWin \/ driver # "conditional"
  PROVE  Abstract
<1>1. Outcome' = Outcome
  BY DEF Outcome
<1>2. CASE TheClaim' = TheClaim
  BY <1>1, <1>2 DEF Abstract
<1>3. CASE TheClaim' # TheClaim
  <2>1. Working = {} /\ MayWin' # MayWin
    BY <1>3 DEF TheClaim
  <2>2. TheClaim = Absent /\ TheClaim' = None
    BY <1>3, <2>1, ClaimOfNobody DEF TheClaim
  <2>3. Claim!Spoil
    BY <1>1, <2>1, <2>2 DEF Claim!Spoil
  <2> QED
    BY <2>3 DEF Abstract, Claim!Next
<1> QED
  BY <1>2, <1>3

LEMMA InitRefines == Init => Claim!Init
<1> SUFFICES ASSUME Init PROVE Claim!Init
  OBVIOUS
<1>1. Working = {} /\ marker = Absent
  BY DEF Init, Working
<1>2. TheClaim = Absent /\ Outcome = None
  BY <1>1, ClaimOfNobody, ClaimsAssumption DEF Outcome
<1> QED
  BY <1>2 DEF Claim!Init

LEMMA CreateRefines ==
  ASSUME Inv, Inv', NEW a \in Attempts, CreateIfAbsent(a)
  PROVE  Abstract
<1>0. TypeOK /\ driver = "conditional" /\ UNCHANGED <<driver, contender>>
  BY DEF Inv, CreateIfAbsent
<1>1. MayWin = {} /\ MayWin' = {}
  BY <1>0 DEF Inv, NoSplitter, MayWin
<1>2. CASE marker = Absent
  <2>1. Working = {}
    BY <1>2 DEF Inv, ClosedWhileHeld, Working, Holders
  <2>2. Working' = {a} /\ marker' = None
    BY <1>0, <1>2, <2>1 DEF CreateIfAbsent, MoveTo, TypeOK, Working
  <2>3. TheClaim = Absent /\ TheClaim' = a
    BY <1>2, <2>1, <2>2 DEF TheClaim
  <2>4. Outcome = None /\ Outcome' = None
    BY <1>2, <2>2, ClaimsAssumption DEF Outcome
  <2>5. Claim!Take(a)
    BY <1>0, <2>3, <2>4 DEF Claim!Take
  <2> QED
    BY <2>5 DEF Abstract, Claim!Next
<1>3. CASE marker # Absent
  <2>1. UNCHANGED <<marker, Working>>
    BY <1>0, <1>3 DEF CreateIfAbsent, MoveTo, TypeOK, Working
  <2> QED
    BY <1>0, <1>1, <2>1, ChancesOnlyVanish
<1> QED
  BY <1>2, <1>3

LEMMA CloseRefines ==
  ASSUME Inv, OutcomesAreRecorded, NEW a \in Attempts, CloseDoor(a)
  PROVE  Abstract
<1>0. TypeOK /\ driver # "conditional" /\ UNCHANGED <<driver, contender>> /\ marker' = None
  BY DEF Inv, NoSplitter, CloseDoor, MoveTo
<1>1. UNCHANGED <<Working, MayWin>>
  BY <1>0 DEF CloseDoor, MoveTo, TypeOK, Working, MayWin
<1>2. Outcome' = None
  BY <1>0, ClaimsAssumption DEF Outcome
<1>3. CASE Working # {}
  <2>1. Outcome = None /\ TheClaim' = TheClaim
    BY <1>1, <1>3, WorkingAlone DEF TheClaim
  <2> QED
    BY <1>0, <1>2, <2>1 DEF Abstract
<1>4. CASE Working = {} /\ MayWin # {}
  <2>1. Outcome = None
    BY <1>4, RecordedAlone DEF Outcome
  <2>2. TheClaim = Absent /\ TheClaim' = Absent
    BY <1>1, <1>4 DEF TheClaim
  <2> QED
    BY <1>0, <1>2, <2>1, <2>2 DEF Abstract
<1>5. CASE Working = {} /\ MayWin = {}
  <2>1. TheClaim' = None /\ TheClaim = IF marker # Absent THEN None ELSE Absent
    BY <1>0, <1>1, <1>5, ClaimsAssumption DEF TheClaim
  <2>2. CASE marker # Absent
    <3>1. Claim!Forget
      BY <1>0, <1>2, <2>1, <2>2 DEF Claim!Forget
    <3> QED
      BY <3>1 DEF Abstract, Claim!Next
  <2>3. CASE marker = Absent
    <3>1. Claim!Spoil
      BY <1>0, <1>2, <2>1, <2>3, ClaimsAssumption DEF Claim!Spoil, Outcome
    <3> QED
      BY <3>1 DEF Abstract, Claim!Next
  <2> QED
    BY <2>2, <2>3
<1> QED
  BY <1>3, <1>4, <1>5

\* Only one who may win does, and nobody holds the claim then.
LEMMA ReadBackRefines ==
  ASSUME Inv, NEW a \in Attempts, ReadBack(a)
  PROVE  Abstract
<1>0. TypeOK /\ stage[a] = "closed" /\ UNCHANGED <<driver, contender, marker>>
  BY DEF Inv, ReadBack, MoveTo
<1>1. CASE contender = a
  <2>1. a \in MayWin /\ Working = {}
    BY <1>0, <1>1 DEF Inv, NobodyAhead, Past, MayWin, Working, Holders
  <2>2. Working' = {a}
    BY <1>0, <1>1, <2>1 DEF ReadBack, MoveTo, TypeOK, Working
  <2>3. TheClaim = Absent /\ TheClaim' = a
    BY <2>1, <2>2 DEF TheClaim
  <2>4. Claim!Take(a)
    BY <1>0, <2>3 DEF Claim!Take, Outcome
  <2> QED
    BY <2>4 DEF Abstract, Claim!Next
<1>2. CASE contender # a
  <2>1. UNCHANGED <<Working, MayWin>>
    BY <1>0, <1>2 DEF ReadBack, MoveTo, TypeOK, Working, MayWin
  <2> QED
    BY <1>0, <2>1, ChancesOnlyVanish
<1> QED
  BY <1>1, <1>2

\* The end of a claim: its holder records, gives back, or is lost.
LEMMA EndRefines ==
  ASSUME Inv, OutcomesAreRecorded, NEW a \in Working, UNCHANGED driver,
         \/ Complete(a)
         \/ ReleaseMarker(a)
         \/ Abandon(a)
  PROVE  Abstract
<1>0. TypeOK /\ a \in Attempts
  BY DEF Inv, Working
<1>1. /\ Working = {a} /\ TheClaim = a
      /\ MayWin = {} /\ marker # Absent /\ Outcome = None
  BY WorkingAlone
<1>2. Working' = {}
  BY <1>0, <1>1 DEF Complete, ReleaseMarker, Abandon, MoveTo, TypeOK, Working
<1>3. MayWin' = {}
  BY <1>0, <1>1 DEF Complete, ReleaseMarker, Abandon, MoveTo, TypeOK, MayWin
<1>4. TheClaim' = IF marker' # Absent THEN None ELSE Absent
  BY <1>2, <1>3 DEF TheClaim
<1>5. CASE Complete(a)
  <2>1. TheClaim' = None /\ Outcome' = a
    BY <1>0, <1>4, <1>5, ClaimsAssumption DEF Complete, Outcome
  <2>2. Claim!Record(a, a)
    BY <1>1, <2>1 DEF Claim!Record
  <2> QED
    BY <1>0, <2>2 DEF Abstract, Claim!Next
<1>6. CASE ReleaseMarker(a)
  <2>1. TheClaim' = Absent /\ Outcome' = None
    BY <1>4, <1>6, ClaimsAssumption DEF ReleaseMarker, Outcome
  <2>2. Claim!GiveBack(a)
    BY <1>1, <2>1 DEF Claim!GiveBack
  <2> QED
    BY <1>0, <2>2 DEF Abstract, Claim!Next
<1>7. CASE Abandon(a)
  <2>1. TheClaim' = None /\ Outcome' = Outcome
    BY <1>1, <1>4, <1>7 DEF Abandon, Outcome
  <2>2. Claim!Lose(a)
    BY <1>1, <2>1 DEF Claim!Lose
  <2> QED
    BY <1>0, <2>2 DEF Abstract, Claim!Next
<1> QED
  BY <1>5, <1>6, <1>7

LEMMA NextRefines == Inv /\ Inv' /\ OutcomesAreRecorded /\ [Next]_vars => Abstract
<1> SUFFICES ASSUME Inv, Inv', OutcomesAreRecorded, [Next]_vars PROVE Abstract
  OBVIOUS
<1>0. TypeOK
  BY DEF Inv
<1>1. CASE UNCHANGED vars
  <2>1. UNCHANGED <<driver, marker, Working, MayWin>>
    BY <1>1 DEF vars, Working, MayWin
  <2> QED
    BY <2>1, ChancesOnlyVanish
<1>2. ASSUME NEW a \in Attempts, CreateIfAbsent(a) PROVE Abstract
  BY <1>2, CreateRefines
<1>3. ASSUME NEW a \in Attempts, Register(a) PROVE Abstract
  <2>1. UNCHANGED <<driver, marker, Working>> /\ driver # "conditional"
    BY <1>0, <1>3 DEF Register, MoveTo, TypeOK, Working
  <2>2. MayWin' = {}
    BY <1>0, <1>3 DEF Register, MoveTo, TypeOK, MayWin
  <2> QED
    BY <2>1, <2>2, ChancesOnlyVanish
<1>4. ASSUME NEW a \in Attempts, CheckDoor(a) PROVE Abstract
  <2>1. UNCHANGED <<driver, marker, contender, Working>>
    BY <1>0, <1>4 DEF CheckDoor, MoveTo, TypeOK, Working
  <2>2. CASE marker = Absent
    <3>1. Working = {}
      BY <2>2 DEF Inv, ClosedWhileHeld, Working, Holders
    <3>2. TheClaim = Absent /\ TheClaim' = Absent /\ Outcome' = Outcome
      BY <2>1, <2>2, <3>1 DEF TheClaim, Outcome
    <3> QED
      BY <2>1, <3>2 DEF Abstract
  <2>3. CASE marker # Absent
    <3>1. MayWin' = MayWin
      BY <1>0, <1>4, <2>3 DEF CheckDoor, MoveTo, TypeOK, MayWin
    <3> QED
      BY <2>1, <3>1, ChancesOnlyVanish
  <2> QED
    BY <2>2, <2>3
<1>5. ASSUME NEW a \in Attempts, CloseDoor(a) PROVE Abstract
  BY <1>5, CloseRefines
<1>6. ASSUME NEW a \in Attempts, ReadBack(a) PROVE Abstract
  BY <1>6, ReadBackRefines
<1>7. ASSUME NEW a \in Attempts, ReadOutcome(a) PROVE Abstract
  <2>1. UNCHANGED <<driver, marker, Working, MayWin>>
    BY <1>0, <1>7 DEF ReadOutcome, MoveTo, TypeOK, Working, MayWin
  <2> QED
    BY <2>1, ChancesOnlyVanish
<1>8. ASSUME NEW a \in Attempts, Complete(a) \/ ReleaseMarker(a) PROVE Abstract
  <2>1. a \in Working /\ UNCHANGED driver
    BY <1>8 DEF Complete, ReleaseMarker, MoveTo, Working
  <2> QED
    BY <1>8, <2>1, EndRefines
<1>9. ASSUME NEW a \in Attempts, ReleaseRegister(a) PROVE Abstract
  <2>1. UNCHANGED <<driver, marker, Working>> /\ a \in Working
    BY <1>0, <1>9 DEF ReleaseRegister, MoveTo, TypeOK, Working
  <2>2. MayWin = {} /\ MayWin' = {}
    BY <1>9, <2>1, WorkingAlone, ClaimsAssumption DEF ReleaseRegister, MayWin
  <2> QED
    BY <2>1, <2>2, ChancesOnlyVanish
<1>10. ASSUME NEW a \in Attempts, Abandon(a) PROVE Abstract
  <2>0. UNCHANGED <<driver, marker, contender>>
    BY <1>10 DEF Abandon
  <2>1. CASE a \in Working
    BY <1>10, <2>0, <2>1, EndRefines
  <2>2. CASE a \notin Working
    <3>1. stage[a] \in {"registered", "open", "closed", "behind"} /\ stage' = [stage EXCEPT ![a] = "gone"]
      BY <1>10, <2>2 DEF Abandon, Working
    <3>2. Working' = Working /\ MayWin' = MayWin \ {a}
      BY <1>0, <2>0, <3>1 DEF TypeOK, Working, MayWin
    <3>3. a \in MayWin => driver # "conditional"
      BY <3>1 DEF Inv, NoSplitter, MayWin
    <3> QED
      BY <2>0, <3>2, <3>3, ChancesOnlyVanish
  <2> QED
    BY <2>1, <2>2
<1> QED
  BY <1>1, <1>2, <1>3, <1>4, <1>5, <1>6, <1>7, <1>8, <1>9, <1>10 DEF Next

\* The store, with its splitter or its conditional create, implements the exclusive claim its
\* interface promises: one holder, ended by it alone, and a standing marker that is never granted.
THEOREM Refinement == Spec => ImplementsExclusiveClaim
<1>1. Inv /\ Inv' /\ OutcomesAreRecorded /\ [Next]_vars
        => [Claim!Next]_<<driver = "conditional", TheClaim, Outcome>>
  BY NextRefines DEF Abstract
<1> QED
  BY <1>1, InitRefines, SpecTruth, PTL DEF Spec, ImplementsExclusiveClaim, Claim!Spec

=============================================================================
