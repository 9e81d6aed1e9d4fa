------------------------ MODULE SubscriptionModelProofs ------------------------
(***************************************************************************)
(* Proofs about SubscriptionModel, for any budget, count and margin: the   *)
(* waits of one decision stay within both bounds, none ends before the     *)
(* reset it is for, and the decision changes hands a bounded number of     *)
(* times.                                                                  *)
(***************************************************************************)
EXTENDS SubscriptionModel, TLAPS

\* The sleep in progress ends after the reset and its margin, if a timer can last that long.
SleepsLongEnough == (at = "waiting" /\ waitedFor # None) => wakes >= waitedFor + Grace

Inv == TypeOK /\ SleepsLongEnough /\ RetriesAfterReset

LEMMA Numbers ==
  /\ MaxWait \in Nat /\ MaxLimitWaits \in Nat /\ Grace \in Nat /\ LongestTimer \in Nat /\ MaxDecides \in Nat
  /\ Instants \subseteq Nat /\ None \notin Nat /\ None \notin Int
  BY SubscriptionAssumption DEF Instants

\* A wait that is covered is paid from the budget and sleeps past the reset.
LEMMA WaitStep ==
  ASSUME Inv, NEW stated \in MaybeInstant, Covered(stated), Wait(stated),
         UNCHANGED <<setup, decides, clock>>
  PROVE  Inv'
<1> DEFINE reset == ResetsAt(stated)
           wait == WaitingTime(stated)
<1>0. /\ TypeOK /\ session.resetsAt \in MaybeInstant
      /\ session.id \in {None, "known"} /\ session.resume \in {None, "known"}
      /\ clock \in Nat /\ budget \in 0..MaxWait /\ attempt \in 0..MaxLimitWaits
  BY DEF Inv, TypeOK, Sessions
<1>1. /\ reset \in Instants /\ reset \in Nat
      /\ attempt < MaxLimitWaits /\ reset - clock + Grace <= budget
  BY <1>0, Numbers DEF Covered, ResetsAt, MaybeInstant
<1>2. /\ at' = "waiting" /\ wakes' = clock + TimerFor(wait)
      /\ waitedFor' = IF wait <= LongestTimer THEN reset ELSE None
      /\ budget' = budget - wait /\ attempt' = attempt + 1
      /\ session' = [session EXCEPT !.resume = session.id, !.rejected = FALSE, !.resetsAt = None]
  BY DEF Wait
<1>w. wait = Longer(reset - clock + Grace, 0)
  BY DEF WaitingTime
<1> HIDE DEF reset, wait
<1>3. wait \in Nat /\ wait <= budget /\ clock + wait >= reset + Grace
  BY <1>0, <1>1, <1>w, Numbers DEF Longer
<1>t. TimerFor(wait) \in Nat /\ (wait <= LongestTimer => TimerFor(wait) = wait)
  BY <1>3 DEF TimerFor
<1>4. budget' \in 0..MaxWait /\ attempt' \in 0..MaxLimitWaits /\ wakes' \in Nat
  BY <1>0, <1>1, <1>2, <1>3, <1>t, Numbers
<1>5. session' \in Sessions
  BY <1>0, <1>2 DEF Sessions, TypeOK, MaybeInstant
<1>6. TypeOK'
  BY <1>0, <1>1, <1>2, <1>4, <1>5 DEF TypeOK, MaybeInstant
<1>7. SleepsLongEnough' /\ RetriesAfterReset'
  BY <1>1, <1>2, <1>3, <1>t, Numbers DEF SleepsLongEnough, RetriesAfterReset
<1> QED
  BY <1>6, <1>7 DEF Inv

LEMMA InitInv == Init => Inv
<1> SUFFICES ASSUME Init PROVE Inv
  OBVIOUS
<1>1. session \in Sessions
  BY DEF Init, Sessions, MaybeInstant
<1>2. 0 \in 0..MaxWait /\ 0 \in 0..MaxLimitWaits /\ 0 \in 0..MaxDecides /\ MaxWait \in 0..MaxWait
  BY Numbers
<1>3. TypeOK
  BY <1>1, <1>2 DEF Init, TypeOK, MaybeInstant
<1> QED
  BY <1>3 DEF Init, Inv, SleepsLongEnough, RetriesAfterReset

LEMMA NextInv == Inv /\ [Next]_vars => Inv'
<1> SUFFICES ASSUME Inv, [Next]_vars PROVE Inv'
  OBVIOUS
<1>0. TypeOK /\ SleepsLongEnough /\ RetriesAfterReset
  BY DEF Inv
<1> USE <1>0
<1>1. CASE Begin
  <2>1. decides' \in 0..MaxDecides /\ 0 \in 0..MaxLimitWaits /\ MaxWait \in 0..MaxWait
    BY <1>1, Numbers DEF Begin, TypeOK
  <2>2. TypeOK'
    BY <1>1, <2>1 DEF Begin, TypeOK, MaybeInstant
  <2> QED
    BY <1>1, <2>2 DEF Begin, Inv, SleepsLongEnough, RetriesAfterReset
<1>2. CASE Tick
  <2>1. clock' \in Nat /\ clock' >= clock /\ at' = at /\ waitedFor' = waitedFor /\ at' # "waiting"
    BY <1>2 DEF Tick, TypeOK
  <2>2. TypeOK'
    BY <1>2, <2>1 DEF Tick, TypeOK
  <2>3. RetriesAfterReset'
    <3>1. waitedFor # None => waitedFor \in Nat
      BY Numbers DEF TypeOK, MaybeInstant
    <3> QED
      BY <2>1, <3>1, Numbers DEF RetriesAfterReset, TypeOK
  <2> QED
    BY <2>1, <2>2, <2>3 DEF Inv, SleepsLongEnough
<1>3. CASE Report
  <2>1. session' \in Sessions
    BY <1>3 DEF Report, Sessions, TypeOK
  <2>2. /\ UNCHANGED <<setup, at, decides, attempt, budget, clock, wakes, waitedFor>>
    BY <1>3 DEF Report
  <2> QED
    BY <2>1, <2>2 DEF Inv, TypeOK, SleepsLongEnough, RetriesAfterReset
<1>4. CASE Answer \/ CallRefused
  <2>1. /\ at' \in {"idle", "fallback", "failed"}
        /\ UNCHANGED <<setup, decides, attempt, budget, session, clock, wakes, waitedFor>>
    BY <1>4 DEF Answer, CallRefused, Propagate
  <2> QED
    BY <2>1 DEF Inv, TypeOK, SleepsLongEnough, RetriesAfterReset
<1>5. CASE Wake
  <2>1. /\ at = "waiting" /\ at' = "calling" /\ clock' = Longer(wakes, clock)
        /\ UNCHANGED <<setup, decides, attempt, budget, session, wakes, waitedFor>>
    BY <1>5 DEF Wake
  <2>2. clock' \in Nat /\ clock' >= wakes
    BY <2>1 DEF Longer, TypeOK
  <2>3. TypeOK'
    BY <2>1, <2>2 DEF TypeOK
  <2>4. RetriesAfterReset'
    <3>1. ASSUME waitedFor # None PROVE clock' >= waitedFor + Grace
      <4>1. waitedFor \in Nat /\ Grace \in Nat /\ wakes \in Nat /\ wakes >= waitedFor + Grace
        BY <2>1, <3>1, Numbers DEF SleepsLongEnough, TypeOK, MaybeInstant
      <4> HIDE <1>0
      <4> QED
        BY <4>1, <2>2
    <3> QED
      BY <2>1, <3>1 DEF RetriesAfterReset
  <2> QED
    BY <2>1, <2>3, <2>4 DEF Inv, SleepsLongEnough
<1>6. ASSUME NEW kind \in Kinds, NEW stated \in MaybeInstant, CallFails(kind, stated) PROVE Inv'
  <2>1. CASE Limited(kind) /\ Covered(stated)
    BY <1>6, <2>1, WaitStep DEF CallFails
  <2>2. CASE ~(Limited(kind) /\ Covered(stated))
    <3>1. /\ at' \in {"fallback", "failed"}
          /\ UNCHANGED <<setup, decides, attempt, budget, session, clock, wakes, waitedFor>>
      BY <1>6, <2>2 DEF CallFails, Propagate
    <3> QED
      BY <3>1 DEF Inv, TypeOK, SleepsLongEnough, RetriesAfterReset
  <2> QED
    BY <2>1, <2>2
<1>7. CASE UNCHANGED vars
  BY <1>7 DEF vars, Inv, TypeOK, SleepsLongEnough, RetriesAfterReset
<1> QED
  BY <1>1, <1>2, <1>3, <1>4, <1>5, <1>6, <1>7 DEF Next

\* Inv is an inductive invariant.
THEOREM Invariance == Spec => []Inv
  BY InitInv, NextInv, PTL DEF Spec

\* The waits of one decision never exceed the budget or the count, whatever instants are reported.
THEOREM TypeCorrect == Spec => []TypeOK
<1>1. Inv => TypeOK
  BY DEF Inv
<1> QED
  BY <1>1, Invariance, PTL

\* A retry never comes before the reset the wait was for and its margin.
THEOREM RetriesComeAfter == Spec => []RetriesAfterReset
<1>1. Inv => RetriesAfterReset
  BY DEF Inv
<1> QED
  BY <1>1, Invariance, PTL

-----------------------------------------------------------------------------

\* How often the decision under way can still change hands: each wait that may follow costs a turn to
\* begin and one to wake from, the fallback one more.
Turns ==
  IF at = "waiting" THEN 2 * (MaxLimitWaits - attempt) + 3
  ELSE IF at = "calling" THEN 2 * (MaxLimitWaits - attempt) + 2
  ELSE IF at = "fallback" THEN 1
  ELSE 0

LEMMA TurnsNow ==
  /\ at = "waiting" => Turns = 2 * (MaxLimitWaits - attempt) + 3
  /\ at = "calling" => Turns = 2 * (MaxLimitWaits - attempt) + 2
  /\ at = "fallback" => Turns = 1
  /\ at \in {"idle", "failed"} => Turns = 0
  BY DEF Turns

LEMMA TurnsThen ==
  /\ at' = "waiting" => Turns' = 2 * (MaxLimitWaits - attempt') + 3
  /\ at' = "calling" => Turns' = 2 * (MaxLimitWaits - attempt') + 2
  /\ at' = "fallback" => Turns' = 1
  /\ at' \in {"idle", "failed"} => Turns' = 0
  BY DEF Turns

LEMMA TurnsType ==
  ASSUME TypeOK
  PROVE  /\ Turns \in Nat
         /\ MaxLimitWaits - attempt \in Nat
         /\ at \in {"waiting", "calling"} => Turns >= 2
<1>1. MaxLimitWaits \in Nat /\ attempt \in 0..MaxLimitWaits
  BY Numbers DEF TypeOK
<1>2. MaxLimitWaits - attempt \in Nat
  BY <1>1
<1>3. CASE at = "waiting"
  BY <1>2, <1>3, TurnsNow
<1>4. CASE at = "calling"
  BY <1>2, <1>4, TurnsNow
<1>5. CASE at = "fallback"
  BY <1>2, <1>5, TurnsNow
<1>6. CASE at \in {"idle", "failed"}
  <2>1. Turns = 0
    BY <1>6, TurnsNow
  <2> QED
    BY <1>2, <1>6, <2>1
<1> QED
  BY <1>3, <1>4, <1>5, <1>6 DEF TypeOK

\* A decision stays where it is or uses up a turn, whatever the transport reports and however often.
TurnsUsedUp == at # "idle" => (Turns' < Turns \/ (at' = at /\ Turns' = Turns))

LEMMA NextTurn == Inv /\ [Next]_vars => [TurnsUsedUp]_vars
<1> SUFFICES ASSUME Inv, Next, at # "idle"
             PROVE  Turns' < Turns \/ (at' = at /\ Turns' = Turns)
  BY DEF TurnsUsedUp
<1>1. /\ TypeOK /\ Turns \in Nat /\ MaxLimitWaits - attempt \in Nat
      /\ at \in {"waiting", "calling"} => Turns >= 2
      /\ attempt \in Nat /\ MaxLimitWaits \in Nat
  BY TurnsType, Numbers DEF Inv, TypeOK
<1>2. CASE Tick \/ Report
  BY <1>2 DEF Tick, Report, Turns
<1>3. CASE Wake
  <2>1. at = "waiting" /\ at' = "calling" /\ attempt' = attempt
    BY <1>3 DEF Wake
  <2> QED
    BY <1>1, <2>1, TurnsNow, TurnsThen
<1>4. CASE Answer \/ CallRefused \/ \E kind \in Kinds, stated \in MaybeInstant : CallFails(kind, stated)
  <2>1. \/ at = "calling" /\ at' = "waiting" /\ attempt' = attempt + 1
        \/ at = "calling" /\ at' = "fallback"
        \/ at \in {"calling", "fallback"} /\ at' \in {"idle", "failed"}
    BY <1>4 DEF Answer, CallRefused, CallFails, Wait, Propagate
  <2>2. CASE at' = "waiting"
    BY <1>1, <2>1, <2>2, TurnsNow, TurnsThen
  <2>3. CASE at' = "fallback"
    BY <1>1, <2>1, <2>3, TurnsThen
  <2>4. CASE at' \in {"idle", "failed"}
    <3>1. Turns' = 0
      BY <2>4, TurnsThen
    <3>2. Turns >= 1
      BY <1>1, <2>1, <2>4, TurnsNow
    <3> QED
      BY <1>1, <3>1, <3>2
  <2> QED
    BY <2>1, <2>2, <2>3, <2>4
<1> QED
  BY <1>2, <1>3, <1>4 DEF Next, Begin

\* A decision ends after at most MaxLimitWaits waits and one fallback: it changes hands no more than
\* 2 * MaxLimitWaits + 2 times.
THEOREM DecidesAreBounded ==
  /\ Spec => [](Turns \in Nat)
  /\ Spec => [][TurnsUsedUp]_vars
<1>1. Inv => Turns \in Nat
  BY TurnsType DEF Inv
<1> QED
  BY <1>1, NextTurn, Invariance, PTL DEF Spec

=============================================================================
