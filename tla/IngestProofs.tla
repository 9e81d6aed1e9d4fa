----------------------------- MODULE IngestProofs -----------------------------
(***************************************************************************)
(* Proofs about Ingest, for any requests, processes and keys and a map of  *)
(* any size: a piece of work has one run at a time, is never run again     *)
(* after it has succeeded, and is answered as accepted only then.          *)
(*                                                                         *)
(* The argument rests on the claim alone, as the code does: whoever works  *)
(* on a key holds its claim (HoldersHold), a key that is done is never     *)
(* left open (DoneIsClosed), and whoever may still give the claim back has *)
(* not succeeded (UnfinishedIsNotDone).  The map in memory only ever       *)
(* repeats what is done (SettledIsDone).                                   *)
(***************************************************************************)
EXTENDS Ingest, TLAPS

\* A request that works on a key, or has yet to record or release it, holds its claim.
HoldersHold == \A r \in Requests : stage[r] \in Holding => claim[KeyOf[r]] = r

\* The claim of work that is done is never open.
DoneIsClosed == \A k \in done : claim[k] # Free

UnfinishedIsNotDone ==
  \A r \in Requests : stage[r] \in Running \cup {"releasing"} => KeyOf[r] \notin done

FinishedIsDone ==
  \A r \in Requests : stage[r] \in {"publishing", "completing"} => KeyOf[r] \in done

\* What is recorded, and what a map remembers as settled, is done.
RecordedIsDone == \A k \in Keys : outcome[k] = "accepted" => k \in done

SettledIn(s) == \A i \in DOMAIN s : s[i].run = "settled" => s[i].key \in done

SettledIsDone == \A p \in Processes : SettledIn(deliveries[p])

Inv ==
  /\ TypeOK
  /\ HoldersHold
  /\ DoneIsClosed
  /\ UnfinishedIsNotDone
  /\ FinishedIsDone
  /\ RecordedIsDone
  /\ SettledIsDone
  /\ AcceptedMeansDone

-----------------------------------------------------------------------------
(* The map of a process *)

Maps == {s \in Seq(Entries) : Len(s) <= MapSize}

\* Every entry of t is one of s, or e.
From(t, s, e) ==
  \A i \in DOMAIN t : t[i] = e \/ \E j \in DOMAIN s : t[i] = s[j]

LEMMA TailProperties ==
  ASSUME NEW S, NEW s \in Seq(S), s # <<>>
  PROVE  /\ Tail(s) \in Seq(S)
         /\ Len(Tail(s)) = Len(s) - 1
         /\ \A i \in 1 .. Len(s) - 1 : Tail(s)[i] = s[i + 1]
  OBVIOUS

LEMMA AppendProperties ==
  ASSUME NEW S, NEW s \in Seq(S), NEW e \in S
  PROVE  /\ Append(s, e) \in Seq(S)
         /\ Len(Append(s, e)) = Len(s) + 1
         /\ \A i \in 1 .. Len(s) : Append(s, e)[i] = s[i]
         /\ Append(s, e)[Len(s) + 1] = e
  OBVIOUS

\* What t keeps of s, after its first d entries, in their order and before a last one, e.
Shifted(t, s, e, d) ==
  /\ Len(t) = Len(s) - d + 1
  /\ t[Len(t)] = e
  /\ \A i \in 1 .. Len(s) - d : t[i] = s[i + d]

\* Register puts the new entry last, and keeps the map within its size by dropping the first.
LEMMA Registering ==
  ASSUME NEW s \in Maps, NEW e \in Entries
  PROVE  LET t == Append(IF Len(s) >= MapSize THEN Tail(s) ELSE s, e)
         IN  t \in Maps /\ From(t, s, e) /\ \E d \in {0, 1} : Shifted(t, s, e, d)
<1> DEFINE u == IF Len(s) >= MapSize THEN Tail(s) ELSE s
           t == Append(u, e)
           d == IF Len(s) >= MapSize THEN 1 ELSE 0
<1>1. s \in Seq(Entries) /\ Len(s) \in Nat /\ Len(s) <= MapSize /\ MapSize \in Nat \ {0}
  BY IngestAssumption DEF Maps
<1>2. /\ u \in Seq(Entries)
      /\ Len(u) + 1 <= MapSize
      /\ \A i \in 1 .. Len(u) : \E j \in 1 .. Len(s) : u[i] = s[j]
      /\ Len(u) = Len(s) - d
      /\ \A i \in 1 .. Len(s) - d : u[i] = s[i + d]
  <2>1. CASE Len(s) >= MapSize
    <3>1. s # <<>>
      BY <1>1, <2>1
    <3>2. /\ u \in Seq(Entries)
          /\ Len(u) = Len(s) - 1
          /\ \A i \in 1 .. Len(s) - 1 : u[i] = s[i + 1]
      BY <1>1, <2>1, <3>1, TailProperties
    <3>3. \A i \in 1 .. Len(s) - 1 : i + 1 \in 1 .. Len(s)
      BY <1>1
    <3> QED
      BY <1>1, <3>2, <3>3
  <2>2. CASE ~(Len(s) >= MapSize)
    BY <1>1, <2>2
  <2> QED
    BY <2>1, <2>2
<1>d. d \in {0, 1}
  OBVIOUS
<1> HIDE DEF u, d
<1>3. /\ t \in Seq(Entries)
      /\ Len(t) = Len(u) + 1
      /\ \A i \in 1 .. Len(u) : t[i] = u[i]
      /\ t[Len(u) + 1] = e
  BY <1>2, AppendProperties
<1> HIDE DEF t
<1>4. Len(u) \in Nat /\ DOMAIN t = 1 .. Len(u) + 1 /\ DOMAIN s = 1 .. Len(s)
  BY <1>1, <1>2, <1>3
<1>5. ASSUME NEW i \in DOMAIN t PROVE t[i] = e \/ \E j \in DOMAIN s : t[i] = s[j]
  <2>1. i = Len(u) + 1 \/ i \in 1 .. Len(u)
    BY <1>4
  <2> QED
    BY <1>2, <1>3, <1>4, <2>1
<1>6. t \in Maps /\ From(t, s, e)
  BY <1>2, <1>3, <1>5 DEF Maps, From
<1>7. Shifted(t, s, e, d)
  BY <1>1, <1>2, <1>3, <1>4, <1>d DEF Shifted
<1> QED
  BY <1>6, <1>7, <1>d DEF t, u

\* Forget takes one entry away.
LEMMA Forgetting ==
  ASSUME NEW s \in Maps, NEW i \in DOMAIN s
  PROVE  /\ RemoveAt(s, i) \in Maps /\ From(RemoveAt(s, i), s, s[i])
         /\ Len(RemoveAt(s, i)) = Len(s) - 1
         /\ \A k \in DOMAIN RemoveAt(s, i) : RemoveAt(s, i)[k] = s[IF k < i THEN k ELSE k + 1]
<1> DEFINE front == SubSeq(s, 1, i - 1)
           back == SubSeq(s, i + 1, Len(s))
           t == front \o back
<1>1. s \in Seq(Entries) /\ Len(s) \in Nat /\ Len(s) <= MapSize /\ MapSize \in Nat /\ i \in 1 .. Len(s)
  BY IngestAssumption DEF Maps
<1>2. /\ front \in Seq(Entries)
      /\ Len(front) = i - 1
      /\ \A k \in 1 .. i - 1 : front[k] = s[k]
  BY <1>1
<1>3. /\ back \in Seq(Entries)
      /\ Len(back) = Len(s) - i
      /\ \A k \in 1 .. Len(s) - i : back[k] = s[k + i]
  BY <1>1
<1> HIDE DEF front, back
<1>4. t \in Seq(Entries) /\ Len(t) = Len(s) - 1
  BY <1>1, <1>2, <1>3
<1>5. ASSUME NEW k \in DOMAIN t
      PROVE  /\ t[k] = s[IF k < i THEN k ELSE k + 1]
             /\ \E j \in DOMAIN s : t[k] = s[j]
  <2>1. k \in 1 .. Len(s) - 1 /\ DOMAIN s = 1 .. Len(s)
    BY <1>1, <1>4
  <2>2. CASE k < i
    BY <1>1, <1>2, <1>3, <2>1, <2>2
  <2>3. CASE ~(k < i)
    <3>1. t[k] = back[k - (i - 1)] /\ k - (i - 1) \in 1 .. Len(s) - i
      BY <1>1, <1>2, <1>3, <2>1, <2>3
    <3> DEFINE j == k - (i - 1)
    <3>2. i \in Int /\ k \in Int /\ Len(s) \in Int
      BY <1>1, <2>1
    <3>3. j + i = k + 1 /\ k + 1 \in 1 .. Len(s)
      BY <2>1, <3>2
    <3>4. back[j] = s[j + i]
      BY <1>3, <3>1
    <3>5. back[j] = s[k + 1]
      BY <3>3, <3>4
    <3> QED
      BY <2>1, <2>3, <3>1, <3>3, <3>5
  <2> QED
    BY <2>2, <2>3
<1>6. t \in Maps /\ From(t, s, s[i])
  BY <1>1, <1>4, <1>5 DEF Maps, From
<1> QED
  BY <1>4, <1>5, <1>6 DEF RemoveAt, front, back

\* Publish settles entries where they are.
LEMMA Settling ==
  ASSUME NEW s \in Maps, NEW I
  PROVE  LET t == [i \in DOMAIN s |-> IF i \in I THEN [s[i] EXCEPT !.run = "settled"] ELSE s[i]]
         IN  /\ t \in Maps
             /\ \A i \in DOMAIN t : /\ t[i].key = s[i].key
                                   /\ IF i \in I THEN t[i].run = "settled" ELSE t[i] = s[i]
<1> DEFINE t == [i \in DOMAIN s |-> IF i \in I THEN [s[i] EXCEPT !.run = "settled"] ELSE s[i]]
<1>1. s \in Seq(Entries) /\ Len(s) \in Nat /\ Len(s) <= MapSize /\ DOMAIN s = 1 .. Len(s)
  BY DEF Maps
<1>2. \A i \in 1 .. Len(s) : s[i] \in Entries
  BY <1>1
<1>3. \A i \in 1 .. Len(s) : /\ t[i] \in Entries /\ t[i].key = s[i].key
                              /\ IF i \in I THEN t[i].run = "settled" ELSE t[i] = s[i]
  BY <1>1, <1>2 DEF Entries
<1>4. t \in [1 .. Len(s) -> Entries]
  BY <1>1, <1>3
<1>5. t \in Seq(Entries) /\ Len(t) = Len(s)
  BY <1>1, <1>4
<1> QED
  BY <1>1, <1>3, <1>5 DEF Maps

-----------------------------------------------------------------------------
(* Types *)

LEMMA InitInv == Init => Inv
<1> SUFFICES ASSUME Init PROVE Inv
  OBVIOUS
<1> USE DEF Init
<1>1. TypeOK
  <2>1. \A p \in Processes : deliveries[p] \in Seq(Entries) /\ Len(deliveries[p]) <= MapSize
    BY IngestAssumption
  <2>2. deliveries \in [Processes -> Seq(Entries)]
    OBVIOUS
  <2> QED
    BY <2>1, <2>2 DEF TypeOK, Stages, AtRest
<1>2. HoldersHold /\ UnfinishedIsNotDone /\ FinishedIsDone /\ AcceptedMeansDone /\ DoneIsClosed
  BY DEF HoldersHold, UnfinishedIsNotDone, FinishedIsDone, AcceptedMeansDone, DoneIsClosed, Holding, Running
<1>3. RecordedIsDone
  BY IngestAssumption DEF RecordedIsDone
<1>4. SettledIsDone
  BY DEF SettledIsDone, SettledIn
<1> QED
  BY <1>1, <1>2, <1>3, <1>4 DEF Inv

\* How an action may change the map of one process.
Remapped(p) == \E t \in Maps : deliveries' = [deliveries EXCEPT ![p] = t]

LEMMA MapsTyped ==
  ASSUME TypeOK
  PROVE  deliveries \in [Processes -> Maps]
  BY DEF TypeOK, Maps

LEMMA Remapping ==
  ASSUME TypeOK, NEW p \in Processes, Remapped(p)
  PROVE  /\ deliveries' \in [Processes -> Seq(Entries)]
         /\ \A q \in Processes : Len(deliveries'[q]) <= MapSize
<1>1. PICK t \in Maps : deliveries' = [deliveries EXCEPT ![p] = t]
  BY DEF Remapped
<1>2. deliveries' \in [Processes -> Maps]
  BY <1>1, MapsTyped
<1> QED
  BY <1>2 DEF Maps

LEMMA RegisterRemaps ==
  ASSUME TypeOK, NEW r \in Requests, Register(r)
  PROVE  /\ Remapped(ProcessOf[r])
         /\ SettledIsDone /\ done' = done => SettledIsDone'
<1> DEFINE p == ProcessOf[r]
           s == deliveries[p]
           e == [key |-> KeyOf[r], run |-> "flight"]
           t == Append(IF Len(s) >= MapSize THEN Tail(s) ELSE s, e)
<1>1. p \in Processes /\ s \in Maps /\ e \in Entries
  BY IngestAssumption, MapsTyped DEF Entries
<1>2. t \in Maps /\ From(t, s, e)
  BY <1>1, Registering
<1>3. deliveries' = [deliveries EXCEPT ![p] = t]
  BY DEF Register
<1> HIDE DEF t
<1>4. ASSUME SettledIsDone, done' = done PROVE SettledIsDone'
  <2>1. ASSUME NEW q \in Processes, NEW i \in DOMAIN deliveries'[q],
               deliveries'[q][i].run = "settled"
        PROVE  deliveries'[q][i].key \in done
    <3>1. CASE q = p
      <4>1. deliveries'[q] = t
        BY <1>3, <3>1, MapsTyped
      <4>2. t[i] # e
        BY <2>1, <4>1
      <4>3. PICK j \in DOMAIN s : t[i] = s[j]
        BY <1>2, <2>1, <4>1, <4>2 DEF From
      <4> QED
        BY <1>1, <1>4, <2>1, <4>1, <4>3 DEF SettledIsDone, SettledIn
    <3>2. CASE q # p
      BY <1>3, <1>4, <2>1, <3>2, MapsTyped DEF SettledIsDone, SettledIn
    <3> QED
      BY <3>1, <3>2
  <2> QED
    BY <1>4, <2>1 DEF SettledIsDone, SettledIn
<1> QED
  BY <1>2, <1>3, <1>4 DEF Remapped

LEMMA ForgetRemaps ==
  ASSUME TypeOK, NEW r \in Requests, Forget(r)
  PROVE  /\ Remapped(ProcessOf[r])
         /\ SettledIsDone /\ done' = done => SettledIsDone'
<1> DEFINE p == ProcessOf[r]
           s == deliveries[p]
<1>1. p \in Processes /\ s \in Maps
  BY IngestAssumption, MapsTyped
<1>2. PICK t \in Maps : /\ deliveries' = [deliveries EXCEPT ![p] = t]
                        /\ \A i \in DOMAIN t : \E j \in DOMAIN s : t[i] = s[j]
  <2>1. CASE EntryOf(r) = {}
    BY <1>1, <2>1, MapsTyped DEF Forget
  <2>2. CASE EntryOf(r) # {}
    <3> DEFINE n == CHOOSE i \in EntryOf(r) : TRUE
    <3>1. n \in DOMAIN s
      BY <2>2 DEF EntryOf, MapOf
    <3>2. RemoveAt(s, n) \in Maps /\ From(RemoveAt(s, n), s, s[n])
      BY <1>1, <3>1, Forgetting
    <3>3. deliveries' = [deliveries EXCEPT ![p] = RemoveAt(s, n)]
      BY <2>2 DEF Forget
    <3> QED
      BY <3>1, <3>2, <3>3 DEF From
  <2> QED
    BY <2>1, <2>2
<1>3. ASSUME SettledIsDone, done' = done PROVE SettledIsDone'
  <2>1. ASSUME NEW q \in Processes PROVE SettledIn(deliveries[q])' 
    <3>1. CASE q = p
      <4>1. deliveries'[q] = t
        BY <1>2, <3>1, MapsTyped
      <4> QED
        BY <1>1, <1>2, <1>3, <3>1, <4>1 DEF SettledIsDone, SettledIn
    <3>2. CASE q # p
      BY <1>2, <1>3, <3>2, MapsTyped DEF SettledIsDone, SettledIn
    <3> QED
      BY <3>1, <3>2
  <2> QED
    BY <2>1 DEF SettledIsDone
<1> QED
  BY <1>2, <1>3 DEF Remapped

\* An entry that Publish settles is one of a key that is done.
LEMMA PublishRemaps ==
  ASSUME TypeOK, NEW r \in Requests, Publish(r), KeyOf[r] \in done
  PROVE  /\ Remapped(ProcessOf[r])
         /\ SettledIsDone => SettledIsDone'
<1> DEFINE p == ProcessOf[r]
           s == deliveries[p]
           t == [i \in DOMAIN s |-> IF i \in EntryOf(r) THEN [s[i] EXCEPT !.run = "settled"] ELSE s[i]]
<1>1. p \in Processes /\ s \in Maps
  BY IngestAssumption, MapsTyped
<1>2. /\ t \in Maps
      /\ \A i \in DOMAIN t : /\ t[i].key = s[i].key
                            /\ IF i \in EntryOf(r) THEN t[i].run = "settled" ELSE t[i] = s[i]
  BY <1>1, Settling
<1>3. deliveries' = [deliveries EXCEPT ![p] = t] /\ done' = done
  BY DEF Publish
<1>4. DOMAIN t = DOMAIN s
  OBVIOUS
<1> HIDE DEF t
<1>5. ASSUME SettledIsDone, NEW q \in Processes, NEW i \in DOMAIN deliveries'[q],
             deliveries'[q][i].run = "settled"
      PROVE  deliveries'[q][i].key \in done
  <2>1. CASE q = p
    <3>1. deliveries'[q] = t
      BY <1>3, <2>1, MapsTyped
    <3>2. CASE i \in EntryOf(r)
      BY <1>2, <1>5, <3>1, <3>2 DEF EntryOf, MapOf
    <3>3. CASE i \notin EntryOf(r)
      BY <1>1, <1>2, <1>4, <1>5, <3>1, <3>3 DEF SettledIsDone, SettledIn
    <3> QED
      BY <3>2, <3>3
  <2>2. CASE q # p
    BY <1>3, <1>5, <2>2, MapsTyped DEF SettledIsDone, SettledIn
  <2> QED
    BY <2>1, <2>2
<1> QED
  BY <1>2, <1>3, <1>5 DEF Remapped, SettledIsDone, SettledIn

\* Nothing is forgotten to be done.
LEMMA SameMaps ==
  ASSUME SettledIsDone, UNCHANGED deliveries, done \subseteq done'
  PROVE  SettledIsDone'
  BY DEF SettledIsDone, SettledIn

-----------------------------------------------------------------------------
(* The steps *)

ClaimInv ==
  HoldersHold /\ DoneIsClosed /\ UnfinishedIsNotDone /\ FinishedIsDone /\ RecordedIsDone /\ AcceptedMeansDone

\* Only requests that hold nothing move, to where they hold nothing, and no open claim is made.
LEMMA HoldersStay ==
  ASSUME TypeOK, ClaimInv, UNCHANGED done,
         \A r \in Requests : stage'[r] # stage[r] => stage'[r] \notin Holding,
         \A r \in Requests : stage'[r] = "accepted" => stage[r] = "accepted" \/ KeyOf[r] \in done,
         \A k \in Keys : claim'[k] = claim[k] \/ (claim[k] = Free /\ claim'[k] = Standing),
         \A k \in Keys : outcome'[k] = outcome[k] \/ outcome'[k] = None
  PROVE  ClaimInv'
<1>0. \A r \in Requests : KeyOf[r] \in Keys
  BY IngestAssumption
<1>1. HoldersHold'
  BY <1>0, IngestAssumption DEF ClaimInv, HoldersHold
<1>2. DoneIsClosed'
  BY IngestAssumption DEF ClaimInv, DoneIsClosed, TypeOK
<1>3. UnfinishedIsNotDone' /\ FinishedIsDone'
  BY DEF ClaimInv, UnfinishedIsNotDone, FinishedIsDone, Holding, Running
<1>4. RecordedIsDone'
  BY IngestAssumption DEF ClaimInv, RecordedIsDone
<1>5. AcceptedMeansDone'
  BY DEF ClaimInv, AcceptedMeansDone
<1> QED
  BY <1>1, <1>2, <1>3, <1>4, <1>5 DEF ClaimInv

LEMMA ArrivalStep ==
  ASSUME Inv, \/ \E r \in Requests : DeliverIssue(r) \/ DeliverReview(r)
              \/ \E p \in Processes : \E found \in SUBSET Polls(p) : PollPass(p, found)
  PROVE  Inv'
<1> USE DEF Inv
<1>1. /\ UNCHANGED <<begun, claim, outcome, deliveries, done>>
      /\ stage' \in [Requests -> Stages]
      /\ \A r \in Requests :
           stage'[r] # stage[r] => \/ stage'[r] \in {"claiming", "sharing"}
                                   \/ stage'[r] = "accepted" /\ KeyOf[r] \in done
  <2>1. ASSUME NEW r \in Requests, DeliverIssue(r)
        PROVE  /\ stage' \in [Requests -> Stages]
               /\ \A q \in Requests :
                    stage'[q] # stage[q] => \/ stage'[q] \in {"claiming", "sharing"}
                                            \/ stage'[q] = "accepted" /\ KeyOf[q] \in done
    <3>1. CASE EntryOf(r) = {}
      BY <2>1, <3>1 DEF DeliverIssue, TypeOK, Stages, Contending
    <3>2. CASE EntryOf(r) # {}
      <4>1. PICK i \in EntryOf(r) :
              stage' = [stage EXCEPT ![r] = IF MapOf(r)[i].run = "flight" THEN "sharing" ELSE "accepted"]
        BY <2>1, <3>2 DEF DeliverIssue
      <4>2. ProcessOf[r] \in Processes /\ i \in DOMAIN MapOf(r) /\ MapOf(r)[i].key = KeyOf[r]
        BY IngestAssumption DEF EntryOf
      <4>3. MapOf(r) \in Seq(Entries)
        BY <4>2 DEF TypeOK, MapOf
      <4>4. MapOf(r)[i] \in Entries
        BY <4>2, <4>3
      <4>5. MapOf(r)[i].run # "flight" => KeyOf[r] \in done
        BY <4>2, <4>4 DEF Entries, SettledIsDone, SettledIn, MapOf
      <4> QED
        BY <4>1, <4>5 DEF TypeOK, Stages, AtRest
    <3> QED
      BY <3>1, <3>2
  <2>2. ASSUME NEW r \in Requests, DeliverReview(r)
        PROVE  /\ stage' \in [Requests -> Stages]
               /\ \A q \in Requests : stage'[q] # stage[q] => stage'[q] = "claiming"
    BY <2>2 DEF DeliverReview, MoveTo, TypeOK, Stages, Contending
  <2>3. ASSUME NEW p \in Processes, NEW found \in SUBSET Polls(p), PollPass(p, found)
        PROVE  /\ stage' \in [Requests -> Stages]
               /\ \A q \in Requests : stage'[q] # stage[q] => stage'[q] = "claiming"
    BY <2>3 DEF PollPass, TypeOK, Stages, Contending
  <2>4. UNCHANGED <<begun, claim, outcome, deliveries, done>>
    BY DEF DeliverIssue, DeliverReview, PollPass
  <2> QED
    BY <2>1, <2>2, <2>3, <2>4
<1>2. TypeOK'
  BY <1>1 DEF TypeOK
<1>3. \A r \in Requests : stage'[r] # stage[r] => stage'[r] \notin Holding
  BY <1>1 DEF Holding, Running
<1>4. ClaimInv'
  BY <1>1, <1>3, HoldersStay DEF ClaimInv
<1> QED
  BY <1>1, <1>2, <1>4, SameMaps DEF ClaimInv

LEMMA GrantStep ==
  ASSUME Inv, NEW r \in Requests, NEW late \in SUBSET Rivals(r), Granted(r, late)
  PROVE  Inv'
<1> USE DEF Inv
<1> DEFINE k == KeyOf[r]
<1>0. /\ k \in Keys /\ claim[k] = Free /\ Free \notin Requests
      /\ claim' = [claim EXCEPT ![k] = r]
      /\ stage' = [q \in Requests |-> IF q = r THEN "starting" ELSE IF q \in late THEN "late" ELSE stage[q]]
      /\ UNCHANGED <<begun, outcome, done>>
  BY IngestAssumption DEF Granted
<1>1. /\ Remapped(ProcessOf[r]) \/ UNCHANGED deliveries
      /\ SettledIsDone'
  <2>1. CASE IsIssue(r)
    BY <1>0, <2>1, RegisterRemaps DEF Granted
  <2>2. CASE ~IsIssue(r)
    BY <1>0, <2>2, SameMaps DEF Granted
  <2> QED
    BY <2>1, <2>2
<1>2. TypeOK'
  <2>1. ProcessOf[r] \in Processes
    BY IngestAssumption
  <2>2. /\ deliveries' \in [Processes -> Seq(Entries)]
        /\ \A p \in Processes : Len(deliveries'[p]) <= MapSize
    BY <1>1, <2>1, Remapping DEF TypeOK
  <2> QED
    BY <1>0, <2>2 DEF TypeOK, Stages, Holding, Running, Contending
<1>3. HoldersHold'
  BY <1>0 DEF HoldersHold, Holding, Running, TypeOK
<1>4. DoneIsClosed' /\ RecordedIsDone'
  BY <1>0 DEF DoneIsClosed, RecordedIsDone, TypeOK
<1>5. UnfinishedIsNotDone' /\ FinishedIsDone' /\ AcceptedMeansDone'
  BY <1>0 DEF UnfinishedIsNotDone, FinishedIsDone, AcceptedMeansDone, DoneIsClosed, Running
<1> QED
  BY <1>1, <1>2, <1>3, <1>4, <1>5

LEMMA NoClaimStep ==
  ASSUME Inv, NEW r \in Requests,
         Declined(r) \/ LateMarker(r) \/ AllLose(r) \/ ClaimFails(r)
  PROVE  Inv'
<1> USE DEF Inv
<1>0. KeyOf[r] \in Keys
  BY IngestAssumption
<1>1. UNCHANGED <<begun, deliveries, done>>
  BY DEF Declined, LateMarker, AllLose, ClaimFails
<1>2. \/ stage' = [stage EXCEPT ![r] = "idle"]
      \/ stage' = [stage EXCEPT ![r] = "accepted"] /\ KeyOf[r] \in done
  <2>1. CASE Declined(r)
    BY <1>0, <2>1 DEF Declined, MoveTo, Accepted, RecordedIsDone
  <2>2. CASE ~Declined(r)
    BY <2>2 DEF LateMarker, AllLose, ClaimFails, MoveTo
  <2> QED
    BY <2>1, <2>2
<1>3. /\ claim' \in [Keys -> Requests \cup {Free, Standing}]
      /\ \A k \in Keys : claim'[k] = claim[k] \/ (claim[k] = Free /\ claim'[k] = Standing)
  BY <1>0 DEF Declined, LateMarker, AllLose, ClaimFails, TypeOK
<1>4. /\ outcome' \in [Keys -> {None, "accepted", "started"}]
      /\ \A k \in Keys : outcome'[k] = outcome[k] \/ outcome'[k] = None
  BY <1>0 DEF Declined, LateMarker, AllLose, ClaimFails, TypeOK
<1>5. TypeOK'
  BY <1>1, <1>2, <1>3, <1>4 DEF TypeOK, Stages, AtRest
<1>6. /\ \A q \in Requests : stage'[q] # stage[q] => stage'[q] \notin Holding
      /\ \A q \in Requests : stage'[q] = "accepted" => stage[q] = "accepted" \/ KeyOf[q] \in done
  BY <1>2 DEF TypeOK, Holding, Running
<1>7. ClaimInv'
  BY <1>1, <1>3, <1>4, <1>6, HoldersStay DEF ClaimInv
<1> QED
  BY <1>1, <1>5, <1>7, SameMaps DEF ClaimInv

LEMMA StartStep ==
  ASSUME Inv, NEW r \in Requests, Start(r)
  PROVE  Inv'
<1> USE DEF Inv
<1>1. /\ UNCHANGED <<claim, outcome, deliveries, done>>
      /\ stage[r] = "starting" /\ stage' = [stage EXCEPT ![r] = "working"]
      /\ begun' = begun \cup {r}
  BY DEF Start, MoveTo
<1>2. TypeOK'
  BY <1>1 DEF TypeOK, Stages, Holding, Running
<1>3. /\ HoldersHold' /\ DoneIsClosed' /\ UnfinishedIsNotDone' /\ FinishedIsDone'
      /\ RecordedIsDone' /\ AcceptedMeansDone'
  BY <1>1 DEF TypeOK, HoldersHold, DoneIsClosed, UnfinishedIsNotDone, FinishedIsDone, RecordedIsDone,
              AcceptedMeansDone, Holding, Running
<1> QED
  BY <1>1, <1>2, <1>3, SameMaps

\* The claim tells the request that succeeds from every other one of its key.
LEMMA SucceedStep ==
  ASSUME Inv, NEW r \in Requests, Succeed(r)
  PROVE  Inv'
<1> USE DEF Inv
<1>0. /\ KeyOf[r] \in Keys /\ stage[r] = "working"
      /\ UNCHANGED <<begun, claim, outcome, deliveries>>
      /\ done' = done \cup {KeyOf[r]}
  BY IngestAssumption DEF Succeed, MoveTo
<1>1. \/ stage' = [stage EXCEPT ![r] = "publishing"]
      \/ stage' = [stage EXCEPT ![r] = "completing"]
  BY DEF Succeed, MoveTo
<1>2. TypeOK'
  BY <1>0, <1>1 DEF TypeOK, Stages, Holding
<1>3. HoldersHold'
  BY <1>0, <1>1 DEF TypeOK, HoldersHold, Holding, Running
<1>4. DoneIsClosed'
  BY <1>0, IngestAssumption DEF DoneIsClosed, HoldersHold, Holding, Running
<1>5. UnfinishedIsNotDone'
  <2>1. ASSUME NEW q \in Requests, stage'[q] \in Running \cup {"releasing"}
        PROVE  KeyOf[q] \notin done \cup {KeyOf[r]}
    <3>1. q # r /\ stage[q] \in Running \cup {"releasing"}
      BY <1>1, <2>1 DEF TypeOK, Running
    <3>2. claim[KeyOf[q]] = q /\ claim[KeyOf[r]] = r
      BY <1>0, <3>1 DEF HoldersHold, Holding, Running
    <3> QED
      BY <3>1, <3>2 DEF UnfinishedIsNotDone
  <2> QED
    BY <1>0, <2>1 DEF UnfinishedIsNotDone
<1>6. FinishedIsDone' /\ RecordedIsDone' /\ AcceptedMeansDone'
  BY <1>0, <1>1 DEF TypeOK, FinishedIsDone, RecordedIsDone, AcceptedMeansDone
<1> QED
  BY <1>0, <1>2, <1>3, <1>4, <1>5, <1>6, SameMaps

LEMMA PublishStep ==
  ASSUME Inv, NEW r \in Requests, Publish(r)
  PROVE  Inv'
<1> USE DEF Inv
<1>0. /\ UNCHANGED <<begun, claim, outcome, done>>
      /\ stage[r] = "publishing" /\ KeyOf[r] \in done /\ ProcessOf[r] \in Processes
      /\ stage' = [q \in Requests |-> IF q = r THEN "completing"
                                      ELSE IF q \in Sharers(r) THEN "accepted" ELSE stage[q]]
  BY IngestAssumption DEF Publish, Settle, FinishedIsDone
<1>1. Remapped(ProcessOf[r]) /\ SettledIsDone'
  BY <1>0, PublishRemaps
<1>2. TypeOK'
  BY <1>0, <1>1, Remapping DEF TypeOK, Stages, Holding, AtRest
<1>3. \A q \in Sharers(r) : q \in Requests /\ KeyOf[q] = KeyOf[r]
  BY DEF Sharers
<1>4. HoldersHold' /\ DoneIsClosed' /\ UnfinishedIsNotDone' /\ FinishedIsDone' /\ RecordedIsDone'
  BY <1>0 DEF TypeOK, HoldersHold, DoneIsClosed, UnfinishedIsNotDone, FinishedIsDone, RecordedIsDone,
              Holding, Running
<1>5. AcceptedMeansDone'
  BY <1>0, <1>3 DEF AcceptedMeansDone
<1> QED
  BY <1>1, <1>2, <1>4, <1>5

LEMMA FailStep ==
  ASSUME Inv, NEW r \in Requests, Fail(r)
  PROVE  Inv'
<1> USE DEF Inv
<1>0. /\ UNCHANGED <<begun, claim, outcome, done>>
      /\ stage[r] \in Running /\ ProcessOf[r] \in Processes
      /\ stage' = [q \in Requests |-> IF q = r THEN "releasing"
                                      ELSE IF q \in Sharers(r) THEN "idle" ELSE stage[q]]
  BY IngestAssumption DEF Fail, Settle
<1>1. Remapped(ProcessOf[r]) /\ SettledIsDone'
  BY <1>0, ForgetRemaps DEF Fail
<1>2. TypeOK'
  BY <1>0, <1>1, Remapping DEF TypeOK, Stages, Holding, AtRest
<1>3. /\ HoldersHold' /\ DoneIsClosed' /\ UnfinishedIsNotDone' /\ FinishedIsDone'
      /\ RecordedIsDone' /\ AcceptedMeansDone'
  BY <1>0 DEF TypeOK, HoldersHold, DoneIsClosed, UnfinishedIsNotDone, FinishedIsDone, RecordedIsDone,
              AcceptedMeansDone, Holding, Running
<1> QED
  BY <1>1, <1>2, <1>3

\* The request that ends was the only one to hold the claim.
LEMMA EndStep ==
  ASSUME Inv, NEW r \in Requests, Release(r) \/ Complete(r)
  PROVE  Inv'
<1> USE DEF Inv
<1> DEFINE k == KeyOf[r]
<1>0. /\ k \in Keys /\ stage[r] \in Holding /\ claim[k] = r
      /\ UNCHANGED <<deliveries, done>>
      /\ begun' = begun \ {r}
  BY IngestAssumption DEF Release, Complete, MoveTo, Holding, HoldersHold
<1>1. \/ stage' = [stage EXCEPT ![r] = "idle"]
      \/ stage' = [stage EXCEPT ![r] = "accepted"] /\ k \in done
  BY DEF Release, Complete, MoveTo, Accepted, FinishedIsDone
<1>2. PICK c \in {Free, Standing} : claim' = [claim EXCEPT ![k] = c]
  BY DEF Release, Complete
<1>3. k \in done => claim'[k] # Free
  <2>1. CASE Release(r)
    BY <2>1 DEF Release, MoveTo, UnfinishedIsNotDone
  <2>2. CASE Complete(r)
    BY <1>0, <2>2, IngestAssumption DEF Complete, TypeOK
  <2> QED
    BY <2>1, <2>2
<1>4. /\ outcome' \in [Keys -> {None, "accepted", "started"}]
      /\ \A j \in Keys : outcome'[j] = "accepted" => j \in done
  <2>1. CASE Release(r)
    BY <2>1 DEF Release, TypeOK, RecordedIsDone
  <2>2. CASE Complete(r)
    BY <1>0, <2>2 DEF Complete, MoveTo, TypeOK, RecordedIsDone, FinishedIsDone
  <2> QED
    BY <2>1, <2>2
<1>5. TypeOK'
  BY <1>0, <1>1, <1>2, <1>4 DEF TypeOK, Stages, AtRest
<1>6. HoldersHold'
  <2>1. ASSUME NEW q \in Requests, stage'[q] \in Holding PROVE claim'[KeyOf[q]] = q
    <3>1. q # r /\ stage[q] \in Holding /\ claim[KeyOf[q]] = q /\ KeyOf[q] \in Keys
      BY <1>1, <2>1, IngestAssumption DEF TypeOK, HoldersHold, Holding, Running
    <3>2. KeyOf[q] # k
      BY <1>0, <3>1
    <3> QED
      BY <1>2, <3>1, <3>2 DEF TypeOK
  <2> QED
    BY <2>1 DEF HoldersHold
<1>7. DoneIsClosed'
  BY <1>0, <1>2, <1>3 DEF DoneIsClosed, TypeOK
<1>8. UnfinishedIsNotDone' /\ FinishedIsDone' /\ RecordedIsDone' /\ AcceptedMeansDone'
  BY <1>0, <1>1, <1>4 DEF TypeOK, UnfinishedIsNotDone, FinishedIsDone, RecordedIsDone,
                          AcceptedMeansDone, Running
<1> QED
  BY <1>0, <1>5, <1>6, <1>7, <1>8, SameMaps

LEMMA CrashStep ==
  ASSUME Inv, NEW p \in Processes, Crash(p)
  PROVE  Inv'
<1> USE DEF Inv
<1> DEFINE mine == {r \in Requests : ProcessOf[r] = p}
           contended == {k \in Keys : claim[k] = Free /\ \E r \in mine : stage[r] \in Contending /\ KeyOf[r] = k}
<1>0. PICK marked \in SUBSET contended :
        claim' = [k \in Keys |-> IF claim[k] \in mine \/ k \in marked THEN Standing ELSE claim[k]]
  BY DEF Crash
<1>1. /\ UNCHANGED <<outcome, done>>
      /\ begun' = begun \ mine
      /\ stage' = [r \in Requests |-> IF r \in mine THEN "idle" ELSE stage[r]]
      /\ deliveries' = [deliveries EXCEPT ![p] = <<>>]
  BY DEF Crash
<1>2. Remapped(p)
  <2>1. <<>> \in Maps
    BY IngestAssumption DEF Maps
  <2> QED
    BY <1>1, <2>1 DEF Remapped
<1>3. TypeOK'
  BY <1>0, <1>1, <1>2, Remapping DEF TypeOK, Stages, AtRest
<1>4. HoldersHold'
  <2>1. ASSUME NEW q \in Requests, stage'[q] \in Holding PROVE claim'[KeyOf[q]] = q
    <3>1. q \notin mine /\ claim[KeyOf[q]] = q /\ KeyOf[q] \in Keys
      BY <1>1, <2>1, IngestAssumption DEF HoldersHold, Holding, Running
    <3>2. KeyOf[q] \notin marked
      BY <3>1, IngestAssumption
    <3> QED
      BY <1>0, <3>1, <3>2
  <2> QED
    BY <2>1 DEF HoldersHold
<1>5. DoneIsClosed'
  BY <1>0, <1>1, IngestAssumption DEF DoneIsClosed, TypeOK
<1>6. UnfinishedIsNotDone' /\ FinishedIsDone' /\ RecordedIsDone' /\ AcceptedMeansDone'
  BY <1>1 DEF UnfinishedIsNotDone, FinishedIsDone, RecordedIsDone, AcceptedMeansDone, Running
<1>7. SettledIsDone'
  <2>1. ASSUME NEW q \in Processes PROVE SettledIn(deliveries[q])'
    <3>1. CASE q = p
      <4>1. deliveries'[q] = <<>>
        BY <1>1, <3>1, MapsTyped
      <4> QED
        BY <4>1 DEF SettledIn
    <3>2. CASE q # p
      BY <1>1, <3>2, MapsTyped DEF SettledIsDone, SettledIn
    <3> QED
      BY <3>1, <3>2
  <2> QED
    BY <2>1 DEF SettledIsDone
<1> QED
  BY <1>3, <1>4, <1>5, <1>6, <1>7

LEMMA NextInv == Inv /\ [Next]_vars => Inv'
<1> SUFFICES ASSUME Inv, [Next]_vars PROVE Inv'
  OBVIOUS
<1>1. CASE UNCHANGED vars
  BY <1>1 DEF vars, Inv, TypeOK, HoldersHold, DoneIsClosed, UnfinishedIsNotDone, FinishedIsDone,
              RecordedIsDone, SettledIsDone, SettledIn, AcceptedMeansDone
<1>2. ASSUME NEW r \in Requests, DeliverIssue(r) \/ DeliverReview(r) PROVE Inv'
  BY <1>2, ArrivalStep
<1>3. ASSUME NEW r \in Requests, TakeClaim(r) PROVE Inv'
  BY <1>3, GrantStep, NoClaimStep DEF TakeClaim
<1>4. ASSUME NEW r \in Requests, Finish(r) PROVE Inv'
  BY <1>4, StartStep, SucceedStep, PublishStep, FailStep, EndStep DEF Finish
<1>5. ASSUME NEW p \in Processes, NEW found \in SUBSET Polls(p), PollPass(p, found) PROVE Inv'
  BY <1>5, ArrivalStep
<1>6. ASSUME NEW p \in Processes, Crash(p) PROVE Inv'
  BY <1>6, CrashStep
<1> QED
  BY <1>1, <1>2, <1>3, <1>4, <1>5, <1>6 DEF Next

-----------------------------------------------------------------------------
(* The theorems *)

\* Inv is an inductive invariant of how work comes in.
THEOREM Invariance == Spec => []Inv
  BY InitInv, NextInv, PTL DEF Spec

\* Every variable keeps its type; no map outgrows its size.
THEOREM TypeCorrect == Spec => []TypeOK
<1>1. Inv => TypeOK
  BY DEF Inv
<1> QED
  BY <1>1, Invariance, PTL

\* No two requests work on one key at the same time, however many processes, channels, restarts and
\* evictions from the map there are.
THEOREM OneRun == Spec => []OneRunAtATime
<1>1. Inv => OneRunAtATime
  BY DEF Inv, HoldersHold, OneRunAtATime, Holding
<1> QED
  BY <1>1, Invariance, PTL

\* Nobody is told that a delivery is accepted before its work is done.
THEOREM AcceptedIsDone == Spec => []AcceptedMeansDone
<1>1. Inv => AcceptedMeansDone
  BY DEF Inv
<1> QED
  BY <1>1, Invariance, PTL

\* Work that has succeeded is never run again.
THEOREM DoneStaysDone == Spec => DoneIsDone
<1>1. Inv /\ [Next]_vars =>
        [\A r \in Requests : (stage'[r] \in Running /\ KeyOf[r] \in done) => stage[r] \in Running]_vars
  <2> SUFFICES ASSUME Inv, [Next]_vars, NEW r \in Requests, stage'[r] \in Running, KeyOf[r] \in done
               PROVE  stage[r] \in Running
    OBVIOUS
  <2>1. UnfinishedIsNotDone'
    BY NextInv DEF Inv
  <2>2. KeyOf[r] \notin done'
    BY <2>1 DEF UnfinishedIsNotDone
  <2>3. done \subseteq done'
    BY DEF Next, vars, DeliverIssue, DeliverReview, PollPass, Crash, TakeClaim, Granted, Declined,
           LateMarker, AllLose, ClaimFails, Finish, Start, Succeed, Publish, Fail, Release, Complete
  <2> QED
    BY <2>2, <2>3
<1> QED
  BY <1>1, Invariance, PTL DEF Spec, DoneIsDone

-----------------------------------------------------------------------------
(* The map of a process as a map *)

\* Who has yet to answer the deliveries that share its run.
Answering == Running \cup {"publishing"}

AnswersFor(q, p, k) == stage[q] \in Answering /\ IsIssue(q) /\ ProcessOf[q] = p /\ KeyOf[q] = k

Unique(s) == \A i, j \in DOMAIN s : s[i].key = s[j].key => i = j

\* No map holds a key twice: the order of eviction is all that makes a map a sequence.
EntriesUnique == \A p \in Processes : Unique(deliveries[p])

HasRun(p, k) == \E q \in Requests : AnswersFor(q, p, k)

\* A promise in a map is one that somebody will settle.
FlightsHaveRuns ==
  \A p \in Processes : \A i \in DOMAIN deliveries[p] :
    deliveries[p][i].run = "flight" => HasRun(p, deliveries[p][i].key)

\* So is the one that a redelivery shares, also after it was evicted from the map.
SharersAnswered == \A r \in Requests : stage[r] = "sharing" => HasRun(ProcessOf[r], KeyOf[r])

MapInv == EntriesUnique /\ FlightsHaveRuns /\ SharersAnswered

\* The claim of a key that a map knows is not free: its run holds it, or has succeeded.
LEMMA KnownIsClosed ==
  ASSUME Inv, FlightsHaveRuns, NEW p \in Processes, NEW i \in DOMAIN deliveries[p]
  PROVE  claim[deliveries[p][i].key] # Free
<1>1. deliveries[p] \in Seq(Entries)
  BY DEF Inv, TypeOK
<1>2. deliveries[p][i] \in Entries
  BY <1>1
<1>3. CASE deliveries[p][i].run = "settled"
  BY <1>3 DEF Inv, SettledIsDone, SettledIn, DoneIsClosed
<1>4. CASE deliveries[p][i].run = "flight"
  <2>1. PICK q \in Requests : AnswersFor(q, p, deliveries[p][i].key)
    BY <1>4 DEF FlightsHaveRuns, HasRun
  <2> QED
    BY <2>1, IngestAssumption DEF AnswersFor, Answering, Inv, HoldersHold, Holding
<1> QED
  BY <1>2, <1>3, <1>4 DEF Entries

\* The map of one process changes: it stays one, and what it has in flight has a run.
LEMMA OneMapChanges ==
  ASSUME TypeOK, EntriesUnique, FlightsHaveRuns, NEW p \in Processes, NEW t \in Maps,
         deliveries' = [deliveries EXCEPT ![p] = t],
         Unique(t),
         \A i \in DOMAIN t : t[i].run = "flight" => HasRun(p, t[i].key)',
         \A q \in Processes \ {p}, k \in Keys : HasRun(q, k) => HasRun(q, k)'
  PROVE  EntriesUnique' /\ FlightsHaveRuns'
<1>1. deliveries'[p] = t /\ \A q \in Processes \ {p} : deliveries'[q] = deliveries[q]
  BY MapsTyped
<1>2. EntriesUnique'
  BY <1>1 DEF EntriesUnique, Unique
<1>3. ASSUME NEW q \in Processes, NEW i \in DOMAIN deliveries'[q], deliveries'[q][i].run = "flight",
             NEW k, k = deliveries'[q][i].key
      PROVE  HasRun(q, k)'
  <2>1. CASE q = p
    BY <1>1, <1>3, <2>1
  <2>2. CASE q # p
    <3>1. deliveries[q] \in Seq(Entries) /\ deliveries'[q] = deliveries[q]
      BY <1>1, <2>2 DEF TypeOK
    <3>2. deliveries[q][i] \in Entries
      BY <1>3, <3>1
    <3>3. k \in Keys
      BY <1>3, <3>1, <3>2 DEF Entries
    <3>4. HasRun(q, k)
      BY <1>3, <3>1 DEF FlightsHaveRuns
    <3> QED
      BY <2>2, <3>3, <3>4
  <2> QED
    BY <2>1, <2>2
<1>4. FlightsHaveRuns'
  BY <1>3 DEF FlightsHaveRuns, HasRun, AnswersFor
<1> QED
  BY <1>2, <1>4

\* Nobody stops answering, nobody begins to share, and the maps stay as they are.
LEMMA MapsRest ==
  ASSUME MapInv, UNCHANGED deliveries,
         \A q \in Requests : stage[q] \in Answering /\ IsIssue(q) => stage'[q] \in Answering,
         \A q \in Requests : stage'[q] = "sharing" => stage[q] = "sharing"
  PROVE  MapInv'
<1>1. EntriesUnique'
  BY DEF MapInv, EntriesUnique, Unique
<1>2. FlightsHaveRuns'
  BY DEF MapInv, FlightsHaveRuns, HasRun, AnswersFor
<1>3. SharersAnswered'
  BY DEF MapInv, SharersAnswered, HasRun, AnswersFor
<1> QED
  BY <1>1, <1>2, <1>3 DEF MapInv

\* A delivery shares what its map says is in flight.
LEMMA DeliverKeepsMap ==
  ASSUME Inv, MapInv, NEW r \in Requests, DeliverIssue(r)
  PROVE  MapInv'
<1>0. UNCHANGED deliveries /\ stage[r] \in AtRest /\ stage \in [Requests -> Stages]
  BY DEF DeliverIssue, Inv, TypeOK
<1>1. PICK to : stage' = [stage EXCEPT ![r] = to]
  <2>1. CASE EntryOf(r) = {}
    BY <2>1 DEF DeliverIssue
  <2>2. CASE EntryOf(r) # {}
    BY <2>2 DEF DeliverIssue
  <2> QED
    BY <2>1, <2>2
<1>2. \A q \in Requests : stage[q] \in Answering => stage'[q] \in Answering
  BY <1>0, <1>1 DEF AtRest, Answering, Running
<1>3. CASE to # "sharing"
  BY <1>0, <1>1, <1>2, <1>3, MapsRest
<1>4. CASE to = "sharing"
  <2>1. PICK i \in EntryOf(r) : MapOf(r)[i].run = "flight"
    <3>1. EntryOf(r) # {}
      BY <1>0, <1>1, <1>4 DEF DeliverIssue
    <3>2. PICK i \in EntryOf(r) :
            stage' = [stage EXCEPT ![r] = IF MapOf(r)[i].run = "flight" THEN "sharing" ELSE "accepted"]
      BY <3>1 DEF DeliverIssue
    <3> QED
      BY <1>0, <1>1, <1>4, <3>2
  <2>2. HasRun(ProcessOf[r], KeyOf[r])
    <3>1. ProcessOf[r] \in Processes /\ i \in DOMAIN deliveries[ProcessOf[r]]
      BY IngestAssumption DEF EntryOf, MapOf
    <3> QED
      BY <2>1, <3>1 DEF MapInv, FlightsHaveRuns, EntryOf, MapOf
  <2>3. SharersAnswered'
    <3>1. ASSUME NEW q \in Requests, stage'[q] = "sharing"
          PROVE  HasRun(ProcessOf[q], KeyOf[q])
      BY <1>0, <1>1, <2>2, <3>1 DEF MapInv, SharersAnswered
    <3> QED
      BY <1>2, <3>1 DEF SharersAnswered, HasRun, AnswersFor
  <2>4. FlightsHaveRuns'
    BY <1>0, <1>2 DEF MapInv, FlightsHaveRuns, HasRun, AnswersFor
  <2>5. EntriesUnique'
    BY <1>0 DEF MapInv, EntriesUnique, Unique
  <2> QED
    BY <2>3, <2>4, <2>5 DEF MapInv
<1> QED
  BY <1>3, <1>4

\* A granted key is new to the map: the claim of one it knows is not free.
LEMMA GrantKeepsMap ==
  ASSUME Inv, MapInv, NEW r \in Requests, NEW late \in SUBSET Rivals(r), Granted(r, late)
  PROVE  MapInv'
<1>0. /\ stage \in [Requests -> Stages] /\ deliveries \in [Processes -> Maps]
      /\ claim[KeyOf[r]] = Free /\ stage[r] = "claiming"
      /\ stage' = [q \in Requests |-> IF q = r THEN "starting" ELSE IF q \in late THEN "late" ELSE stage[q]]
      /\ ProcessOf[r] \in Processes /\ KeyOf[r] \in Keys
  BY MapsTyped, IngestAssumption DEF Granted, Inv, TypeOK
<1>1. /\ \A q \in Requests : stage[q] \in Answering => stage'[q] \in Answering
      /\ \A q \in Requests : stage'[q] = "sharing" => stage[q] = "sharing"
  BY <1>0 DEF Rivals, Answering, Running
<1>2. CASE ~IsIssue(r)
  BY <1>1, <1>2, MapsRest DEF Granted
<1>3. CASE IsIssue(r)
  <2> DEFINE p == ProcessOf[r]
             s == deliveries[p]
             e == [key |-> KeyOf[r], run |-> "flight"]
  <2>1. s \in Maps /\ e \in Entries
    BY <1>0 DEF Entries
  <2>2. PICK t \in Maps : /\ From(t, s, e) /\ \E d \in {0, 1} : Shifted(t, s, e, d)
                         /\ deliveries' = [deliveries EXCEPT ![p] = t]
    <3> DEFINE u == Append(IF Len(s) >= MapSize THEN Tail(s) ELSE s, e)
    <3>1. u \in Maps /\ From(u, s, e) /\ \E d \in {0, 1} : Shifted(u, s, e, d)
      BY <2>1, Registering
    <3>2. deliveries' = [deliveries EXCEPT ![p] = u]
      BY <1>3 DEF Granted, Register
    <3> HIDE DEF u
    <3> QED
      BY <3>1, <3>2
  <2>3. PICK d \in {0, 1} : Shifted(t, s, e, d)
    BY <2>2
  <2>4. \A i \in DOMAIN s : s[i].key # e.key
    BY <1>0, KnownIsClosed DEF MapInv
  <2>5. Unique(s)
    BY <1>0 DEF MapInv, EntriesUnique
  <2>6. /\ DOMAIN t = 1 .. Len(t) /\ DOMAIN s = 1 .. Len(s)
        /\ Len(t) = Len(s) - d + 1 /\ t[Len(t)] = e
        /\ Len(t) \in Nat /\ Len(s) \in Nat
    BY <2>1, <2>3 DEF Maps, Shifted
  <2>7. \A i \in DOMAIN t : i # Len(t) => i + d \in DOMAIN s /\ t[i] = s[i + d]
    BY <2>3, <2>6 DEF Shifted
  <2>8. Unique(t)
    <3> SUFFICES ASSUME NEW i \in DOMAIN t, NEW j \in DOMAIN t, t[i].key = t[j].key, i < j PROVE FALSE
      BY <2>6 DEF Unique
    <3>1. t[i] = s[i + d] /\ i + d \in DOMAIN s
      BY <2>6, <2>7
    <3>2. CASE j = Len(t)
      BY <2>4, <2>6, <3>1, <3>2
    <3>3. CASE j # Len(t)
      <4>1. t[j] = s[j + d] /\ j + d \in DOMAIN s
        BY <2>7, <3>3
      <4>2. i + d = j + d
        BY <2>5, <3>1, <4>1 DEF Unique
      <4> QED
        BY <2>6, <4>2
    <3> QED
      BY <3>2, <3>3
  <2>9. \A q \in Processes, k \in Keys : HasRun(q, k) => HasRun(q, k)'
    BY <1>1 DEF HasRun, AnswersFor
  <2>10. ASSUME NEW i \in DOMAIN t, t[i].run = "flight" PROVE HasRun(p, t[i].key)'
    <3>1. CASE t[i] = e
      BY <1>0, <1>3, <3>1 DEF HasRun, AnswersFor, Answering, Running
    <3>2. CASE t[i] # e
      <4>1. PICK j \in DOMAIN s : t[i] = s[j]
        BY <2>2, <3>2 DEF From
      <4>2. HasRun(p, t[i].key)
        BY <1>0, <2>10, <4>1 DEF MapInv, FlightsHaveRuns
      <4> QED
        BY <1>1, <4>2 DEF HasRun, AnswersFor
    <3> QED
      BY <3>1, <3>2
  <2>11. EntriesUnique' /\ FlightsHaveRuns'
    BY <1>0, <2>2, <2>8, <2>9, <2>10, OneMapChanges DEF Inv, MapInv
  <2>12. SharersAnswered'
    BY <1>1 DEF MapInv, SharersAnswered, HasRun, AnswersFor
  <2> QED
    BY <2>11, <2>12 DEF MapInv
<1> QED
  BY <1>2, <1>3

\* Those who shared a run are answered with it, and nobody else waited for it.
LEMMA SettledSharers ==
  ASSUME Inv, MapInv, NEW r \in Requests, NEW to, to \notin Answering, to # "sharing",
         NEW a, a \notin Answering, a # "sharing", Settle(r, to, a),
         NEW q \in Requests, stage'[q] = "sharing"
  PROVE  HasRun(ProcessOf[q], KeyOf[q])'
<1>1. q # r /\ q \notin Sharers(r) /\ stage[q] = "sharing"
  BY DEF Settle
<1>2. PICK v \in Requests : AnswersFor(v, ProcessOf[q], KeyOf[q])
  BY <1>1 DEF MapInv, SharersAnswered, HasRun
<1>3. v # r
  BY <1>1, <1>2 DEF Sharers, AnswersFor
<1>4. stage'[v] = stage[v]
  BY <1>2, <1>3 DEF Settle, Sharers, AnswersFor, Answering, Running
<1> QED
  BY <1>2, <1>4 DEF HasRun, AnswersFor

\* Settling the promise of r takes its sharers along; its entry, if it is left, is not in flight.
LEMMA SettleKeepsMap ==
  ASSUME Inv, MapInv, NEW r \in Requests, stage[r] \in Answering, Publish(r) \/ Fail(r)
  PROVE  MapInv'
<1> DEFINE p == ProcessOf[r]
           s == deliveries[p]
<1>0. /\ stage \in [Requests -> Stages] /\ TypeOK
      /\ p \in Processes /\ s \in Maps /\ Unique(s)
      /\ DOMAIN s = 1 .. Len(s) /\ Len(s) \in Nat
  BY MapsTyped, IngestAssumption DEF Inv, TypeOK, MapInv, EntriesUnique, Maps
<1>1. PICK to \in {"completing", "releasing"}, a \in AtRest : Settle(r, to, a)
  BY DEF Publish, Fail, AtRest
<1>2. SharersAnswered'
  BY <1>1, SettledSharers DEF SharersAnswered, AtRest, Answering, Running
<1>3. ASSUME NEW q \in Processes, NEW k \in Keys, HasRun(q, k), q # p \/ k # KeyOf[r]
      PROVE  HasRun(q, k)'
  <2>1. PICK v \in Requests : AnswersFor(v, q, k)
    BY <1>3 DEF HasRun
  <2>2. v # r
    BY <1>3, <2>1 DEF AnswersFor
  <2>3. stage'[v] = stage[v]
    BY <1>0, <1>1, <2>1, <2>2 DEF Settle, Sharers, AnswersFor, Answering, Running
  <2> QED
    BY <2>1, <2>3 DEF HasRun, AnswersFor
<1>4. PICK t \in Maps :
        /\ deliveries' = [deliveries EXCEPT ![p] = t]
        /\ Unique(t)
        /\ \A i \in DOMAIN t : t[i].run = "flight" =>
             t[i].key # KeyOf[r] /\ \E j \in DOMAIN s : t[i] = s[j]
  <2>1. CASE Publish(r)
    <3> DEFINE u == [i \in DOMAIN s |-> IF i \in EntryOf(r) THEN [s[i] EXCEPT !.run = "settled"] ELSE s[i]]
    <3>1. u \in Maps /\ \A i \in DOMAIN u : /\ u[i].key = s[i].key
                                          /\ IF i \in EntryOf(r) THEN u[i].run = "settled" ELSE u[i] = s[i]
      BY <1>0, Settling
    <3>2. deliveries' = [deliveries EXCEPT ![p] = u] /\ DOMAIN u = DOMAIN s
      BY <2>1 DEF Publish
    <3> HIDE DEF u
    <3>3. Unique(u)
      BY <1>0, <3>1, <3>2 DEF Unique
    <3>4. \A i \in DOMAIN u : u[i].run = "flight" => u[i].key # KeyOf[r] /\ \E j \in DOMAIN s : u[i] = s[j]
      BY <3>1, <3>2 DEF EntryOf, MapOf
    <3> QED
      BY <3>1, <3>2, <3>3, <3>4
  <2>2. CASE Fail(r) /\ EntryOf(r) = {}
    <3>1. deliveries' = [deliveries EXCEPT ![p] = s]
      BY <1>0, <2>2 DEF Fail, Forget
    <3>2. \A i \in DOMAIN s : s[i].key # KeyOf[r]
      BY <2>2 DEF EntryOf, MapOf
    <3> QED
      BY <1>0, <3>1, <3>2
  <2>3. CASE Fail(r) /\ EntryOf(r) # {}
    <3> DEFINE n == CHOOSE i \in EntryOf(r) : TRUE
               u == RemoveAt(s, n)
               at(k) == IF k < n THEN k ELSE k + 1
    <3>1. n \in DOMAIN s /\ s[n].key = KeyOf[r]
      BY <2>3 DEF EntryOf, MapOf
    <3>2. /\ u \in Maps /\ From(u, s, s[n]) /\ Len(u) = Len(s) - 1
          /\ \A k \in DOMAIN u : u[k] = s[at(k)]
      BY <1>0, <3>1, Forgetting
    <3>3. deliveries' = [deliveries EXCEPT ![p] = u]
      BY <2>3 DEF Fail, Forget
    <3> HIDE DEF u, n
    <3>4. DOMAIN u = 1 .. Len(u) /\ Len(u) \in Nat /\ n \in 1 .. Len(s)
      BY <1>0, <3>1, <3>2 DEF Maps
    <3>5. \A k \in DOMAIN u : at(k) \in DOMAIN s /\ at(k) # n /\ u[k] = s[at(k)]
      BY <1>0, <3>2, <3>4
    <3>6. \A k, l \in DOMAIN u : at(k) = at(l) => k = l
      BY <3>4
    <3> HIDE DEF at
    <3>7. Unique(u)
      BY <1>0, <3>5, <3>6 DEF Unique
    <3>8. \A k \in DOMAIN u : u[k].key # KeyOf[r] /\ \E j \in DOMAIN s : u[k] = s[j]
      BY <1>0, <3>1, <3>5 DEF Unique
    <3> QED
      BY <3>2, <3>3, <3>7, <3>8
  <2> QED
    BY <2>1, <2>2, <2>3
<1>5. ASSUME NEW i \in DOMAIN t, t[i].run = "flight" PROVE HasRun(p, t[i].key)'
  <2>1. PICK j \in DOMAIN s : t[i] = s[j]
    BY <1>4, <1>5
  <2>2. HasRun(p, t[i].key)
    BY <1>0, <1>5, <2>1 DEF MapInv, FlightsHaveRuns
  <2>3. t \in Seq(Entries)
    BY DEF Maps
  <2>4. t[i].key \in Keys
    <3>1. t[i] \in Entries
      BY <2>3
    <3> QED
      BY <3>1 DEF Entries
  <2> QED
    BY <1>0, <1>3, <1>4, <1>5, <2>2, <2>4
<1>6. EntriesUnique' /\ FlightsHaveRuns'
  BY <1>0, <1>3, <1>4, <1>5, OneMapChanges DEF MapInv
<1> QED
  BY <1>2, <1>6 DEF MapInv

\* A process that dies loses its map and its sharers together with its runs.
LEMMA CrashKeepsMap ==
  ASSUME Inv, MapInv, NEW p \in Processes, Crash(p)
  PROVE  MapInv'
<1>0. /\ TypeOK /\ <<>> \in Maps
      /\ stage' = [r \in Requests |-> IF r \in {q \in Requests : ProcessOf[q] = p} THEN "idle" ELSE stage[r]]
      /\ deliveries' = [deliveries EXCEPT ![p] = <<>>]
  BY IngestAssumption DEF Inv, Crash, Maps
<1>1. ASSUME NEW q \in Processes \ {p}, NEW k, HasRun(q, k) PROVE HasRun(q, k)'
  <2>1. PICK v \in Requests : AnswersFor(v, q, k)
    BY <1>1 DEF HasRun
  <2>2. stage'[v] = stage[v]
    BY <1>0, <2>1 DEF AnswersFor
  <2> QED
    BY <2>1, <2>2 DEF HasRun, AnswersFor
<1>2. EntriesUnique' /\ FlightsHaveRuns'
  <2> DEFINE t == <<>>
  <2>1. Unique(t) /\ \A i \in DOMAIN t : FALSE
    BY DEF Unique
  <2> QED
    BY <1>0, <1>1, <2>1, OneMapChanges DEF MapInv
<1>3. SharersAnswered'
  <2>1. ASSUME NEW r \in Requests, stage'[r] = "sharing" PROVE HasRun(ProcessOf[r], KeyOf[r])'
    <3>1. stage[r] = "sharing" /\ ProcessOf[r] \in Processes \ {p}
      BY <1>0, <2>1, IngestAssumption
    <3> QED
      BY <1>1, <3>1 DEF MapInv, SharersAnswered
  <2> QED
    BY <2>1 DEF SharersAnswered
<1> QED
  BY <1>2, <1>3 DEF MapInv

LEMMA MapStep == Inv /\ MapInv /\ [Next]_vars => MapInv'
<1> SUFFICES ASSUME Inv, MapInv, [Next]_vars PROVE MapInv'
  OBVIOUS
<1>0. stage \in [Requests -> Stages]
  BY DEF Inv, TypeOK
<1>1. CASE UNCHANGED vars
  BY <1>1, MapsRest DEF vars
<1>2. ASSUME NEW r \in Requests, DeliverIssue(r) PROVE MapInv'
  BY <1>2, DeliverKeepsMap
<1>3. ASSUME NEW r \in Requests, DeliverReview(r) PROVE MapInv'
  BY <1>0, <1>3, MapsRest DEF DeliverReview, MoveTo, AtRest, Answering, Running
<1>4. ASSUME NEW r \in Requests, TakeClaim(r) PROVE MapInv'
  <2>1. ASSUME NEW late \in SUBSET Rivals(r), Granted(r, late) PROVE MapInv'
    BY <2>1, GrantKeepsMap
  <2>2. CASE Declined(r) \/ LateMarker(r) \/ AllLose(r) \/ ClaimFails(r)
    <3>1. UNCHANGED deliveries /\ stage[r] \in Contending /\ \E to \in AtRest : stage' = [stage EXCEPT ![r] = to]
      BY <2>2 DEF Declined, LateMarker, AllLose, ClaimFails, MoveTo, Accepted, AtRest, Contending
    <3> QED
      BY <1>0, <3>1, MapsRest DEF AtRest, Contending, Answering, Running
  <2> QED
    BY <1>4, <2>1, <2>2 DEF TakeClaim
<1>5. ASSUME NEW r \in Requests, Start(r) \/ Succeed(r) PROVE MapInv'
  BY <1>0, <1>5, MapsRest DEF Start, Succeed, MoveTo, Answering, Running
<1>6. ASSUME NEW r \in Requests, Publish(r) \/ Fail(r) PROVE MapInv'
  BY <1>6, SettleKeepsMap DEF Publish, Fail, Answering
<1>7. ASSUME NEW r \in Requests, Release(r) \/ Complete(r) PROVE MapInv'
  BY <1>0, <1>7, MapsRest DEF Release, Complete, MoveTo, Accepted, Answering, Running
<1>8. ASSUME NEW p \in Processes, NEW found \in SUBSET Polls(p), PollPass(p, found) PROVE MapInv'
  BY <1>0, <1>8, MapsRest DEF PollPass, Polls, AtRest, Answering, Running
<1>9. ASSUME NEW p \in Processes, Crash(p) PROVE MapInv'
  BY <1>9, CrashKeepsMap
<1> QED
  BY <1>1, <1>2, <1>3, <1>4, <1>5, <1>6, <1>7, <1>8, <1>9 DEF Next, Finish

LEMMA SpecMap == Spec => []MapInv
<1>1. Init => MapInv
  BY DEF Init, MapInv, EntriesUnique, Unique, FlightsHaveRuns, SharersAnswered
<1> QED
  BY <1>1, MapStep, Invariance, PTL DEF Spec

\* A redelivery that shares a run (operations.ts:600-606) shares one that is still to be answered, of
\* its own process: no eviction, failure or restart leaves it waiting for nobody.
THEOREM SharersAreAnswered == Spec => []SharersAnswered
<1>1. MapInv => SharersAnswered
  BY DEF MapInv
<1> QED
  BY <1>1, SpecMap, PTL

\* The map never holds two entries of one delivery, so that settling or deleting the entry of a run
\* (operations.ts:619-640) reaches the entry that run put there.
THEOREM MapsAreMaps == Spec => [](EntriesUnique /\ FlightsHaveRuns)
<1>1. MapInv => EntriesUnique /\ FlightsHaveRuns
  BY DEF MapInv
<1> QED
  BY <1>1, SpecMap, PTL

-----------------------------------------------------------------------------
(* The retry *)

\* A claim that nothing touches stays unblocked while its holder stays.
LEMMA UntouchedStays ==
  ASSUME NEW k \in Keys, Unblocked(k), claim'[k] = claim[k], done \subseteq done',
         \A q \in Requests : (KeyOf[q] = k /\ stage[q] \in Holding) => stage'[q] \in Holding
  PROVE  Unblocked(k)'
  BY DEF Unblocked

LEMMA UnblockedStep ==
  ASSUME Inv, NEW k \in Keys, Unblocked(k), Next, ~Trouble(k)
  PROVE  Unblocked(k)'
<1>0. /\ stage \in [Requests -> Stages] /\ claim \in [Keys -> Requests \cup {Free, Standing}]
      /\ \A r \in Requests : KeyOf[r] \in Keys
  BY IngestAssumption DEF Inv, TypeOK
<1>1. CASE \/ \E r \in Requests : DeliverIssue(r) \/ DeliverReview(r)
           \/ \E p \in Processes : \E found \in SUBSET Polls(p) : PollPass(p, found)
  <2>1. UNCHANGED claim /\ UNCHANGED done
    BY <1>1 DEF DeliverIssue, DeliverReview, PollPass
  <2>2. \A q \in Requests : stage[q] \in Holding => stage'[q] = stage[q]
    <3>1. ASSUME NEW r \in Requests, DeliverIssue(r) \/ DeliverReview(r)
          PROVE  stage[r] \in AtRest /\ \A q \in Requests \ {r} : stage'[q] = stage[q]
      BY <1>0, <3>1 DEF DeliverIssue, DeliverReview, MoveTo
    <3>2. ASSUME NEW p \in Processes, NEW found \in SUBSET Polls(p), PollPass(p, found),
                 NEW q \in Requests, stage[q] \in Holding
          PROVE  stage'[q] = stage[q]
      BY <1>0, <3>2 DEF PollPass, AtRest, Holding, Running
    <3> QED
      BY <1>1, <3>1, <3>2 DEF AtRest, Holding, Running
  <2> QED
    BY <2>1, <2>2, UntouchedStays
<1>2. ASSUME NEW r \in Requests, NEW late \in SUBSET Rivals(r), Granted(r, late) PROVE Unblocked(k)'
  <2>1. /\ stage' = [q \in Requests |-> IF q = r THEN "starting" ELSE IF q \in late THEN "late" ELSE stage[q]]
        /\ claim' = [claim EXCEPT ![KeyOf[r]] = r] /\ UNCHANGED done
        /\ \A q \in late : stage[q] = "claiming"
    BY <1>2 DEF Granted, Rivals
  <2>2. CASE k = KeyOf[r]
    BY <2>1, <2>2 DEF Unblocked, Holding, Running
  <2>3. CASE k # KeyOf[r]
    <3>1. claim'[k] = claim[k]
      BY <1>0, <2>1, <2>3
    <3>2. \A q \in Requests : (KeyOf[q] = k /\ stage[q] \in Holding) => stage'[q] \in Holding
      BY <2>1, <2>3 DEF Holding, Running
    <3> QED
      BY <2>1, <3>1, <3>2, UntouchedStays
  <2> QED
    BY <2>2, <2>3
<1>3. ASSUME NEW r \in Requests, Declined(r) \/ LateMarker(r) \/ AllLose(r) \/ ClaimFails(r)
      PROVE  Unblocked(k)'
  <2>1. /\ stage[r] \in Contending /\ UNCHANGED done
        /\ \A q \in Requests \ {r} : stage'[q] = stage[q]
    BY <1>0, <1>3 DEF Declined, LateMarker, AllLose, ClaimFails, MoveTo, Contending
  <2>2. claim'[k] = claim[k] \/ (k = KeyOf[r] /\ claim'[k] = Standing /\ ~Declined(r))
    BY <1>0, <1>3 DEF Declined, LateMarker, AllLose, ClaimFails
  <2>3. claim'[k] = claim[k]
    BY <1>3, <2>2 DEF Trouble
  <2>4. \A q \in Requests : stage[q] \in Holding => stage'[q] \in Holding
    BY <2>1 DEF Contending, Holding, Running
  <2> QED
    BY <2>1, <2>3, <2>4, UntouchedStays
<1>4. ASSUME NEW r \in Requests, Start(r) \/ Succeed(r) \/ Publish(r) \/ Fail(r) PROVE Unblocked(k)'
  <2>1. UNCHANGED claim /\ done \subseteq done'
    BY <1>4 DEF Start, Succeed, Publish, Fail
  <2>2. stage'[r] \in Holding
    BY <1>0, <1>4 DEF Start, Succeed, Publish, Fail, MoveTo, Settle, Holding, Running
  <2>3. \A q \in Requests \ {r} : stage[q] \in Holding => stage'[q] = stage[q]
    BY <1>0, <1>4 DEF Start, Succeed, Publish, Fail, MoveTo, Settle, Sharers, Holding, Running
  <2> QED
    BY <2>1, <2>2, <2>3, UntouchedStays
<1>5. ASSUME NEW r \in Requests, Release(r) \/ Complete(r) PROVE Unblocked(k)'
  <2>1. UNCHANGED done /\ \A q \in Requests \ {r} : stage'[q] = stage[q]
    BY <1>0, <1>5 DEF Release, Complete, MoveTo
  <2>2. CASE k # KeyOf[r]
    <3>1. claim'[k] = claim[k]
      BY <1>0, <1>5, <2>2 DEF Release, Complete
    <3> QED
      BY <2>1, <2>2, <3>1, UntouchedStays
  <2>3. CASE k = KeyOf[r] /\ Release(r)
    <3>1. claim'[k] \in {Free, Standing}
      BY <1>0, <2>3 DEF Release
    <3>2. claim'[k] # Standing
      BY <2>3 DEF Trouble
    <3> QED
      BY <3>1, <3>2 DEF Unblocked
  <2>4. CASE k = KeyOf[r] /\ Complete(r)
    <3>1. k \in done
      BY <2>4 DEF Complete, MoveTo, Inv, FinishedIsDone
    <3> QED
      BY <2>1, <3>1 DEF Unblocked
  <2> QED
    BY <1>5, <2>2, <2>3, <2>4
<1>6. ASSUME NEW p \in Processes, Crash(p) PROVE Unblocked(k)'
  <2> DEFINE mine == {r \in Requests : ProcessOf[r] = p}
  <2>1. /\ stage' = [r \in Requests |-> IF r \in mine THEN "idle" ELSE stage[r]] /\ UNCHANGED done
        /\ IF claim[k] \in mine THEN claim'[k] = Standing ELSE claim'[k] \in {claim[k], Standing}
    BY <1>6 DEF Crash
  <2>2. claim'[k] # Standing
    BY <1>6 DEF Trouble
  <2>3. claim[k] \notin mine /\ claim'[k] = claim[k]
    BY <2>1, <2>2
  <2>4. \A q \in Requests : (KeyOf[q] = k /\ stage[q] \in Holding) => stage'[q] \in Holding
    BY <2>1, <2>3 DEF Inv, HoldersHold
  <2> QED
    BY <2>1, <2>3, <2>4, UntouchedStays
<1> QED
  BY <1>1, <1>2, <1>3, <1>4, <1>5, <1>6 DEF Next, TakeClaim, Finish

\* Only a process that dies, contenders that disturb each other, or a storage call that fails can leave
\* unfinished work that nobody is at with its claim closed: a full queue, a failing agent or a lost last
\* save never does (operations.ts:496-499, 635-640, poller.ts:153-159).
THEOREM OnlyTroubleBlocks == Spec => BlockedByTroubleOnly
<1> DEFINE Step == \A k \in Keys : (Unblocked(k) /\ ~Unblocked(k)') => Trouble(k)
<1>1. Inv /\ [Next]_vars => [Step]_vars
  BY UnblockedStep
<1>2. BlockedByTroubleOnly <=> [][Step]_vars
  BY DEF BlockedByTroubleOnly
<1> HIDE DEF Step
<1> QED
  BY <1>1, <1>2, Invariance, PTL DEF Spec

-----------------------------------------------------------------------------
(* The claims *)

\* An outcome is recorded under a claim that is over, never to be granted again.
OutcomesStand == \A k \in Keys : claim[k] # Standing => outcome[k] = None

\* The claim of one key, seen by the store, takes a step of the exclusive claim or none.
ClaimStep(k) == Claim(k)!Next \/ UNCHANGED <<FALSE, claim[k], outcome[k]>>

LEMMA ClaimsStep ==
  ASSUME Inv, OutcomesStand, NEW k \in Keys, [Next]_vars
  PROVE  ClaimStep(k) /\ (claim'[k] # Standing => outcome'[k] = None)
<1> DEFINE Goal == ClaimStep(k) /\ (claim'[k] # Standing => outcome'[k] = None)
<1>0. /\ claim \in [Keys -> Requests \cup {Free, Standing}] /\ outcome \in [Keys -> {None, "accepted", "started"}]
      /\ \A r \in Requests : KeyOf[r] \in Keys
      /\ Free \notin Requests /\ Standing \notin Requests /\ Free # Standing
      /\ claim[k] # Standing => outcome[k] = None
  BY IngestAssumption DEF Inv, TypeOK, OutcomesStand
<1>1. CASE claim'[k] = claim[k] /\ outcome'[k] = outcome[k]
  BY <1>0, <1>1 DEF ClaimStep
<1>2. CASE outcome'[k] = outcome[k] /\ claim[k] = Free /\ claim'[k] = Standing
  <2>1. Claim(k)!Spoil
    BY <1>2 DEF Claim!Spoil
  <2> QED
    BY <1>2, <2>1 DEF ClaimStep, Claim!Next
<1>3. ASSUME NEW r \in Requests, NEW late \in SUBSET Rivals(r), Granted(r, late) PROVE Goal
  <2>1. CASE k = KeyOf[r]
    <3>1. claim[k] = Free /\ claim'[k] = r /\ outcome'[k] = outcome[k]
      BY <1>0, <1>3, <2>1 DEF Granted
    <3>2. Claim(k)!Take(r)
      BY <3>1 DEF Claim!Take
    <3> QED
      BY <1>0, <3>1, <3>2 DEF ClaimStep, Claim!Next
  <2>2. CASE k # KeyOf[r]
    BY <1>0, <1>1, <1>3, <2>2 DEF Granted
  <2> QED
    BY <2>1, <2>2
<1>4. ASSUME NEW r \in Requests, LateMarker(r) PROVE Goal
  <2>1. CASE k # KeyOf[r] \/ claim[k] \in Requests
    BY <1>0, <1>1, <1>4, <2>1 DEF LateMarker
  <2>2. CASE k = KeyOf[r] /\ claim[k] = Free
    BY <1>0, <1>2, <1>4, <2>2 DEF LateMarker
  <2>3. CASE k = KeyOf[r] /\ claim[k] = Standing
    <3>1. claim'[k] = claim[k] /\ outcome'[k] = None
      BY <1>0, <1>4, <2>3 DEF LateMarker
    <3>2. Claim(k)!Forget
      BY <2>3, <3>1 DEF Claim!Forget
    <3> QED
      BY <3>1, <3>2 DEF ClaimStep, Claim!Next
  <2> QED
    BY <1>0, <2>1, <2>2, <2>3
<1>5. ASSUME NEW r \in Requests, AllLose(r) \/ ClaimFails(r) PROVE Goal
  BY <1>0, <1>1, <1>2, <1>5 DEF AllLose, ClaimFails
<1>6. ASSUME NEW r \in Requests, Release(r) \/ Complete(r) PROVE Goal
  <2>1. claim[KeyOf[r]] = r
    BY <1>6 DEF Release, Complete, MoveTo, Inv, HoldersHold, Holding
  <2>2. CASE k # KeyOf[r]
    BY <1>0, <1>1, <1>6, <2>2 DEF Release, Complete
  <2>3. CASE k = KeyOf[r] /\ Release(r)
    <3>1. claim[k] = r /\ claim'[k] \in {Free, Standing} /\ outcome'[k] = outcome[k]
      BY <1>0, <2>1, <2>3 DEF Release
    <3>2. Claim(k)!GiveBack(r) \/ Claim(k)!Lose(r)
      BY <3>1 DEF Claim!GiveBack, Claim!Lose
    <3> QED
      BY <1>0, <3>1, <3>2 DEF ClaimStep, Claim!Next
  <2>4. CASE k = KeyOf[r] /\ Complete(r)
    <3>1. /\ claim[k] = r /\ claim'[k] = Standing
          /\ outcome'[k] = outcome[k] \/ outcome'[k] \in {"accepted", "started"}
      BY <1>0, <2>1, <2>4 DEF Complete
    <3>2. Claim(k)!Lose(r) \/ \E o \in {"accepted", "started"} : Claim(k)!Record(r, o)
      BY <3>1 DEF Claim!Lose, Claim!Record
    <3> QED
      BY <3>1, <3>2 DEF ClaimStep, Claim!Next
  <2> QED
    BY <1>6, <2>2, <2>3, <2>4
<1>7. ASSUME NEW p \in Processes, Crash(p) PROVE Goal
  <2>1. /\ outcome'[k] = outcome[k]
        /\ claim'[k] = claim[k] \/ (claim[k] \in Requests \cup {Free} /\ claim'[k] = Standing)
    BY <1>0, <1>7 DEF Crash
  <2>2. CASE claim[k] \in Requests /\ claim'[k] = Standing
    <3>1. Claim(k)!Lose(claim[k])
      BY <2>1, <2>2 DEF Claim!Lose
    <3> QED
      BY <2>2, <3>1 DEF ClaimStep, Claim!Next
  <2> QED
    BY <1>1, <1>2, <2>1, <2>2
<1>8. CASE UNCHANGED <<claim, outcome>>
  BY <1>1, <1>8
<1> QED
  BY <1>3, <1>4, <1>5, <1>6, <1>7, <1>8
  DEF Next, vars, DeliverIssue, DeliverReview, PollPass, TakeClaim, Declined, Finish, Start, Succeed, Publish, Fail

LEMMA SpecOutcomes == Spec => [](Inv /\ OutcomesStand)
<1>1. Init => OutcomesStand
  BY DEF Init, OutcomesStand
<1>2. Inv /\ OutcomesStand /\ [Next]_vars => OutcomesStand'
  BY ClaimsStep DEF OutcomesStand
<1> QED
  BY <1>1, <1>2, Invariance, PTL DEF Spec

\* Every channel of every process uses the claim of each key as DeliveryClaimStore promises it, on a
\* driver without a conditional create: the steps Ingest takes for the store's calls are steps of the
\* same ExclusiveClaim that DeliveryClaims implements.
THEOREM ClaimsAreExclusive ==
  ASSUME NEW k \in Keys
  PROVE  Spec => Claim(k)!Spec
<1>1. Init => Claim(k)!Init
  BY DEF Init, Claim!Init
<1>2. Inv /\ OutcomesStand /\ [Next]_vars => [Claim(k)!Next]_<<FALSE, claim[k], outcome[k]>>
  BY ClaimsStep DEF ClaimStep
<1> QED
  BY <1>1, <1>2, SpecOutcomes, PTL DEF Spec, Claim!Spec

=============================================================================
