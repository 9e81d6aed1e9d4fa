------------------------------- MODULE Ingest -------------------------------
(***************************************************************************)
(* How work comes in: webhook deliveries (packages/api/src/operations.ts,  *)
(* ingestWebhook) and polling passes (apps/web/server/utils/poller.ts,     *)
(* pollOnce), on several processes that share the durable claims.          *)
(*                                                                         *)
(* A member of Requests is a slot: one issue delivery, proactive review    *)
(* delivery or polled pull request at a time, always of the same key and   *)
(* process, again and again.  The claim store is the one DeliveryClaims    *)
(* models, here one step per call, on the driver apps/web composes: one    *)
(* without a conditional create.  A delivery that the policy or the        *)
(* settings refuse ends before any claim and changes nothing, and a review *)
(* that a person asks for runs without one: neither is modelled.           *)
(***************************************************************************)
EXTENDS Naturals, Sequences, SequencesExt

CONSTANTS
  Requests,
  Keys,
  Processes,
  KeyOf,       \* the delivery (issue) or the commit (review, poll) a request is about
  ProcessOf,
  ChannelOf,
  MapSize,     \* MAX_DELIVERY_CLAIMS
  Free,        \* no marker stands for the key
  Standing,    \* a marker stands that no live request will complete or release
  None         \* no outcome is recorded

Channels == {"issue", "review", "poll"}

ASSUME IngestAssumption ==
  /\ KeyOf \in [Requests -> Keys]
  /\ ProcessOf \in [Requests -> Processes]
  /\ ChannelOf \in [Requests -> Channels]
  /\ MapSize \in Nat \ {0}
  /\ Free \notin Requests /\ Standing \notin Requests /\ Free # Standing
  /\ None \notin {"accepted", "started"}
  \* A delivery identifier is never a commit's key.
  /\ \A r, q \in Requests : KeyOf[r] = KeyOf[q] => (ChannelOf[r] = "issue" <=> ChannelOf[q] = "issue")

VARIABLES
  stage,       \* how far each request is, or how the last one of its slot was answered
  begun,       \* the requests whose review or fix has been started by the scheduler
  claim,       \* who holds the claim of each key
  outcome,     \* the outcome the claim store has recorded for each key
  deliveries,  \* the in-memory map of each process, oldest first
  done         \* the keys a run of which has succeeded

vars == <<stage, begun, claim, outcome, deliveries, done>>

\* A request that was answered "ignored", or an error, is told apart from none by no property.
AtRest == {"idle", "accepted"}
\* "late": a contender that saw the door open and writes its marker after another has won.
Contending == {"claiming", "late"}
Running == {"starting", "working"}
Holding == Running \cup {"publishing", "completing", "releasing"}
Stages == AtRest \cup Contending \cup Holding \cup {"sharing"}

\* The run of an entry is in flight, or it has succeeded: the entry of a failed one is deleted.
Entries == [key : Keys, run : {"flight", "settled"}]

Polls(p) == {r \in Requests : ChannelOf[r] = "poll" /\ ProcessOf[r] = p}
IsIssue(r) == ChannelOf[r] = "issue"
MapOf(r) == deliveries[ProcessOf[r]]
EntryOf(r) == {i \in DOMAIN MapOf(r) : MapOf(r)[i].key = KeyOf[r]}

TypeOK ==
  /\ stage \in [Requests -> Stages]
  /\ begun \subseteq Requests
  /\ claim \in [Keys -> Requests \cup {Free, Standing}]
  /\ outcome \in [Keys -> {None, "accepted", "started"}]
  /\ deliveries \in [Processes -> Seq(Entries)]
  /\ \A p \in Processes : Len(deliveries[p]) <= MapSize
  /\ done \subseteq Keys

-----------------------------------------------------------------------------

Init ==
  /\ stage = [r \in Requests |-> "idle"]
  /\ begun = {}
  /\ claim = [k \in Keys |-> Free]
  /\ outcome = [k \in Keys |-> None]
  /\ deliveries = [p \in Processes |-> <<>>]
  /\ done = {}

\* A polled review answers nobody.
Accepted(r) == IF ChannelOf[r] = "poll" THEN "idle" ELSE "accepted"

MoveTo(r, from, to) ==
  /\ stage[r] \in from
  /\ stage' = [stage EXCEPT ![r] = to]

\* Redeliveries that wait for the run of r get its result when it settles.
Sharers(r) == {q \in Requests : stage[q] = "sharing" /\ ProcessOf[q] = ProcessOf[r] /\ KeyOf[q] = KeyOf[r]}

Settle(r, to, a) ==
  stage' = [q \in Requests |-> IF q = r THEN to ELSE IF q \in Sharers(r) THEN a ELSE stage[q]]

-----------------------------------------------------------------------------
(* Arrival *)

\* An issue delivery that finds its key in the map of its process shares that run.
DeliverIssue(r) ==
  /\ IsIssue(r)
  /\ stage[r] \in AtRest
  /\ IF EntryOf(r) = {}
       THEN stage' = [stage EXCEPT ![r] = "claiming"]
       ELSE \E i \in EntryOf(r) :
              stage' = [stage EXCEPT ![r] = IF MapOf(r)[i].run = "flight" THEN "sharing" ELSE "accepted"]
  /\ UNCHANGED <<begun, claim, outcome, deliveries, done>>

\* A proactive review delivery goes to the claim at once.
DeliverReview(r) ==
  /\ ChannelOf[r] = "review"
  /\ MoveTo(r, AtRest, "claiming")
  /\ UNCHANGED <<begun, claim, outcome, deliveries, done>>

\* A pass of the poller starts when the one before has ended, and claims the pull requests it finds
\* open and not drafts; a repository that cannot be listed contributes none.
PollPass(p, found) ==
  /\ \A r \in Polls(p) : stage[r] \in AtRest
  /\ stage' = [r \in Requests |-> IF r \in found THEN "claiming" ELSE stage[r]]
  /\ UNCHANGED <<begun, claim, outcome, deliveries, done>>

-----------------------------------------------------------------------------
(* The claim *)

\* Mutant: the map makes room one entry too late.
RegisterTooLate(r) ==
  deliveries' =
    [deliveries EXCEPT ![ProcessOf[r]] =
       Append(IF Len(@) > MapSize THEN Tail(@) ELSE @, [key |-> KeyOf[r], run |-> "flight"])]

\* A granted issue delivery enters the map, which drops its oldest entry when it is full, finished
\* or not.
Register(r) ==
  deliveries' =
    [deliveries EXCEPT ![ProcessOf[r]] =
       Append(IF Len(@) >= MapSize THEN Tail(@) ELSE @, [key |-> KeyOf[r], run |-> "flight"])]

\* Who asks for the same claim at the same time.
Rivals(r) == {q \in Requests \ {r} : stage[q] = "claiming" /\ KeyOf[q] = KeyOf[r]}

\* Mutant: the poller keys its claims apart from the webhook's.
GrantedPerChannel(r, late) ==
  /\ stage[r] = "claiming"
  /\ claim[KeyOf[r]] = Free \/ \E q \in Requests : claim[KeyOf[r]] = q /\ ChannelOf[q] # ChannelOf[r]
  /\ stage' = [q \in Requests |-> IF q = r THEN "starting" ELSE IF q \in late THEN "late" ELSE stage[q]]
  /\ claim' = [claim EXCEPT ![KeyOf[r]] = r]
  /\ IF IsIssue(r) THEN Register(r) ELSE UNCHANGED deliveries
  /\ UNCHANGED <<begun, outcome, done>>

\* The claim is granted.  Some of the rivals have seen the door open before.
Granted(r, late) ==
  /\ stage[r] = "claiming"
  /\ claim[KeyOf[r]] = Free
  /\ stage' = [q \in Requests |-> IF q = r THEN "starting" ELSE IF q \in late THEN "late" ELSE stage[q]]
  /\ claim' = [claim EXCEPT ![KeyOf[r]] = r]
  /\ IF IsIssue(r) THEN Register(r) ELSE UNCHANGED deliveries
  /\ UNCHANGED <<begun, outcome, done>>

\* Mutant: a claim in flight is answered like a recorded outcome.
DeclinedOptimistic(r) ==
  /\ claim[KeyOf[r]] # Free
  /\ MoveTo(r, {"claiming"}, Accepted(r))
  /\ UNCHANGED <<begun, claim, outcome, deliveries, done>>

\* The claim stands: a recorded webhook outcome is replayed.  What the poller records is none.
Declined(r) ==
  /\ claim[KeyOf[r]] # Free
  /\ MoveTo(r, {"claiming"},
            IF outcome[KeyOf[r]] = "accepted" THEN Accepted(r) ELSE "idle")
  /\ UNCHANGED <<begun, claim, outcome, deliveries, done>>

\* A late contender writes its empty marker over whatever is there, and loses.
LateMarker(r) ==
  LET k == KeyOf[r] IN
  /\ MoveTo(r, {"late"}, "idle")
  /\ claim' = [claim EXCEPT ![k] = IF @ = Free THEN Standing ELSE @]
  /\ outcome' = [outcome EXCEPT ![k] = None]
  /\ UNCHANGED <<begun, deliveries, done>>

\* Contenders that disturb each other, or that a release disturbs, may all lose, and the marker
\* stands for nobody.
AllLose(r) ==
  /\ claim[KeyOf[r]] = Free
  /\ MoveTo(r, {"claiming"}, "idle")
  /\ claim' = [claim EXCEPT ![KeyOf[r]] = Standing]
  /\ UNCHANGED <<begun, outcome, deliveries, done>>

\* The storage rejects the claim: the delivery fails, the poller goes on to the next pull request.
\* The write of the marker may have landed.
ClaimFails(r) ==
  /\ MoveTo(r, {"claiming"}, "idle")
  /\ \/ UNCHANGED claim
     \/ claim[KeyOf[r]] = Free /\ claim' = [claim EXCEPT ![KeyOf[r]] = Standing]
  /\ UNCHANGED <<begun, outcome, deliveries, done>>

-----------------------------------------------------------------------------
(* The run *)

\* The scheduler starts the run.
Start(r) ==
  /\ MoveTo(r, {"starting"}, "working")
  /\ begun' = begun \cup {r}
  /\ UNCHANGED <<claim, outcome, deliveries, done>>

\* The run resolves; that of an issue goes on to publish.
Succeed(r) ==
  /\ MoveTo(r, {"working"}, IF IsIssue(r) THEN "publishing" ELSE "completing")
  /\ done' = done \cup {KeyOf[r]}
  /\ UNCHANGED <<begun, claim, outcome, deliveries>>

\* The comment and the pull request are published or not, an error being only a reason; then the
\* promise in the map settles.
Publish(r) ==
  /\ stage[r] = "publishing"
  /\ Settle(r, "completing", "accepted")
  /\ deliveries' = [deliveries EXCEPT ![ProcessOf[r]] =
       [i \in DOMAIN @ |-> IF i \in EntryOf(r) THEN [@[i] EXCEPT !.run = "settled"] ELSE @[i]]]
  /\ UNCHANGED <<begun, claim, outcome, done>>

\* The entry of the key goes from the map, if it is still there.
Forget(r) ==
  deliveries' =
    [deliveries EXCEPT ![ProcessOf[r]] =
       IF EntryOf(r) = {} THEN @ ELSE RemoveAt(@, CHOOSE i \in EntryOf(r) : TRUE)]

\* Mutant: a run that throws ends the request with its claim kept.
FailKeepingClaim(r) ==
  /\ stage[r] \in Running
  /\ Settle(r, "idle", "idle")
  /\ begun' = begun \ {r}
  /\ Forget(r)
  /\ UNCHANGED <<claim, outcome, done>>

\* The run throws: refused by a full queue, or at any later point, its last save included.  The
\* entry in the map goes.
Fail(r) ==
  /\ stage[r] \in Running
  /\ Settle(r, "releasing", "idle")
  /\ Forget(r)
  /\ UNCHANGED <<begun, claim, outcome, done>>

\* The claim is released; a release that fails is silent and leaves the marker standing.
Release(r) ==
  /\ MoveTo(r, {"releasing"}, "idle")
  /\ begun' = begun \ {r}
  /\ \E c \in {Free, Standing} : claim' = [claim EXCEPT ![KeyOf[r]] = c]
  /\ UNCHANGED <<outcome, deliveries, done>>

\* Mutant: an outcome that cannot be recorded releases the claim.
CompleteOrRelease(r) ==
  /\ MoveTo(r, {"completing"}, Accepted(r))
  /\ begun' = begun \ {r}
  /\ \/ /\ claim' = [claim EXCEPT ![KeyOf[r]] = Standing]
        /\ outcome' = [outcome EXCEPT ![KeyOf[r]] = IF ChannelOf[r] = "poll" THEN "started" ELSE "accepted"]
     \/ /\ claim' = [claim EXCEPT ![KeyOf[r]] = Free]
        /\ UNCHANGED outcome
  /\ UNCHANGED <<deliveries, done>>

\* The outcome is recorded, or the write fails, which is silent too.
Complete(r) ==
  /\ MoveTo(r, {"completing"}, Accepted(r))
  /\ begun' = begun \ {r}
  /\ claim' = [claim EXCEPT ![KeyOf[r]] = Standing]
  /\ \/ outcome' = [outcome EXCEPT ![KeyOf[r]] = IF ChannelOf[r] = "poll" THEN "started" ELSE "accepted"]
     \/ UNCHANGED outcome
  /\ UNCHANGED <<deliveries, done>>

\* A process dies and comes back: its requests and its map are gone, what it claimed stays claimed,
\* and so may what it was about to claim.
Crash(p) ==
  LET mine == {r \in Requests : ProcessOf[r] = p}
      contended == {k \in Keys : claim[k] = Free /\ \E r \in mine : stage[r] \in Contending /\ KeyOf[r] = k}
  IN
  /\ stage' = [r \in Requests |-> IF r \in mine THEN "idle" ELSE stage[r]]
  /\ begun' = begun \ mine
  /\ \E marked \in SUBSET contended :
       claim' = [k \in Keys |-> IF claim[k] \in mine \/ k \in marked THEN Standing ELSE claim[k]]
  /\ deliveries' = [deliveries EXCEPT ![p] = <<>>]
  /\ UNCHANGED <<outcome, done>>

-----------------------------------------------------------------------------

Finish(r) == Start(r) \/ Succeed(r) \/ Publish(r) \/ Fail(r) \/ Release(r) \/ Complete(r)

TakeClaim(r) ==
  \/ \E late \in SUBSET Rivals(r) : Granted(r, late)
  \/ Declined(r) \/ LateMarker(r) \/ AllLose(r) \/ ClaimFails(r)

Next ==
  \/ \E r \in Requests : DeliverIssue(r) \/ DeliverReview(r) \/ TakeClaim(r) \/ Finish(r)
  \/ \E p \in Processes : \E found \in SUBSET Polls(p) : PollPass(p, found)
  \/ \E p \in Processes : Crash(p)

Spec == Init /\ [][Next]_vars

-----------------------------------------------------------------------------

\* One piece of work is run by one request at a time, over both channels, all processes, restarts
\* and evictions from the map.
OneRunAtATime ==
  \A r, q \in Requests :
    (stage[r] \in Running /\ stage[q] \in Running /\ KeyOf[r] = KeyOf[q]) => r = q

\* "accepted" is answered for finished work only, whichever way the answer came: from the run, from
\* the run of another delivery, from the map or from the record (operations.ts:483-492, 600-616).
AcceptedMeansDone == \A r \in Requests : stage[r] = "accepted" => KeyOf[r] \in done

\* Work that has succeeded is never run again: no lost outcome write, crash, eviction or late
\* contender opens its claim (operations.ts:496-499, poller.ts:165-170).
DoneIsDone ==
  [][\A r \in Requests : (stage'[r] \in Running /\ KeyOf[r] \in done) => stage[r] \in Running]_vars

\* Whoever asks for the claim next gets it, finds the work done, or finds somebody at it.
Unblocked(k) ==
  claim[k] # Free => k \in done \/ \E r \in Requests : KeyOf[r] = k /\ stage[r] \in Holding

\* A process dies, contenders are disturbed, or a call of the storage for the key fails, and the marker
\* is left for nobody.
Trouble(k) ==
  /\ claim'[k] = Standing
  /\ \/ \E p \in Processes : Crash(p)
     \/ \E r \in Requests :
          KeyOf[r] = k /\ (AllLose(r) \/ LateMarker(r) \/ ClaimFails(r) \/ Release(r))

\* What goes wrong with a run never blocks its retry: a full queue, an agent that fails, a last save or
\* an outcome that is lost.  The claim of work that is unfinished and that nobody is at is left closed
\* by trouble with the claim itself, and by nothing else (operations.ts:496-499, 635-640,
\* poller.ts:153-159).
BlockedByTroubleOnly ==
  [][\A k \in Keys : (Unblocked(k) /\ ~Unblocked(k)') => Trouble(k)]_vars

\* "a review that never started releases its claim for the next pass to retry, while one that did is
\* never released on a later failure" (poller.ts:96-98).
StartedIsNotRetried ==
  [][\A r \in begun : (ChannelOf[r] = "poll" /\ claim[KeyOf[r]] = r) => claim'[KeyOf[r]] # Free]_vars

\* Each key's claim is used as the store promises it, on a driver without a conditional create.
Claim(k) ==
  INSTANCE ExclusiveClaim WITH
    Claimants <- Requests, Outcomes <- {"accepted", "started"},
    conditional <- FALSE, claim <- claim[k], outcome <- outcome[k]

=============================================================================
