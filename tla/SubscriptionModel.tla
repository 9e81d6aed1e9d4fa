-------------------------- MODULE SubscriptionModel --------------------------
(***************************************************************************)
(* A model on a subscription plan, packages/core/models: the transport     *)
(* that drives a vendor's command line (providers/subscription.ts), inside *)
(* ResumingSubscriptionProvider, which waits for a spent usage window to   *)
(* reopen, inside FallbackModelProvider (index.ts).  One run calls decide()*)
(* again and again; its calls share one session object.  What the vendor's *)
(* process reports and how it ends is external.                            *)
(***************************************************************************)
EXTENDS Integers

CONSTANTS
  MaxWait,         \* CODE_ZERO_SUBSCRIPTION_LIMIT_WAIT_MS
  MaxLimitWaits,   \* MAX_LIMIT_WAITS
  Grace,           \* RESET_GRACE_MS
  LongestTimer,    \* the longest delay setTimeout keeps, 2^31 - 1 ms
  MaxDecides,      \* bound: how often a run asks
  MaxInstant,      \* bound: the latest reset instant reported
  MaxClock,        \* bound: time passes by itself up to here
  None

ASSUME SubscriptionAssumption ==
  /\ MaxWait \in Nat /\ MaxLimitWaits \in Nat /\ Grace \in Nat \ {0}
  /\ LongestTimer \in Nat \ {0}
  /\ MaxDecides \in Nat /\ MaxInstant \in Nat /\ MaxClock \in Nat
  /\ None \notin Int

Instants == 0..MaxInstant
MaybeInstant == Instants \cup {None}

VARIABLES
  setup,      \* refused: this run may not use the transport; fallback: another is configured
  at,         \* where decide() is
  decides,    \* how often decide() was called
  attempt,    \* of the loop in ResumingSubscriptionProvider.decide
  budget,     \* budgetMs
  session,    \* SubscriptionSession
  clock,
  wakes,      \* when the sleep ends
  waitedFor   \* the instant the last wait of this decide() was for, if a timer can last that long

vars == <<setup, at, decides, attempt, budget, session, clock, wakes, waitedFor>>

Sessions == [id : {None, "known"}, resume : {None, "known"}, resetsAt : MaybeInstant, rejected : BOOLEAN]

\* The wait is bounded twice, by the budget and by the count: both stay in their range.
TypeOK ==
  /\ setup \in [refused : BOOLEAN, fallback : BOOLEAN]
  /\ at \in {"idle", "calling", "waiting", "fallback", "failed"}
  /\ decides \in 0..MaxDecides
  /\ attempt \in 0..MaxLimitWaits
  /\ budget \in 0..MaxWait
  /\ session \in Sessions
  /\ clock \in Nat /\ wakes \in Nat
  /\ waitedFor \in MaybeInstant

Init ==
  /\ setup \in [refused : BOOLEAN, fallback : BOOLEAN]
  /\ at = "idle"
  /\ decides = 0 /\ attempt = 0 /\ budget = MaxWait
  /\ session = [id |-> None, resume |-> None, resetsAt |-> None, rejected |-> FALSE]
  /\ clock = 0 /\ wakes = 0
  /\ waitedFor = None

-----------------------------------------------------------------------------

\* decide(): a new budget and a new count, on the session of the call before.
Begin ==
  /\ at = "idle" /\ decides < MaxDecides
  /\ at' = "calling"
  /\ decides' = decides + 1
  /\ attempt' = 0 /\ budget' = MaxWait
  /\ waitedFor' = None
  /\ UNCHANGED <<setup, session, clock, wakes>>

\* Time passes while the model works, or between two decisions.
Tick ==
  /\ at \in {"idle", "calling"} /\ clock < MaxClock
  /\ clock' = clock + 1
  /\ UNCHANGED <<setup, at, decides, attempt, budget, session, wakes, waitedFor>>

\* observeSdkMessage(): the process names its session, and may report the state of the usage window.
Report ==
  /\ at = "calling" /\ ~setup.refused
  /\ \/ session' = [session EXCEPT !.id = "known"]
     \/ \E rejected \in BOOLEAN, instant \in MaybeInstant :
          session' = [session EXCEPT !.id = "known", !.rejected = rejected,
                                     !.resetsAt = IF instant = None THEN @ ELSE instant]
  /\ UNCHANGED <<setup, at, decides, attempt, budget, clock, wakes, waitedFor>>

\* The model decides, or it answers what is no decision, which nobody translates.
Answer ==
  /\ at \in {"calling", "fallback"}
  /\ at = "calling" => ~setup.refused
  /\ at' \in {"idle", "failed"}
  /\ UNCHANGED <<setup, decides, attempt, budget, session, clock, wakes, waitedFor>>

\* limitReached(): the last report was a rejection, or the error says so.
Limited(kind) == kind # "missing" /\ (session.rejected \/ kind = "limit")

\* The instant reported, else the one the error states.
ResetsAt(stated) == IF session.resetsAt # None THEN session.resetsAt ELSE stated

Longer(a, b) == IF a > b THEN a ELSE b

\* Mutant: each wait is held against the whole budget.
CoveredAtFirst(stated) ==
  /\ ResetsAt(stated) # None
  /\ attempt < MaxLimitWaits
  /\ ResetsAt(stated) - clock + Grace <= MaxWait

\* Whether this decide() can wait for the window to reopen.
Covered(stated) ==
  /\ ResetsAt(stated) # None
  /\ attempt < MaxLimitWaits
  /\ ResetsAt(stated) - clock + Grace <= budget

\* The time until the instant and its margin, none if it has passed.
WaitingTime(stated) == Longer(ResetsAt(stated) - clock + Grace, 0)

\* defaultSleep(): setTimeout ends a longer delay than it can keep after one millisecond.
TimerFor(wait) == IF wait <= LongestTimer THEN wait ELSE 1

\* Mutant: the waiting time leaves out the instant itself.
WaitFromHere(stated) ==
  LET wait == WaitingTime(stated) IN
  /\ at' = "waiting"
  /\ waitedFor' = IF wait <= LongestTimer THEN ResetsAt(stated) ELSE None
  /\ wakes' = clock + Grace
  /\ budget' = budget - wait
  /\ attempt' = attempt + 1
  /\ session' = [session EXCEPT !.resume = session.id, !.rejected = FALSE, !.resetsAt = None]

\* Mutant: only a wait that takes time counts as an attempt.
WaitUncounted(stated) ==
  LET wait == WaitingTime(stated) IN
  /\ at' = "waiting"
  /\ waitedFor' = IF wait <= LongestTimer THEN ResetsAt(stated) ELSE None
  /\ wakes' = clock + TimerFor(wait)
  /\ budget' = budget - wait
  /\ attempt' = IF wait > 0 THEN attempt + 1 ELSE attempt
  /\ session' = [session EXCEPT !.resume = session.id, !.rejected = FALSE, !.resetsAt = None]

\* The wait begins; the next call is to continue the session that was cut short.
Wait(stated) ==
  LET wait == WaitingTime(stated) IN
  /\ at' = "waiting"
  /\ waitedFor' = IF wait <= LongestTimer THEN ResetsAt(stated) ELSE None
  /\ wakes' = clock + TimerFor(wait)
  /\ budget' = budget - wait
  /\ attempt' = attempt + 1
  /\ session' = [session EXCEPT !.resume = session.id, !.rejected = FALSE, !.resetsAt = None]

\* The error leaves ResumingSubscriptionProvider.  One that means the transport is unavailable is the
\* fallback's turn; nothing of the session is reset.
Propagate(unavailable) ==
  /\ at' = IF unavailable /\ setup.fallback THEN "fallback" ELSE "failed"
  /\ UNCHANGED <<attempt, budget, session, wakes, waitedFor>>

\* The call fails: no executable, a spent window, no login, or anything else, a timeout included.
CallFails(kind, stated) ==
  /\ at = "calling" /\ ~setup.refused
  /\ IF Limited(kind) /\ Covered(stated)
       THEN Wait(stated)
       ELSE Propagate(Limited(kind) \/ kind \in {"missing", "login"})
  /\ UNCHANGED <<setup, decides, clock>>

\* A run that may not use the transport is told so before anything is started.
CallRefused ==
  /\ at = "calling" /\ setup.refused
  /\ Propagate(TRUE)
  /\ UNCHANGED <<setup, decides, clock>>

\* The sleep ends, and the same context is put to the transport again.
Wake ==
  /\ at = "waiting"
  /\ clock' = Longer(wakes, clock)
  /\ at' = "calling"
  /\ UNCHANGED <<setup, decides, attempt, budget, session, wakes, waitedFor>>

Kinds == {"missing", "limit", "login", "other"}

Next ==
  \/ Begin \/ Tick \/ Report \/ Answer \/ CallRefused \/ Wake
  \/ \E kind \in Kinds, stated \in MaybeInstant : CallFails(kind, stated)

\* Every call is bounded by a timeout, and sleeps end.
Fairness ==
  /\ WF_vars(Answer \/ CallRefused \/ \E kind \in Kinds, stated \in MaybeInstant : CallFails(kind, stated))
  /\ WF_vars(Wake)

Spec == Init /\ [][Next]_vars /\ Fairness

-----------------------------------------------------------------------------

\* A call that follows a wait comes after the reset the wait was for and its margin: "a retry never
\* races the reset instant the transport reported" (index.ts:275).  The code keeps this only as long
\* as a timer can last: nothing bounds CODE_ZERO_SUBSCRIPTION_LIMIT_WAIT_MS (index.ts:529-538), and a
\* longer wait ends at once.
RetriesAfterReset == (at = "calling" /\ waitedFor # None) => clock >= waitedFor + Grace

\* Every decision is made or fails, "so neither a distant reset nor a transport that reports a stale
\* instant can spin" (index.ts:290-291).
DecideEnds == at = "calling" ~> at \in {"idle", "failed"}

=============================================================================
