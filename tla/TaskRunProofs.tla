----------------------------- MODULE TaskRunProofs -----------------------------
(***************************************************************************)
(* Proofs about TaskRun, for any number of events and of decisions: what a *)
(* resolved run has told its caller is what is stored, no save of an older *)
(* snapshot lands on top of a newer one while the run goes well, and of a  *)
(* stored failure or decision it is known which saves may replace it.      *)
(***************************************************************************)
EXTENDS TaskRun, TLAPS

Unfinished == {"queued", "running"}

\* runTask() has gone wrong, or is over without a result.
Broken == {"failing", "rejected", "unsaved", "dead"}

\* The agent has not been started; it has, and may still be saving events; its result is recorded.
Quiet == {"new", "recording", "queued", "starting", "preparing", "leased", "refused", "unrecorded"}
Working == {"running", "wrapping", "draining"}
Closing == {"finishing", "resolved"}

\* A run fails once, so the room for the event of its failure is left until then.
Counted ==
  /\ stage \notin Broken => record.events <= MaxEvents
  /\ chain.waiting <= record.events
  /\ saves["events"] = None => chain.waiting = 0

\* The flow saves in four stages, and has its save answered before it goes on.
OneSaveAtATime ==
  /\ saves["run"] # None => stage \in DOMAIN AfterSave \cup {"dead"}
  /\ stage \in Quiet \cup Closing => saves["events"] = None
  /\ stage = "finishing" => saves["run"] \in Saves /\ saves["run"].value = record

\* A snapshot older than the record in memory, and taken before it had an outcome.
Older(r) == r.status \in Unfinished /\ r.events <= record.events

\* Until the outcome is recorded, the storage is behind every save in flight, and they behind the
\* record in memory; no decision can be under way.
Growing ==
  /\ stored # Absent => Older(stored)
  /\ \A d \in Deciders : saves[d] = None
  /\ \A w \in {"run", "events"} :
       saves[w] # None => /\ Older(saves[w].value)
                          /\ stored # Absent => stored.events <= saves[w].value.events

\* The final record, with at most a decision added to it.
Final(r) ==
  /\ r \in Records
  /\ [r EXCEPT !.approval = None] = record
  /\ r.approval # None => outcome = "needs-human"

\* Once the final record has landed, it is all that is ever saved again.
Concluded == Final(stored) /\ \A d \in Deciders : saves[d] # None => Final(saves[d].value)

Landed == stage = "resolved" \/ (stage = "finishing" /\ saves["run"].landed)

Ordered ==
  /\ stage \notin Broken => record.approval = None
  /\ stage \in Quiet \cup Working => record.status \in Unfinished /\ Growing
  /\ stage \in Closing =>
       /\ record.status = outcome /\ outcome \in Outcomes
       /\ Landed => Concluded
       /\ ~Landed => /\ stored # Absent => Older(stored)
                     /\ \A d \in Deciders : saves[d] = None
  /\ stage \in {"draining"} \cup Closing => lease # "held"
  /\ stage \in {"wrapping", "draining"} => outcome \in Outcomes

Inv == TypeOK /\ Counted /\ OneSaveAtATime /\ Ordered

-----------------------------------------------------------------------------

LEMMA Distinct ==
  /\ MaxEvents \in Nat /\ None \notin Saves /\ None \notin Deciders
  /\ "run" \in Writers /\ "events" \in Writers /\ Deciders \subseteq Writers
  /\ "run" \notin Deciders /\ "events" \notin Deciders
  BY TaskRunAssumption DEF Writers

\* A save of the record is a save.
LEMMA SaveType ==
  ASSUME NEW r \in Records
  PROVE  Save(r) \in Saves /\ Save(r) # None /\ Save(r).value = r /\ ~Save(r).landed
<1>1. Save(r) \in Saves /\ Save(r).value = r /\ ~Save(r).landed
  BY DEF Save, Saves
<1> QED
  BY <1>1, Distinct

LEMMA InitInv == Init => Inv
<1> SUFFICES ASSUME Init PROVE Inv
  OBVIOUS
<1>1. record \in Records /\ record.status = "queued" /\ record.events = 0 /\ record.approval = None
  BY Distinct DEF Init, Records
<1>2. stage = "new" /\ \A w \in Writers : saves[w] = None
  BY DEF Init
<1>3. TypeOK
  BY <1>1, <1>2, Distinct DEF Init, TypeOK, Stages
<1>4. Counted /\ OneSaveAtATime
  BY <1>1, <1>2, Distinct DEF Init, Counted, OneSaveAtATime, Closing
<1>5. Ordered
  BY <1>1, <1>2, Distinct DEF Init, Ordered, Growing, Older, Quiet, Working, Closing, Unfinished
<1> QED
  BY <1>3, <1>4, <1>5 DEF Inv

\* The flow goes on and nothing is saved.
LEMMA MoveStep ==
  ASSUME Inv, stage' \in Stages, UNCHANGED <<record, stored, saves, chain, decision>>,
         outcome' \in Outcomes \cup {None}, lease' \in {"none", "held", "returned"},
         \/ stage \in Quiet /\ stage' \in Quiet \cup {"running"} /\ saves["run"] = None
         \/ /\ stage \in Working /\ stage' \in Working
            /\ stage' \in {"wrapping", "draining"} => outcome' \in Outcomes
            /\ stage' = "draining" => lease' # "held"
  PROVE  Inv'
<1>1. TypeOK'
  BY DEF Inv, TypeOK
<1>2. Counted'
  BY DEF Inv, Counted, Quiet, Working, Broken
<1>3. OneSaveAtATime'
  BY DEF Inv, OneSaveAtATime, Quiet, Working, Closing, AfterSave
<1>4. stage \in Quiet \cup Working /\ stage' \in Quiet \cup Working
  BY DEF Working
<1>5. Growing' /\ record'.status \in Unfinished /\ record'.approval = None
  BY <1>4 DEF Inv, Ordered, Growing, Older, Quiet, Working, Broken
<1>6. Ordered'
  BY <1>4, <1>5 DEF Ordered, Quiet, Working, Closing
<1> QED
  BY <1>1, <1>2, <1>3, <1>6 DEF Inv

\* The run fails, wherever it is.
LEMMA FailStep ==
  ASSUME Inv, stage \notin Broken, Fail, UNCHANGED <<stored, chain, outcome, decision>>,
         lease' \in {"none", "held", "returned"}
  PROVE  Inv'
<1> DEFINE changed == [record EXCEPT !.status = "failed", !.events = @ + 1]
<1>1. stage' = "failing" /\ record' = changed /\ saves' = [saves EXCEPT !["run"] = Save(changed)]
  BY DEF Fail, SaveAt
<1>2. record \in Records /\ record.events \in 0 .. MaxEvents /\ record.events + 1 \in 0 .. MaxEvents + 1
  BY Distinct DEF Inv, TypeOK, Counted, Records
<1>3. changed \in Records /\ changed.events = record.events + 1
  BY <1>2 DEF Records, Outcomes
<1> HIDE DEF changed
<1>4. Save(changed) \in Saves /\ Save(changed) # None
  BY <1>3, SaveType
<1>5. saves' \in [Writers -> Saves \cup {None}] /\ saves'["events"] = saves["events"]
  BY <1>1, <1>4, Distinct DEF Inv, TypeOK
<1>6. TypeOK'
  BY <1>1, <1>3, <1>5 DEF Inv, TypeOK, Stages
<1>7. Counted'
  BY <1>1, <1>2, <1>3, <1>5 DEF Inv, TypeOK, Counted, Broken
<1>8. OneSaveAtATime' /\ Ordered'
  BY <1>1 DEF OneSaveAtATime, Ordered, AfterSave, Quiet, Working, Closing, Broken
<1> QED
  BY <1>6, <1>7, <1>8 DEF Inv

\* The flow goes on with a save of the record, whose status is not yet final.
LEMMA SaveStep ==
  ASSUME Inv, NEW to \in {"recording", "starting"}, NEW status \in Unfinished,
         stage \in {"new", "queued"},
         SaveAt(to, [record EXCEPT !.status = status]),
         UNCHANGED <<stored, chain, outcome, lease, decision>>
  PROVE  Inv'
<1> DEFINE changed == [record EXCEPT !.status = status]
<1>1. stage' = to /\ record' = changed /\ saves' = [saves EXCEPT !["run"] = Save(changed)]
  BY DEF SaveAt
<1>2. record \in Records /\ stage \notin Broken /\ stage \in Quiet /\ stage' \in Quiet /\ stage' \in Stages
  BY <1>1 DEF Inv, TypeOK, Broken, Quiet, Stages
<1>3. /\ changed \in Records /\ changed.events = record.events /\ changed.status = status
      /\ changed.approval = record.approval
  BY <1>2 DEF Records, Unfinished
<1> HIDE DEF changed
<1>4. Save(changed) \in Saves /\ Save(changed) # None /\ Save(changed).value = changed
  BY <1>3, SaveType
<1>5. /\ saves' \in [Writers -> Saves \cup {None}] /\ saves'["run"] = Save(changed)
      /\ \A w \in Writers \ {"run"} : saves'[w] = saves[w]
  BY <1>1, <1>4, Distinct DEF Inv, TypeOK
<1>6. TypeOK'
  BY <1>1, <1>2, <1>3, <1>5 DEF Inv, TypeOK
<1>7. Counted'
  BY <1>1, <1>2, <1>3, <1>5, Distinct DEF Inv, TypeOK, Counted, Broken
<1>8. OneSaveAtATime'
  BY <1>1, <1>2, <1>4, <1>5, Distinct DEF Inv, OneSaveAtATime, AfterSave, Closing, Quiet
<1>9. Growing'
  <2>1. stored # Absent => Older(stored)'
    BY <1>1, <1>2, <1>3 DEF Inv, Ordered, Growing, Older
  <2>2. \A d \in Deciders : saves'[d] = None
    BY <1>2, <1>5, Distinct DEF Inv, Ordered, Growing
  <2>3. saves'["events"] = None
    BY <1>2, <1>5, Distinct DEF Inv, OneSaveAtATime
  <2>4. changed.status \in Unfinished /\ changed.events <= record'.events
    BY <1>1, <1>2, <1>3 DEF Records
  <2>5. stored # Absent => stored.events <= changed.events
    BY <1>2, <1>3 DEF Inv, Ordered, Growing, Older
  <2> QED
    BY <1>1, <1>4, <1>5, <2>1, <2>2, <2>3, <2>4, <2>5 DEF Growing, Older
<1>10. Ordered'
  BY <1>1, <1>2, <1>3, <1>9 DEF Inv, Ordered, Quiet, Working, Closing, Broken
<1> QED
  BY <1>6, <1>7, <1>8, <1>10 DEF Inv

\* The final record is saved when no event save is left.
LEMMA FinishStep == Inv /\ Finish => Inv'
<1> SUFFICES ASSUME Inv, Finish PROVE Inv'
  OBVIOUS
<1> DEFINE changed == Finished
<1>1. /\ stage = "draining" /\ stage' = "finishing" /\ record' = changed
      /\ saves' = [saves EXCEPT !["run"] = Save(changed)] /\ saves["events"] = None
      /\ UNCHANGED <<stored, chain, outcome, lease, decision>>
  BY DEF Finish, SaveAt
<1>2. record \in Records /\ outcome \in Outcomes /\ record.approval = None /\ Growing
  BY <1>1 DEF Inv, TypeOK, Ordered, Working, Broken
<1>3. /\ changed \in Records /\ changed.events = record.events /\ changed.status = outcome
      /\ changed.approval = None
  BY <1>2 DEF Finished, Records
<1> HIDE DEF changed
<1>4. /\ Save(changed) \in Saves /\ Save(changed) # None /\ Save(changed).value = changed
      /\ ~Save(changed).landed
  BY <1>3, SaveType
<1>5. /\ saves' \in [Writers -> Saves \cup {None}] /\ saves'["run"] = Save(changed)
      /\ \A w \in Writers \ {"run"} : saves'[w] = saves[w]
  BY <1>1, <1>4, Distinct DEF Inv, TypeOK
<1>6. TypeOK'
  BY <1>1, <1>3, <1>5 DEF Inv, TypeOK, Stages
<1>7. Counted'
  BY <1>1, <1>3, <1>5, Distinct DEF Inv, TypeOK, Counted, Broken
<1>8. OneSaveAtATime'
  BY <1>1, <1>4, <1>5, Distinct DEF Inv, OneSaveAtATime, AfterSave, Closing, Quiet
<1>9. Ordered'
  <2>1. (stored # Absent => Older(stored))'
    BY <1>1, <1>2, <1>3 DEF Growing, Older
  <2>2. \A d \in Deciders : saves'[d] = None
    BY <1>2, <1>5, Distinct DEF Growing
  <2>3. ~Landed'
    BY <1>1, <1>4, <1>5 DEF Landed
  <2>4. lease' # "held"
    BY <1>1 DEF Inv, Ordered
  <2> QED
    BY <1>1, <1>2, <1>3, <2>1, <2>2, <2>3, <2>4 DEF Ordered, Quiet, Working, Closing, Broken
<1> QED
  BY <1>6, <1>7, <1>8, <1>9 DEF Inv

\* A save of the flow is answered: the flow goes on, or settles.
LEMMA AnswerStep ==
  ASSUME Inv, saves["run"] # None, UNCHANGED <<record, stored, chain, outcome, lease, decision>>,
         saves' = [saves EXCEPT !["run"] = None],
         \/ stage = "recording" /\ stage' \in {"queued", "unrecorded"}
         \/ stage = "starting" /\ stage' = "preparing"
         \/ stage = "finishing" /\ saves["run"].landed /\ stage' = "resolved"
         \/ stage = "failing" /\ stage' \in {"rejected", "unsaved"}
  PROVE  Inv'
<1>1. /\ saves' \in [Writers -> Saves \cup {None}] /\ saves'["run"] = None
      /\ \A w \in Writers \ {"run"} : saves'[w] = saves[w]
  BY Distinct DEF Inv, TypeOK
<1>2. TypeOK' /\ Counted'
  BY <1>1, Distinct DEF Inv, TypeOK, Counted, Stages, Settled, Broken
<1>3. OneSaveAtATime'
  BY <1>1, Distinct DEF Inv, OneSaveAtATime, Quiet, Closing
<1>4. CASE stage = "recording" \/ stage = "starting"
  <2>1. stage \in Quiet /\ stage' \in Quiet /\ stage \notin Broken
    BY <1>4 DEF Quiet, Broken
  <2>2. Growing' /\ record'.status \in Unfinished /\ record'.approval = None
    BY <1>1, <2>1, Distinct DEF Inv, Ordered, Growing, Older
  <2>3. Ordered'
    BY <1>4, <2>2 DEF Ordered, Closing
  <2> QED
    BY <1>2, <1>3, <2>3 DEF Inv
<1>5. CASE stage = "finishing"
  <2>1. Concluded /\ record.approval = None /\ outcome \in Outcomes /\ record.status = outcome /\ lease # "held"
    BY <1>5 DEF Inv, Ordered, Landed, Closing, Broken
  <2>2. Concluded'
    BY <1>1, <2>1, Distinct DEF Concluded, Final
  <2>3. Ordered'
    BY <1>5, <2>1, <2>2 DEF Ordered, Landed, Quiet, Working
  <2> QED
    BY <1>2, <1>3, <2>3 DEF Inv
<1>6. CASE stage = "failing"
  BY <1>2, <1>3, <1>6 DEF Inv, Ordered, Broken, Quiet, Working, Closing
<1> QED
  BY <1>4, <1>5, <1>6

\* A save takes effect.
LEMMA LandStep ==
  ASSUME Inv, NEW w \in Writers, Land(w)
  PROVE  Inv'
<1>1. /\ saves[w] \in Saves /\ saves[w] # None /\ stored' = saves[w].value
      /\ saves[w].value \in Records /\ ~saves[w].landed
      /\ UNCHANGED <<stage, record, chain, outcome, lease, decision>>
  BY DEF Inv, TypeOK, Land, Saves
<1>2. /\ saves' \in [Writers -> Saves \cup {None}] /\ saves'[w] \in Saves /\ saves'[w] # None
      /\ saves'[w].value = saves[w].value /\ saves'[w].landed
      /\ \A u \in Writers \ {w} : saves'[u] = saves[u]
  <2>1. [saves[w] EXCEPT !.landed = TRUE] \in Saves
    BY <1>1 DEF Saves
  <2>2. saves' = [saves EXCEPT ![w] = [saves[w] EXCEPT !.landed = TRUE]]
    BY DEF Land
  <2>3. saves'[w] = [saves[w] EXCEPT !.landed = TRUE] /\ \A u \in Writers \ {w} : saves'[u] = saves[u]
    BY <2>2 DEF Inv, TypeOK
  <2>4. saves' \in [Writers -> Saves \cup {None}]
    BY <2>1, <2>2 DEF Inv, TypeOK
  <2>5. saves'[w].value = saves[w].value /\ saves'[w].landed
    BY <1>1, <2>3 DEF Saves
  <2> QED
    BY <2>1, <2>3, <2>4, <2>5, Distinct
<1>3. TypeOK'
  BY <1>1, <1>2 DEF Inv, TypeOK
<1>4. Counted'
  BY <1>1, <1>2, Distinct DEF Inv, Counted
<1>5. OneSaveAtATime'
  BY <1>1, <1>2, Distinct DEF Inv, OneSaveAtATime
<1>6. Ordered'
  <2>1. CASE stage \in Quiet \cup Working
    <3>1. Growing /\ w \in {"run", "events"}
      BY <1>1, <2>1 DEF Inv, Ordered, Growing, Writers
    <3>2. \A u \in {"run", "events"} : saves[u] # None => u = w
      BY <1>1, <2>1, <3>1 DEF Inv, OneSaveAtATime, Quiet, Working, AfterSave
    <3>3. Older(stored')
      BY <1>1, <3>1 DEF Growing
    <3>4. \A d \in Deciders : saves'[d] = None
      BY <1>2, <3>1, Distinct DEF Growing
    <3>5. \A u \in {"run", "events"} : saves'[u] # None => saves'[u].value = stored'
      BY <1>1, <1>2, <3>2, Distinct
    <3>6. stored'.events <= stored'.events
      BY <1>1 DEF Records
    <3>7. Growing'
      BY <1>1, <3>3, <3>4, <3>5, <3>6 DEF Growing, Older
    <3> QED
      BY <1>1, <2>1, <3>7 DEF Inv, Ordered, Quiet, Working, Closing
  <2>2. CASE stage = "finishing" /\ w = "run"
    <3>1. record.approval = None /\ stored' = record /\ ~Landed /\ Landed'
      BY <1>1, <1>2, <2>2 DEF Inv, Ordered, OneSaveAtATime, Landed, Broken
    <3>2. \A d \in Deciders : saves'[d] = None
      BY <1>2, <2>2, <3>1, Distinct DEF Inv, Ordered, Closing
    <3>3. [record EXCEPT !.approval = None] = record
      BY <3>1 DEF Inv, TypeOK, Records
    <3>4. Concluded'
      BY <1>1, <3>1, <3>2, <3>3 DEF Concluded, Final, Inv, TypeOK
    <3> QED
      BY <1>1, <2>2, <3>1, <3>4 DEF Inv, Ordered, Quiet, Working
  <2>3. CASE stage \in Closing /\ ~(stage = "finishing" /\ w = "run")
    <3>1. w \in Deciders
      BY <1>1, <2>3 DEF Inv, OneSaveAtATime, Closing, Writers, AfterSave
    <3>2. Landed /\ Concluded
      BY <1>1, <2>3, <3>1 DEF Inv, Ordered
    <3>3. Concluded'
      BY <1>1, <1>2, <3>1, <3>2, Distinct DEF Concluded, Final
    <3>4. Landed'
      BY <1>1, <1>2, <3>1, <3>2, Distinct DEF Landed
    <3> QED
      BY <1>1, <2>3, <3>3, <3>4 DEF Inv, Ordered, Quiet, Working, Closing
  <2>4. CASE stage \notin Quiet \cup Working \cup Closing
    BY <1>1, <2>4 DEF Inv, Ordered, Working
  <2> QED
    BY <2>1, <2>2, <2>3, <2>4 DEF Closing
<1> QED
  BY <1>3, <1>4, <1>5, <1>6 DEF Inv

\* A save of the chain begins with the record as it is; nothing else of the run changes.
LEMMA ChainSaveStep ==
  ASSUME Inv, stage \in Working, UNCHANGED <<stage, stored, outcome, lease, decision>>,
         record' \in Records, record'.status = record.status, record'.approval = record.approval,
         record'.events >= record.events, record'.events <= MaxEvents,
         saves' = [saves EXCEPT !["events"] = Save(record')],
         chain' \in [waiting : 0 .. MaxEvents, broken : BOOLEAN], chain'.waiting <= record'.events
  PROVE  Inv'
<1>1. Save(record') \in Saves /\ Save(record') # None /\ Save(record').value = record'
  BY SaveType
<1>2. /\ saves' \in [Writers -> Saves \cup {None}] /\ saves'["events"] = Save(record')
      /\ \A w \in Writers \ {"events"} : saves'[w] = saves[w]
  BY <1>1, Distinct DEF Inv, TypeOK
<1>3. record.events \in Nat /\ record'.events \in Nat /\ stage \notin Broken
  BY Distinct DEF Inv, TypeOK, Records, Working, Broken
<1>4. Growing /\ record.status \in Unfinished /\ record.approval = None
  BY <1>3 DEF Inv, Ordered
<1>5. saves["run"] = None
  BY DEF Inv, OneSaveAtATime, Working, AfterSave
<1>6. stored # Absent => Older(stored)'
  <2>1. stored # Absent => stored.events \in Nat /\ stored.events <= record.events /\ stored.status \in Unfinished
    BY <1>4, Distinct DEF Growing, Older, Inv, TypeOK, Records
  <2> QED
    BY <1>3, <2>1 DEF Older
<1>7. Growing'
  <2>1. saves'["run"] = None /\ \A d \in Deciders : saves'[d] = None
    BY <1>2, <1>4, <1>5, Distinct DEF Growing
  <2> QED
    BY <1>1, <1>2, <1>3, <1>4, <1>6, <2>1 DEF Growing, Older
<1>8. TypeOK' /\ Counted'
  BY <1>1, <1>2 DEF Inv, TypeOK, Counted
<1>9. OneSaveAtATime'
  BY <1>2, <1>5, Distinct DEF OneSaveAtATime, Working, Quiet, Closing
<1>10. Ordered'
  BY <1>4, <1>7 DEF Inv, Ordered, Working, Quiet, Closing
<1> QED
  BY <1>8, <1>9, <1>10 DEF Inv

\* The chain saves nothing more for now.
LEMMA ChainRestStep ==
  ASSUME Inv, UNCHANGED <<stage, record, stored, outcome, lease, decision>>,
         saves' = [saves EXCEPT !["events"] = None],
         chain' \in [waiting : {0}, broken : BOOLEAN]
  PROVE  Inv'
<1>1. /\ saves' \in [Writers -> Saves \cup {None}] /\ saves'["events"] = None
      /\ \A w \in Writers \ {"events"} : saves'[w] = saves[w]
  BY Distinct DEF Inv, TypeOK
<1>2. chain'.waiting = 0 /\ chain' \in [waiting : 0 .. MaxEvents, broken : BOOLEAN] /\ record.events \in Nat
  BY Distinct DEF Inv, TypeOK, Records
<1>3. TypeOK' /\ Counted'
  BY <1>1, <1>2 DEF Inv, TypeOK, Counted
<1>4. OneSaveAtATime'
  BY <1>1, Distinct DEF Inv, OneSaveAtATime
<1>5. Growing => Growing'
  BY <1>1, Distinct DEF Growing, Older
<1>6. (Concluded => Concluded') /\ (Landed <=> Landed')
  BY <1>1, Distinct DEF Concluded, Final, Landed
<1>7. \A d \in Deciders : saves'[d] = saves[d]
  BY <1>1, Distinct
<1>8. Ordered'
  BY <1>5, <1>6, <1>7 DEF Inv, Ordered, Older
<1> QED
  BY <1>3, <1>4, <1>8 DEF Inv

LEMMA AgentEventStep == Inv /\ AgentEvent => Inv'
<1> SUFFICES ASSUME Inv, AgentEvent PROVE Inv'
  OBVIOUS
<1>1. /\ stage = "running" /\ record.events < MaxEvents
      /\ record' = [record EXCEPT !.events = @ + 1]
      /\ UNCHANGED <<stage, stored, outcome, lease, decision>>
      /\ record \in Records /\ stage \in Working /\ stage \notin Broken
  BY DEF AgentEvent, Inv, TypeOK, Working, Broken
<1>2. /\ record' \in Records /\ record'.events = record.events + 1 /\ record.events \in Nat
      /\ record'.events <= MaxEvents
      /\ record'.status = record.status /\ record'.approval = record.approval
  BY <1>1, Distinct DEF Records
<1>3. chain.waiting \in Nat /\ chain.waiting <= record.events
  BY Distinct DEF Inv, TypeOK, Counted
<1>4. CASE ~chain.broken /\ saves["events"] = None
  <2>1. saves' = [saves EXCEPT !["events"] = Save(record')] /\ chain' = chain
    BY <1>4 DEF AgentEvent
  <2>2. chain' \in [waiting : 0 .. MaxEvents, broken : BOOLEAN] /\ chain'.waiting <= record'.events
    BY <1>2, <1>3, <2>1 DEF Inv, TypeOK
  <2> QED
    BY <1>1, <1>2, <2>1, <2>2, ChainSaveStep
<1>5. CASE chain.broken \/ saves["events"] # None
  <2>1. saves' = saves /\ (chain' = chain \/ (saves["events"] # None /\ chain' = [chain EXCEPT !.waiting = @ + 1]))
    BY <1>5 DEF AgentEvent
  <2>2. /\ chain' \in [waiting : 0 .. MaxEvents, broken : BOOLEAN] /\ chain'.waiting <= record'.events
        /\ saves["events"] = None => chain'.waiting = 0
    BY <1>1, <1>2, <1>3, <2>1, Distinct DEF Inv, TypeOK, Counted
  <2>3. TypeOK' /\ Counted'
    BY <1>1, <1>2, <2>1, <2>2 DEF Inv, TypeOK, Counted
  <2>4. OneSaveAtATime'
    BY <1>1, <2>1 DEF Inv, OneSaveAtATime
  <2>5. Growing /\ record.status \in Unfinished /\ record.approval = None
    BY <1>1 DEF Inv, Ordered
  <2>6. \A r \in Records : Older(r) => r.status \in Unfinished /\ r.events <= record'.events
    BY <1>2, Distinct DEF Older, Records
  <2>7. /\ stored # Absent => stored \in Records
        /\ \A w \in {"run", "events"} : saves[w] # None => saves[w].value \in Records
    BY Distinct DEF Inv, TypeOK, Saves
  <2>8. Growing'
    BY <1>1, <2>1, <2>5, <2>6, <2>7 DEF Growing, Older
  <2>9. Ordered'
    BY <1>1, <1>2, <2>5, <2>8 DEF Ordered, Quiet, Working, Closing
  <2> QED
    BY <2>3, <2>4, <2>9 DEF Inv
<1> QED
  BY <1>4, <1>5

LEMMA EventAckStep == Inv /\ EventAck => Inv'
<1> SUFFICES ASSUME Inv, EventAck PROVE Inv'
  OBVIOUS
<1>1. /\ saves["events"] # None /\ stage # "dead"
      /\ UNCHANGED <<stage, record, stored, outcome, lease, decision>>
      /\ record \in Records /\ record.events \in Nat
      /\ chain.waiting \in 0 .. MaxEvents /\ chain \in [waiting : 0 .. MaxEvents, broken : BOOLEAN]
  BY Distinct DEF EventAck, Inv, TypeOK, Records
<1>2. CASE chain.waiting = 0
  <2>1. saves' = [saves EXCEPT !["events"] = None] /\ chain' = chain
    BY <1>2 DEF EventAck
  <2>2. chain' \in [waiting : {0}, broken : BOOLEAN]
    BY <1>1, <1>2, <2>1
  <2> QED
    BY <1>1, <2>1, <2>2, ChainRestStep
<1>3. CASE chain.waiting # 0
  <2>1. /\ saves' = [saves EXCEPT !["events"] = Save(record)]
        /\ chain' = [chain EXCEPT !.waiting = @ - 1]
    BY <1>1, <1>3, Distinct DEF EventAck
  <2>2. chain' \in [waiting : 0 .. MaxEvents, broken : BOOLEAN] /\ chain'.waiting <= record.events
    BY <1>1, <1>3, <2>1, Distinct DEF Inv, Counted
  <2>3. CASE stage \in Working
    <3>1. record.events <= MaxEvents /\ record.events >= record.events
      BY <1>1, <2>3 DEF Inv, Counted, Working, Broken
    <3> QED
      BY <1>1, <2>1, <2>2, <2>3, <3>1, ChainSaveStep
  <2>4. CASE stage \in Broken
    <3>1. Save(record) \in Saves /\ Save(record) # None
      BY <1>1, SaveType
    <3>2. saves' \in [Writers -> Saves \cup {None}] /\ saves'["events"] # None /\ saves'["run"] = saves["run"]
      BY <2>1, <3>1, Distinct DEF Inv, TypeOK
    <3>3. TypeOK' /\ Counted'
      BY <1>1, <2>2, <3>2 DEF Inv, TypeOK, Counted
    <3> QED
      BY <1>1, <2>4, <3>2, <3>3 DEF Inv, OneSaveAtATime, Ordered, Broken, Quiet, Working, Closing
  <2> QED
    BY <1>1, <2>3, <2>4 DEF Inv, TypeOK, OneSaveAtATime, Stages, Settled, Quiet, Working, Closing, Broken
<1> QED
  BY <1>2, <1>3

LEMMA DieStep == Inv /\ Die => Inv'
<1> SUFFICES ASSUME Inv, Die PROVE Inv'
  OBVIOUS
<1>1. /\ stage' = "dead" /\ chain' = [chain EXCEPT !.waiting = 0]
      /\ UNCHANGED <<record, stored, saves, outcome, lease, decision>>
      /\ chain' \in [waiting : 0 .. MaxEvents, broken : BOOLEAN] /\ chain'.waiting = 0
      /\ record.events \in Nat
  BY Distinct DEF Die, Inv, TypeOK, Records
<1>2. TypeOK' /\ Counted'
  BY <1>1 DEF Inv, TypeOK, Counted, Stages, Settled, Broken
<1> QED
  BY <1>1, <1>2 DEF Inv, OneSaveAtATime, Ordered, Broken, Quiet, Working, Closing

LEMMA DecideStep == ASSUME Inv, NEW d \in Deciders, Decide(d) PROVE Inv'
<1>1. UNCHANGED <<stage, record, stored, chain, outcome, lease>>
  BY DEF Decide
<1>2. CASE ~(stored # Absent /\ stored.status = "needs-human")
  <2>1. decision' = [decision EXCEPT ![d] = "refused"] /\ saves' = saves
    BY <1>2 DEF Decide
  <2> QED
    BY <1>1, <2>1 DEF Inv, TypeOK, Counted, OneSaveAtATime, Ordered, Growing, Older, Concluded, Final, Landed
<1>3. CASE stored # Absent /\ stored.status = "needs-human"
  <2> DEFINE decided == [stored EXCEPT !.approval = d]
  <2>1. /\ decision' = [decision EXCEPT ![d] = "saving"] /\ saves' = [saves EXCEPT ![d] = Save(decided)]
        /\ stored \in Records
    BY <1>3 DEF Decide, Inv, TypeOK
  <2>2. /\ decided \in Records
        /\ [decided EXCEPT !.approval = None] = [stored EXCEPT !.approval = None]
    BY <2>1 DEF Records
  <2> HIDE DEF decided
  <2>3. Save(decided) \in Saves /\ Save(decided) # None /\ Save(decided).value = decided
    BY <2>2, SaveType
  <2>4. /\ saves' \in [Writers -> Saves \cup {None}] /\ saves'[d] = Save(decided)
        /\ \A w \in Writers \ {d} : saves'[w] = saves[w]
    BY <2>1, <2>3, Distinct DEF Inv, TypeOK
  <2>5. TypeOK'
    BY <1>1, <2>1, <2>4 DEF Inv, TypeOK
  <2>6. Counted' /\ OneSaveAtATime'
    BY <1>1, <2>4, Distinct DEF Inv, Counted, OneSaveAtATime
  <2>7. ~Older(stored)
    BY <1>3 DEF Older, Unfinished
  <2>8. stage \notin Quiet \cup Working
    BY <1>3, <2>7 DEF Inv, Ordered, Growing
  <2>9. ASSUME stage \in Closing PROVE Landed /\ Concluded /\ Landed' /\ Concluded'
    <3>1. Landed /\ Concluded
      BY <1>3, <2>7, <2>9 DEF Inv, Ordered
    <3>2. record.status = outcome
      BY <2>9 DEF Inv, Ordered
    <3>3. outcome = "needs-human"
      <4>1. [stored EXCEPT !.approval = None].status = stored.status
        BY <2>1 DEF Records
      <4> QED
        BY <1>3, <3>1, <3>2, <4>1 DEF Concluded, Final
    <3>4. Final(decided)
      BY <2>2, <3>1, <3>3 DEF Concluded, Final
    <3>5. Concluded' /\ Landed'
      BY <1>1, <2>3, <2>4, <3>1, <3>4, Distinct DEF Concluded, Final, Landed
    <3> QED
      BY <3>1, <3>5
  <2>10. Ordered'
    BY <1>1, <2>8, <2>9 DEF Inv, Ordered
  <2> QED
    BY <2>5, <2>6, <2>10 DEF Inv
<1> QED
  BY <1>2, <1>3

LEMMA DecisionAnswerStep ==
  ASSUME Inv, NEW d \in Deciders, NEW end \in {"made", "lost"},
         decision' = [decision EXCEPT ![d] = end], saves' = [saves EXCEPT ![d] = None],
         UNCHANGED <<stage, record, stored, chain, outcome, lease>>
  PROVE  Inv'
<1>1. /\ saves' \in [Writers -> Saves \cup {None}] /\ saves'[d] = None
      /\ \A w \in Writers \ {d} : saves'[w] = saves[w]
  BY Distinct DEF Inv, TypeOK
<1>2. TypeOK' /\ Counted' /\ OneSaveAtATime'
  BY <1>1, Distinct DEF Inv, TypeOK, Counted, OneSaveAtATime
<1>3. (Growing => Growing') /\ (Concluded => Concluded') /\ (Landed <=> Landed')
  BY <1>1, Distinct DEF Growing, Older, Concluded, Final, Landed
<1>4. (\A e \in Deciders : saves[e] = None) => \A e \in Deciders : saves'[e] = None
  BY <1>1, Distinct
<1>5. Ordered'
  BY <1>3, <1>4 DEF Inv, Ordered, Older
<1> QED
  BY <1>2, <1>5 DEF Inv

LEMMA RejectStep == Inv /\ RunReject => Inv'
<1> SUFFICES ASSUME Inv, RunReject PROVE Inv'
  OBVIOUS
<1>1. /\ saves["run"] # None /\ stage # "dead" /\ UNCHANGED <<stored, chain, outcome, lease, decision>>
      /\ stage \in {"recording", "starting", "finishing", "failing"}
      /\ lease' \in {"none", "held", "returned"}
  BY DEF RunReject, Inv, TypeOK, OneSaveAtATime, AfterSave
<1>2. CASE stage \in {"starting", "finishing"}
  <2>1. Fail /\ stage \notin Broken
    BY <1>2 DEF RunReject, Broken
  <2> QED
    BY <1>1, <2>1, FailStep
<1>3. CASE stage \in {"recording", "failing"}
  <2>1. /\ saves' = [saves EXCEPT !["run"] = None] /\ record' = record
        /\ stage = "recording" => stage' = "unrecorded"
        /\ stage = "failing" => stage' = "unsaved"
    BY <1>3 DEF RunReject
  <2> QED
    BY <1>1, <1>3, <2>1, AnswerStep
<1> QED
  BY <1>1, <1>2, <1>3

LEMMA NextInv == Inv /\ [Next]_vars => Inv'
<1> SUFFICES ASSUME Inv, [Next]_vars PROVE Inv'
  OBVIOUS
<1>0. record \in Records /\ lease \in {"none", "held", "returned"} /\ outcome \in Outcomes \cup {None}
  BY DEF Inv, TypeOK
<1>1. CASE Begin \/ Start
  <2>1. PICK to \in {"recording", "starting"}, status \in Unfinished :
          /\ stage \in {"new", "queued"} /\ SaveAt(to, [record EXCEPT !.status = status])
          /\ UNCHANGED <<stored, chain, outcome, lease, decision>>
    <3>1. CASE Begin
      <4>1. stage = "new" /\ record.status \in Unfinished
        BY <3>1 DEF Begin, Inv, Ordered, Quiet
      <4>2. [record EXCEPT !.status = record.status] = record
        BY <1>0 DEF Records
      <4> QED
        BY <3>1, <4>1, <4>2 DEF Begin
    <3>2. CASE Start
      BY <3>2 DEF Start, Unfinished
    <3> QED
      BY <1>1, <3>1, <3>2
  <2> QED
    BY <2>1, SaveStep
<1>2. CASE Refuse \/ Prepare \/ StartAgent \/ AgentReturns \/ Wrap
  <2>1. UNCHANGED <<record, stored, saves, chain, decision>> /\ stage' \in Stages
    BY <1>2 DEF Refuse, Prepare, StartAgent, AgentReturns, Wrap, Stages, Settled
  <2>2. lease' \in {"none", "held", "returned"} /\ outcome' \in Outcomes \cup {None}
    BY <1>0, <1>2 DEF Refuse, Prepare, StartAgent, AgentReturns, Wrap
  <2>3. CASE Refuse \/ Prepare \/ StartAgent
    <3>1. /\ stage \in {"new", "preparing", "leased"}
          /\ stage' \in {"refused", "leased", "running"}
      BY <2>3 DEF Refuse, Prepare, StartAgent
    <3>2. saves["run"] = None
      BY <3>1 DEF Inv, OneSaveAtATime, AfterSave
    <3>3. stage \in Quiet /\ stage' \in Quiet \cup {"running"}
      BY <3>1 DEF Quiet
    <3> QED
      BY <2>1, <2>2, <3>2, <3>3, MoveStep
  <2>4. CASE AgentReturns \/ Wrap
    <3>1. /\ stage \in Working /\ stage' \in Working /\ outcome' \in Outcomes
          /\ stage' = "draining" => lease' # "held"
      BY <2>4 DEF AgentReturns, Wrap, Working, Inv, Ordered
    <3> QED
      BY <2>1, <2>2, <3>1, MoveStep
  <2> QED
    BY <1>2, <2>3, <2>4
<1>3. CASE QuotaRefuses \/ PrepareFails \/ SetupFails \/ WrapFails \/ DrainFails
  <2>1. Fail /\ stage \notin Broken /\ UNCHANGED <<stored, chain, outcome, decision>>
    BY <1>3 DEF QuotaRefuses, PrepareFails, SetupFails, WrapFails, DrainFails, Broken
  <2>2. lease' \in {"none", "held", "returned"}
    BY <1>0, <1>3 DEF QuotaRefuses, PrepareFails, SetupFails, WrapFails, DrainFails
  <2> QED
    BY <2>1, <2>2, FailStep
<1>4. CASE RunAck
  <2>1. /\ saves["run"] # None /\ saves["run"].landed /\ stage' = AfterSave[stage]
        /\ stage \in DOMAIN AfterSave
        /\ saves' = [saves EXCEPT !["run"] = None]
        /\ UNCHANGED <<record, stored, chain, outcome, lease, decision>>
    BY <1>4 DEF RunAck
  <2>2. \/ stage = "recording" /\ stage' = "queued"
        \/ stage = "starting" /\ stage' = "preparing"
        \/ stage = "finishing" /\ stage' = "resolved"
        \/ stage = "failing" /\ stage' = "rejected"
    BY <2>1 DEF AfterSave
  <2> QED
    BY <2>1, <2>2, AnswerStep
<1>5. CASE EventReject
  <2>1. /\ saves' = [saves EXCEPT !["events"] = None] /\ chain' \in [waiting : {0}, broken : BOOLEAN]
        /\ UNCHANGED <<stage, record, stored, outcome, lease, decision>>
    BY <1>5 DEF EventReject
  <2> QED
    BY <2>1, ChainRestStep
<1>6. ASSUME NEW d \in Deciders, DecideAck(d) \/ DecideReject(d) PROVE Inv'
  BY <1>6, DecisionAnswerStep DEF DecideAck, DecideReject
<1>7. CASE UNCHANGED vars
  BY <1>7 DEF vars, Inv, TypeOK, Counted, OneSaveAtATime, Ordered, Growing, Older, Concluded, Final, Landed
<1> QED
  BY <1>1, <1>2, <1>3, <1>4, <1>5, <1>6, <1>7, FinishStep, RejectStep, AgentEventStep, EventAckStep,
     DieStep, LandStep, DecideStep DEF Next

\* Inv is an inductive invariant.
THEOREM Invariance == Spec => []Inv
  BY InitInv, NextInv, PTL DEF Spec

\* Every variable keeps its type; the chain of event saves never counts below zero.
THEOREM TypeCorrect == Spec => []TypeOK
<1>1. Inv => TypeOK
  BY DEF Inv
<1> QED
  BY <1>1, Invariance, PTL

\* A resolved run is stored as it answered, whatever was in flight, and its sandbox is given back.
THEOREM ResolvedRunIsComplete == Spec => []ResolvedIsComplete
<1>1. Inv => ResolvedIsComplete
  <2> SUFFICES ASSUME Inv, stage = "resolved" PROVE ResolvedIsDurable /\ LeaseReturned
    BY DEF ResolvedIsComplete, ResolvedIsDurable, LeaseReturned
  <2>1. Concluded /\ lease # "held"
    BY DEF Inv, Ordered, Landed, Closing
  <2> QED
    BY <2>1, TaskRunAssumption DEF Concluded, Final, ResolvedIsDurable, LeaseReturned
<1> QED
  BY <1>1, Invariance, PTL

\* Only a save that lands changes the storage.
LEMMA OnlyLandStores ==
  ASSUME Next, stored' # stored
  PROVE  \E w \in Writers : Land(w)
  BY DEF Next, Refuse, Begin, QuotaRefuses, Start, Prepare, PrepareFails, SetupFails, StartAgent,
     AgentEvent, AgentReturns, Wrap, WrapFails, Finish, DrainFails, RunAck, RunReject, EventAck,
     EventReject, Die, Decide, DecideAck, DecideReject

\* What a save that lands does to the storage while the run goes well.
LEMMA LandGrows ==
  ASSUME Inv, NEW w \in Writers, Land(w), stored # Absent, stage \notin Broken
  PROVE  /\ stored'.events >= stored.events
         /\ stored.status \in Outcomes => stored'.status = stored.status
<1>1. /\ saves[w] \in Saves /\ saves[w] # None /\ stored' = saves[w].value /\ stored' \in Records
      /\ ~saves[w].landed /\ stored \in Records /\ stored'.events \in Nat /\ stored.events \in Nat
  BY Distinct DEF Inv, TypeOK, Land, Saves, Records
<1>2. Older(stored) => stored.status \notin Outcomes
  BY DEF Older, Unfinished, Outcomes
<1>3. CASE stage \in Quiet \cup Working
  <2>1. Growing /\ w \in {"run", "events"}
    BY <1>1, <1>3 DEF Inv, Ordered, Growing, Writers
  <2> QED
    BY <1>1, <1>2, <2>1 DEF Growing
<1>4. CASE stage = "finishing" /\ w = "run"
  <2>1. Older(stored) /\ stored' = record
    BY <1>1, <1>4 DEF Inv, Ordered, OneSaveAtATime, Landed, Closing
  <2> QED
    BY <1>1, <1>2, <2>1 DEF Older
<1>5. CASE stage \in Closing /\ ~(stage = "finishing" /\ w = "run")
  <2>1. w \in Deciders
    BY <1>1, <1>5 DEF Inv, OneSaveAtATime, Closing, Writers, AfterSave
  <2>2. Final(stored) /\ Final(stored')
    BY <1>1, <1>5, <2>1 DEF Inv, Ordered, Concluded
  <2>3. [stored EXCEPT !.approval = None] = [stored' EXCEPT !.approval = None]
    BY <2>2 DEF Final
  <2>4. \A r \in Records : /\ [r EXCEPT !.approval = None].events = r.events
                           /\ [r EXCEPT !.approval = None].status = r.status
    BY DEF Records
  <2>5. stored'.events = stored.events /\ stored'.status = stored.status
    <3> DEFINE a == [stored EXCEPT !.approval = None]
               b == [stored' EXCEPT !.approval = None]
    <3>1. /\ a.events = stored.events /\ a.status = stored.status
          /\ b.events = stored'.events /\ b.status = stored'.status /\ a = b
      BY <1>1, <2>3, <2>4
    <3> HIDE DEF a, b
    <3> QED
      BY <3>1
  <2> QED
    BY <1>1, <2>5
<1> QED
  BY <1>1, <1>3, <1>4, <1>5 DEF Inv, TypeOK, Stages, Settled, Quiet, Working, Closing, Broken

\* The stored history only grows while the run goes well.
THEOREM StoredHistoryGrows == Spec => HistoryGrows
<1> DEFINE grows == (stored # Absent /\ stage \notin {"failing", "rejected", "unsaved", "dead"}) =>
                      /\ stored'.events >= stored.events
                      /\ stored.status \in Outcomes => stored'.status = stored.status
<1>1. Inv /\ [Next]_vars => [grows]_vars
  <2> SUFFICES ASSUME Inv, Next, stored # Absent, stage \notin Broken PROVE grows
    BY DEF Broken
  <2>1. CASE stored' = stored
    <3>1. stored \in Records /\ stored.events \in Nat
      BY Distinct DEF Inv, TypeOK, Records
    <3> QED
      BY <2>1, <3>1
  <2>2. CASE stored' # stored
    <3>1. PICK w \in Writers : Land(w)
      BY <2>2, OnlyLandStores
    <3> QED
      BY <3>1, LandGrows
  <2> QED
    BY <2>1, <2>2
<1> QED
  BY <1>1, Invariance, PTL DEF Spec, HistoryGrows

-----------------------------------------------------------------------------

\* The saves still under way when a run has failed or has offered its result, and what they carry: it
\* decides which of them may replace a stored failure, and which a stored decision.

Started == {"starting", "preparing", "leased"} \cup Working

\* The run has offered its result for a decision: no event save can be under way any more, and if the
\* flow still saves something new, it is that the run has failed.
Offerable ==
  /\ stage \in Closing \cup Broken
  /\ saves["events"] = None
  /\ saves["run"] # None => saves["run"].landed \/ saves["run"].value.status = "failed"

Offered == (stored # Absent /\ stored.status = "needs-human") \/ \E d \in Deciders : saves[d] # None

\* The record in memory, which only the flow changes.
RecordTraced ==
  /\ record.approval = None
  /\ record.status = "failed" => stage \in Closing \cup Broken
  /\ stage \in Started => record.status = "running"
  /\ stage \in {"failing", "rejected", "unsaved"} => record.status = "failed"

\* What the flow, the events and the decisions have in flight.
SavesTraced ==
  /\ saves["run"] # None =>
       /\ saves["run"].value.approval = None
       /\ record.status = "failed" <=> saves["run"].value.status = "failed"
       /\ saves["run"].value.status = "needs-human" =>
            stage \in Closing \cup Broken /\ saves["events"] = None
  /\ saves["events"] # None =>
       /\ saves["events"].value.approval = None
       /\ saves["events"].value.status \in {"running", "failed"}
       /\ saves["events"].value.status = "failed" => record.status = "failed"
  /\ \A d \in Deciders :
       saves[d] # None => saves[d].value.status = "needs-human" /\ saves[d].value.approval = d

StoredTraced ==
  /\ stored # Absent =>
       /\ stored.status = "failed" => record.status = "failed"
       /\ stored.approval # None => stored.status = "needs-human"
  /\ Offered => Offerable

Traced == RecordTraced /\ SavesTraced /\ StoredTraced

\* A stored failure gives way to an event save taken before it or to a decision on the result the run
\* had offered before it failed, and to nothing else.
FailureYields ==
  (stored # Absent /\ stored.status = "failed" /\ stored'.status # "failed") =>
    /\ stage \in Broken
    /\ \/ saves["events"] # None /\ stored' = saves["events"].value /\ stored'.status = "running"
       \/ \E d \in Deciders :
            saves[d] # None /\ stored' = saves[d].value /\ stored'.status = "needs-human"

\* A stored decision gives way to another decision or to the failure of the run.
DecisionYields ==
  (stored # Absent /\ stored.approval # None /\ stored'.approval # stored.approval) =>
    \/ \E d \in Deciders : saves[d] # None /\ stored' = saves[d].value /\ stored'.approval = d
    \/ stage \in Broken /\ stored'.status = "failed"

LEMMA TracedInit == Init => Traced
  BY Distinct DEF Init, Traced, RecordTraced, SavesTraced, StoredTraced, Offered, Started, Working

\* The run goes on, or its process dies, and nothing is saved.
LEMMA MoveTraced ==
  ASSUME Traced, UNCHANGED <<record, stored, saves>>,
         stage \in Closing \cup Broken => stage' \in Closing \cup Broken,
         stage' \in Started => stage \in Started,
         stage' \notin {"failing", "rejected", "unsaved"}
  PROVE  Traced'
  BY DEF Traced, RecordTraced, SavesTraced, StoredTraced, Offered, Offerable

\* The flow saves a new record.
LEMMA FlowTraced ==
  ASSUME Inv, Traced, NEW to, NEW changed \in Records, SaveAt(to, changed), UNCHANGED stored,
         changed.approval = None,
         \/ to = "failing" /\ changed.status = "failed"
         \/ /\ stage \notin Closing \cup Broken /\ saves["events"] = None
            /\ \/ to = "recording" /\ changed.status \in Unfinished
               \/ to = "starting" /\ changed.status = "running"
               \/ to = "finishing" /\ changed.status \in Outcomes
  PROVE  Traced'
<1>1. /\ stage' = to /\ record' = changed /\ stored' = stored
      /\ saves'["run"] # None /\ saves'["run"].value = changed /\ ~saves'["run"].landed
      /\ saves'["events"] = saves["events"] /\ \A d \in Deciders : saves'[d] = saves[d]
  BY SaveType, Distinct DEF SaveAt, Inv, TypeOK
<1>2. CASE to = "failing" /\ changed.status = "failed"
  BY <1>1, <1>2 DEF Traced, RecordTraced, SavesTraced, StoredTraced, Offered, Offerable, Started, Working,
     Closing, Broken
<1>3. CASE /\ stage \notin Closing \cup Broken /\ saves["events"] = None
           /\ \/ to = "recording" /\ changed.status \in Unfinished
              \/ to = "starting" /\ changed.status = "running"
              \/ to = "finishing" /\ changed.status \in Outcomes
  <2>1. record.status # "failed" /\ ~Offered
    BY <1>3 DEF Traced, RecordTraced, StoredTraced, Offerable
  <2>2. stored # Absent => stored.status # "failed" /\ stored.approval = None
    BY <2>1 DEF Traced, StoredTraced, Offered
  <2>3. ~Offered'
    BY <1>1, <2>1 DEF Offered
  <2>4. RecordTraced'
    BY <1>1, <1>3 DEF RecordTraced, Started, Working, Closing, Unfinished
  <2>5. SavesTraced'
    BY <1>1, <1>3 DEF Traced, SavesTraced, Closing, Unfinished
  <2>6. StoredTraced'
    BY <1>1, <2>2, <2>3 DEF StoredTraced
  <2> QED
    BY <2>4, <2>5, <2>6 DEF Traced
<1> QED
  BY <1>2, <1>3

LEMMA FailTraced ==
  ASSUME Inv, Traced, Fail, UNCHANGED stored, stage \notin Broken
  PROVE  Traced'
<1> DEFINE changed == [record EXCEPT !.status = "failed", !.events = @ + 1]
<1>1. record \in Records /\ record.events \in 0 .. MaxEvents /\ record.events + 1 \in 0 .. MaxEvents + 1
  BY Distinct DEF Inv, TypeOK, Counted, Records
<1>2. changed \in Records /\ changed.status = "failed" /\ changed.approval = record.approval
  BY <1>1 DEF Records, Outcomes
<1>3. SaveAt("failing", changed)
  BY DEF Fail
<1> HIDE DEF changed
<1> QED
  BY <1>2, <1>3, FlowTraced DEF Traced, RecordTraced

\* A save of the flow is answered.
LEMMA FlowAnswered ==
  ASSUME Inv, Traced, saves' = [saves EXCEPT !["run"] = None], UNCHANGED <<record, stored>>,
         \/ stage = "recording" /\ stage' \in {"queued", "unrecorded"}
         \/ stage = "starting" /\ stage' = "preparing"
         \/ stage = "finishing" /\ stage' = "resolved"
         \/ stage = "failing" /\ stage' \in {"rejected", "unsaved"}
  PROVE  Traced'
<1>1. /\ saves'["run"] = None /\ saves'["events"] = saves["events"]
      /\ \A d \in Deciders : saves'[d] = saves[d]
  BY Distinct DEF Inv, TypeOK
<1>2. RecordTraced'
  BY DEF Traced, RecordTraced, Started, Working, Closing, Broken
<1>3. SavesTraced'
  BY <1>1 DEF Traced, SavesTraced
<1>4. StoredTraced'
  BY <1>1 DEF Traced, StoredTraced, Offered, Offerable, Closing, Broken
<1> QED
  BY <1>2, <1>3, <1>4 DEF Traced

\* An event save begins, or the last one is answered.
LEMMA EventsTraced ==
  ASSUME Inv, Traced, NEW save \in Saves \cup {None}, saves' = [saves EXCEPT !["events"] = save],
         UNCHANGED <<stage, stored>>,
         record'.status = record.status, record'.approval = record.approval,
         \/ save = None
         \/ /\ save # None /\ save.value = record' /\ stage # "dead"
            /\ stage = "running" \/ saves["events"] # None
  PROVE  Traced'
<1>1. /\ saves'["run"] = saves["run"] /\ saves'["events"] = save
      /\ \A d \in Deciders : saves'[d] = saves[d]
  BY Distinct DEF Inv, TypeOK
<1>2. RecordTraced'
  BY DEF Traced, RecordTraced
<1>3. save # None => stage \in Working \cup {"failing", "rejected", "unsaved"}
  BY DEF Inv, OneSaveAtATime, TypeOK, Stages, Settled, Quiet, Closing, Working
<1>4. save # None => stage \in Working \/ saves["events"] # None
  BY DEF Working
<1>5. save # None => record.status \in {"running", "failed"} /\ record.approval = None
  BY <1>3 DEF Traced, RecordTraced, Started
<1>6. SavesTraced'
  <2>1. save # None /\ saves["run"] # None => saves["run"].value.status # "needs-human"
    BY <1>4 DEF Traced, SavesTraced, Working, Closing, Broken
  <2> QED
    BY <1>1, <1>5, <2>1 DEF Traced, SavesTraced
<1>7. StoredTraced'
  <2>1. save # None => ~Offered
    BY <1>4 DEF Traced, StoredTraced, Offerable, Working, Closing, Broken
  <2>2. Offered' = Offered
    BY <1>1 DEF Offered
  <2> QED
    BY <1>1, <2>1, <2>2 DEF Traced, StoredTraced, Offerable
<1> QED
  BY <1>2, <1>6, <1>7 DEF Traced

\* A save lands.
LEMMA LandTraced ==
  ASSUME Inv, Traced, NEW w \in Writers, Land(w)
  PROVE  Traced'
<1>1. /\ stored' = saves[w].value /\ saves[w] # None /\ UNCHANGED <<stage, record>>
      /\ saves' = [saves EXCEPT ![w].landed = TRUE] /\ saves \in [Writers -> Saves \cup {None}]
  BY DEF Land, Inv, TypeOK
<1>2. \A v \in Writers : /\ saves'[v] # None <=> saves[v] # None
                         /\ saves[v] # None => saves'[v].value = saves[v].value
                         /\ saves[v] # None /\ saves[v].landed => saves'[v].landed
  <2>1. \A x \in Saves : [x EXCEPT !.landed = TRUE] \in Saves
                         /\ [x EXCEPT !.landed = TRUE].value = x.value
    BY DEF Saves
  <2>2. \A v \in Writers : saves'[v] = IF v = w THEN [saves[w] EXCEPT !.landed = TRUE] ELSE saves[v]
    BY <1>1
  <2>3. saves[w] \in Saves /\ None \notin Saves
    BY <1>1, Distinct
  <2>4. [saves[w] EXCEPT !.landed = TRUE].landed = TRUE
    BY <2>3 DEF Saves
  <2> QED
    BY <2>1, <2>2, <2>3, <2>4
<1>3. saves'[w].landed
  BY <1>1, Distinct DEF Saves
<1>4. RecordTraced'
  BY <1>1 DEF Traced, RecordTraced
<1>5. SavesTraced'
  <2>1. "run" \in Writers /\ "events" \in Writers /\ Deciders \subseteq Writers
    BY Distinct
  <2> QED
    BY <1>1, <1>2, <2>1 DEF Traced, SavesTraced
<1>6. w = "run" \/ w = "events" \/ w \in Deciders
  BY DEF Writers
<1>7. /\ stored'.status = "failed" => record'.status = "failed"
      /\ stored'.approval # None => stored'.status = "needs-human"
  BY <1>1, <1>6 DEF Traced, SavesTraced
<1>8. Offered' => Offerable'
  <2>1. CASE Offered
    <3>1. Offerable
      BY <2>1 DEF Traced, StoredTraced
    <3> QED
      BY <1>1, <1>2, <3>1, Distinct DEF Offerable
  <2>2. CASE ~Offered
    <3> SUFFICES ASSUME Offered' PROVE Offerable'
      OBVIOUS
    <3>1. \A d \in Deciders : saves[d] = None /\ saves'[d] = None
      BY <1>2, <2>2, Distinct DEF Offered
    <3>2. w \notin Deciders /\ stored'.status = "needs-human"
      BY <1>1, <3>1 DEF Offered
    <3>3. w = "run"
      BY <1>1, <1>6, <3>2 DEF Traced, SavesTraced
    <3>4. stage \in Closing \cup Broken /\ saves["events"] = None
      BY <1>1, <3>2, <3>3 DEF Traced, SavesTraced
    <3> QED
      BY <1>1, <1>2, <1>3, <3>3, <3>4, Distinct DEF Offerable
  <2> QED
    BY <2>1, <2>2
<1> QED
  BY <1>4, <1>5, <1>7, <1>8 DEF Traced, StoredTraced

\* A decision is taken or answered.
LEMMA DecisionTraced ==
  ASSUME Inv, Traced, NEW d \in Deciders, Decide(d) \/ DecideAck(d) \/ DecideReject(d)
  PROVE  Traced'
<1>1. UNCHANGED <<stage, record, stored>>
  BY DEF Decide, DecideAck, DecideReject
<1>2. CASE UNCHANGED saves
  BY <1>1, <1>2 DEF Traced, RecordTraced, SavesTraced, StoredTraced, Offered, Offerable
<1>3. CASE saves' # saves
  <2>1. PICK save : /\ saves' = [saves EXCEPT ![d] = save]
                    /\ save = None \/ /\ save # None /\ Offered
                                      /\ save.value.status = "needs-human" /\ save.value.approval = d
    <3>1. CASE Decide(d)
      <4> DEFINE r == [stored EXCEPT !.approval = d]
      <4>1. stored \in Records /\ stored.status = "needs-human" /\ saves' = [saves EXCEPT ![d] = Save(r)]
            /\ stored # Absent
        BY <1>3, <3>1 DEF Decide, Inv, TypeOK
      <4>2. r \in Records /\ r.status = "needs-human" /\ r.approval = d
        BY <4>1 DEF Records
      <4>3. Save(r) # None /\ Save(r).value = r
        BY <4>2, SaveType
      <4> HIDE DEF r
      <4> QED
        BY <4>1, <4>2, <4>3 DEF Offered
    <3>2. CASE DecideAck(d) \/ DecideReject(d)
      BY <3>2 DEF DecideAck, DecideReject
    <3> QED
      BY <3>1, <3>2
  <2>2. /\ saves'["run"] = saves["run"] /\ saves'["events"] = saves["events"]
        /\ \A e \in Deciders : saves'[e] = IF e = d THEN save ELSE saves[e]
    BY <2>1, Distinct DEF Inv, TypeOK
  <2>3. Offered' => Offered
    BY <1>1, <2>1, <2>2 DEF Offered
  <2>4. RecordTraced'
    BY <1>1 DEF Traced, RecordTraced
  <2>5. SavesTraced'
    BY <1>1, <2>1, <2>2 DEF Traced, SavesTraced
  <2>6. StoredTraced'
    BY <1>1, <2>2, <2>3 DEF Traced, StoredTraced, Offerable
  <2> QED
    BY <2>4, <2>5, <2>6 DEF Traced
<1> QED
  BY <1>2, <1>3

LEMMA NextTraced == Inv /\ Traced /\ [Next]_vars => Traced'
<1> SUFFICES ASSUME Inv, Traced, [Next]_vars PROVE Traced'
  OBVIOUS
<1>1. CASE UNCHANGED vars
  BY <1>1 DEF vars, Traced, RecordTraced, SavesTraced, StoredTraced, Offered, Offerable
<1>2. CASE Refuse \/ Prepare \/ StartAgent \/ AgentReturns \/ Wrap \/ Die
  <2>1. /\ UNCHANGED <<record, stored, saves>>
        /\ \/ stage = "new" /\ stage' = "refused"
           \/ stage = "preparing" /\ stage' = "leased"
           \/ stage = "leased" /\ stage' = "running"
           \/ stage = "running" /\ stage' = "wrapping"
           \/ stage = "wrapping" /\ stage' = "draining"
           \/ stage' = "dead"
    BY <1>2 DEF Refuse, Prepare, StartAgent, AgentReturns, Wrap, Die
  <2> QED
    BY <2>1, MoveTraced DEF Started, Working, Closing, Broken
<1>3. CASE QuotaRefuses \/ PrepareFails \/ SetupFails \/ WrapFails \/ DrainFails
  <2>1. Fail /\ UNCHANGED stored /\ stage \notin Broken
    BY <1>3 DEF QuotaRefuses, PrepareFails, SetupFails, WrapFails, DrainFails, Broken
  <2> QED
    BY <2>1, FailTraced
<1>4. CASE Begin \/ Start \/ Finish
  <2>1. record \in Records /\ outcome \in Outcomes \cup {None} /\ saves["events"] = None
    BY <1>4 DEF Begin, Start, Finish, Inv, TypeOK, OneSaveAtATime, Quiet
  <2>2. CASE Begin
    <3>1. SaveAt("recording", record) /\ UNCHANGED stored /\ stage = "new" /\ record.status \in Unfinished
      BY <2>2 DEF Begin, Inv, Ordered, Quiet
    <3> QED
      BY <2>1, <3>1, FlowTraced DEF Traced, RecordTraced, Closing, Broken
  <2>3. CASE Start
    <3> DEFINE changed == [record EXCEPT !.status = "running"]
    <3>1. SaveAt("starting", changed) /\ UNCHANGED stored /\ stage = "queued"
      BY <2>3 DEF Start
    <3>2. changed \in Records /\ changed.status = "running" /\ changed.approval = record.approval
      BY <2>1 DEF Records
    <3> HIDE DEF changed
    <3> QED
      BY <2>1, <3>1, <3>2, FlowTraced DEF Traced, RecordTraced, Closing, Broken
  <2>4. CASE Finish
    <3>1. SaveAt("finishing", Finished) /\ UNCHANGED stored /\ stage = "draining" /\ outcome \in Outcomes
      BY <2>4 DEF Finish, Inv, Ordered
    <3>2. /\ Finished \in Records /\ Finished.status \in Outcomes
          /\ Finished.approval = record.approval
      BY <2>1, <3>1 DEF Records, Finished
    <3> QED
      BY <2>1, <3>1, <3>2, FlowTraced DEF Traced, RecordTraced, Closing, Broken
  <2> QED
    BY <1>4, <2>2, <2>3, <2>4
<1>5. CASE RunAck \/ RunReject
  <2>1. CASE RunAck
    <3>1. /\ stage \in DOMAIN AfterSave /\ stage' = AfterSave[stage]
          /\ saves' = [saves EXCEPT !["run"] = None] /\ UNCHANGED <<record, stored>>
      BY <2>1 DEF RunAck
    <3>2. \/ stage = "recording" /\ stage' = "queued"
          \/ stage = "starting" /\ stage' = "preparing"
          \/ stage = "finishing" /\ stage' = "resolved"
          \/ stage = "failing" /\ stage' = "rejected"
      BY <3>1 DEF AfterSave
    <3> QED
      BY <3>1, <3>2, FlowAnswered
  <2>2. CASE RunReject
    <3>1. UNCHANGED stored /\ stage \in {"recording", "starting", "finishing", "failing"}
      BY <2>2 DEF RunReject, Inv, OneSaveAtATime, AfterSave
    <3>2. CASE stage \in {"starting", "finishing"}
      BY <2>2, <3>1, <3>2, FailTraced DEF RunReject, Broken
    <3>3. CASE stage \in {"recording", "failing"}
      <4>1. /\ saves' = [saves EXCEPT !["run"] = None] /\ record' = record
            /\ stage = "recording" => stage' = "unrecorded"
            /\ stage = "failing" => stage' = "unsaved"
        BY <2>2, <3>3 DEF RunReject
      <4> QED
        BY <3>1, <3>3, <4>1, FlowAnswered
    <3> QED
      BY <3>1, <3>2, <3>3
  <2> QED
    BY <1>5, <2>1, <2>2
<1>6. CASE AgentEvent \/ EventAck \/ EventReject
  <2>1. record \in Records /\ UNCHANGED <<stage, stored>>
    BY <1>6 DEF AgentEvent, EventAck, EventReject, Inv, TypeOK
  <2>2. /\ record' \in Records
        /\ record'.status = record.status /\ record'.approval = record.approval
    <3>1. CASE AgentEvent
      <4>1. record' = [record EXCEPT !.events = @ + 1] /\ record.events < MaxEvents
        BY <3>1 DEF AgentEvent
      <4>2. record.events + 1 \in 0 .. MaxEvents + 1
        BY <2>1, <4>1, Distinct DEF Records
      <4> QED
        BY <2>1, <4>1, <4>2 DEF Records
    <3>2. CASE EventAck \/ EventReject
      BY <2>1, <3>2 DEF EventAck, EventReject
    <3> QED
      BY <1>6, <3>1, <3>2
  <2>3. Save(record') \in Saves /\ Save(record') # None /\ Save(record').value = record'
    BY <2>2, SaveType
  <2>4. CASE UNCHANGED saves
    BY <2>1, <2>2, <2>4 DEF Traced, RecordTraced, SavesTraced, StoredTraced, Offered, Offerable
  <2>5. CASE saves' # saves
    <3>1. PICK save \in {Save(record'), None} :
            /\ saves' = [saves EXCEPT !["events"] = save]
            /\ save # None => stage # "dead" /\ (stage = "running" \/ saves["events"] # None)
      <4>1. CASE AgentEvent
        BY <2>5, <4>1 DEF AgentEvent
      <4>2. CASE EventAck \/ EventReject
        BY <4>2 DEF EventAck, EventReject
      <4> QED
        BY <1>6, <4>1, <4>2
    <3> QED
      BY <2>1, <2>2, <2>3, <3>1, EventsTraced
  <2> QED
    BY <2>4, <2>5
<1>7. ASSUME NEW w \in Writers, Land(w) PROVE Traced'
  BY <1>7, LandTraced
<1>8. ASSUME NEW d \in Deciders, Decide(d) \/ DecideAck(d) \/ DecideReject(d) PROVE Traced'
  BY <1>8, DecisionTraced
<1> QED
  BY <1>1, <1>2, <1>3, <1>4, <1>5, <1>6, <1>7, <1>8 DEF Next

\* The result of a run whose final save has landed stands until the run fails.
LEMMA ClosingStands ==
  ASSUME Inv, Traced, NEW w \in Writers, Land(w), stage \notin Broken,
         stored # Absent, stored.status \in Outcomes
  PROVE  w \in Deciders /\ stored'.status = stored.status
<1>1. /\ saves[w] \in Saves /\ saves[w] # None /\ ~saves[w].landed /\ stage \in Stages
      /\ stored'.status = stored.status
  BY LandGrows DEF Inv, TypeOK, Land
<1>2. ~Older(stored)
  BY DEF Older, Unfinished, Outcomes
<1>3. stage \in Closing /\ Landed
  BY <1>1, <1>2 DEF Inv, Ordered, Growing, Stages, Settled, Quiet, Working, Closing, Broken
<1>4. w # "events" /\ w # "run"
  BY <1>1, <1>3 DEF Inv, OneSaveAtATime, Landed, Closing, AfterSave
<1> QED
  BY <1>1, <1>4 DEF Writers

\* A stored failure gives way to an event save that was still in flight, or to a decision on a result
\* whose save had landed and was answered by a rejection.
THEOREM FailuresYieldToLateSaves == Spec => [][FailureYields]_vars
<1>1. Inv /\ Traced /\ [Next]_vars => [FailureYields]_vars
  <2> SUFFICES ASSUME Inv, Traced, Next, stored # Absent, stored.status = "failed",
                      stored'.status # "failed"
               PROVE  /\ stage \in Broken
                      /\ \/ /\ saves["events"] # None /\ stored' = saves["events"].value
                            /\ stored'.status = "running"
                         \/ \E d \in Deciders :
                              /\ saves[d] # None /\ stored' = saves[d].value
                              /\ stored'.status = "needs-human"
    BY DEF FailureYields
  <2>1. PICK w \in Writers : Land(w)
    BY OnlyLandStores
  <2>2. saves[w] # None /\ stored' = saves[w].value
    BY <2>1 DEF Land
  <2>3. record.status = "failed"
    BY DEF Traced, StoredTraced
  <2>4. w = "events" \/ w \in Deciders
    BY <2>2, <2>3 DEF Writers, Traced, SavesTraced
  <2>5. stage \in Broken
    BY <2>1, ClosingStands DEF Outcomes
  <2> QED
    BY <2>2, <2>4, <2>5 DEF Traced, SavesTraced
<1> QED
  BY <1>1, InitInv, NextInv, TracedInit, NextTraced, PTL DEF Spec

\* A stored decision gives way to another decision or to the failure of the run, never to a result or
\* an event of the run.
THEOREM DecisionsYieldToDecisions == Spec => [][DecisionYields]_vars
<1>1. Inv /\ Traced /\ [Next]_vars => [DecisionYields]_vars
  <2> SUFFICES ASSUME Inv, Traced, Next, stored # Absent, stored.approval # None,
                      stored'.approval # stored.approval
               PROVE  \/ \E d \in Deciders : /\ saves[d] # None /\ stored' = saves[d].value
                                             /\ stored'.approval = d
                      \/ stage \in Broken /\ stored'.status = "failed"
    BY DEF DecisionYields
  <2>1. PICK w \in Writers : Land(w)
    BY OnlyLandStores
  <2>2. saves[w] # None /\ stored' = saves[w].value /\ ~saves[w].landed
    BY <2>1 DEF Land
  <2>3. stored.status = "needs-human" /\ Offerable
    BY DEF Traced, StoredTraced, Offered
  <2>4. CASE w \in Deciders
    BY <2>2, <2>4 DEF Traced, SavesTraced
  <2>5. CASE w = "run"
    <3>1. stored'.status = "failed"
      BY <2>2, <2>3, <2>5 DEF Offerable
    <3>2. stage \in Broken
      BY <2>1, <2>3, <3>1, ClosingStands DEF Outcomes
    <3> QED
      BY <3>1, <3>2
  <2>6. w # "events"
    BY <2>2, <2>3 DEF Offerable
  <2> QED
    BY <2>4, <2>5, <2>6 DEF Writers
<1> QED
  BY <1>1, InitInv, NextInv, TracedInit, NextTraced, PTL DEF Spec

=============================================================================
