----------------------- MODULE CancellationCleanupProofs -----------------------
(***************************************************************************)
(* Slots of tags are never forgotten, for any number of task runs, flow    *)
(* runs, tags and limits, with users, engines and the service of           *)
(* CancellationCleanup at work at the same time.                           *)
(***************************************************************************)
EXTENDS CancellationCleanup, FiniteSetTheorems, TLAPS

\* What the invariant needs of the types of the variables.
SlotTypes ==
  /\ task \in [TaskRuns -> Row \cup {None}]
  /\ limit \in [Tags -> Limits]
  /\ slots \in [Tags -> SUBSET TaskRuns]
  /\ flow \in [Flows -> StateTypes \cup {None}]
  /\ DOMAIN client = TaskRuns
  /\ \A r \in TaskRuns \ Engine : client[r] = "idle"

\* A reason for r to hold a slot.  An engine's claim does not depend on its row, which
\* comes back after it was deleted.
Entitled(r) ==
  \/ r \in delayed
  \/ IF r \in Engine THEN client[r] \in {"inside", "crashed", "resending"}
                     ELSE task[r] = None \/ task[r].type \in {"RUNNING", "CANCELLING"}

\* A slot is held of a tag of the run that has a limit: so whoever gives up its slots
\* of its limited tags gives up all of them.
SlotsLimited == \A t \in Tags : \A r \in slots[t] : t \in Limited(r)
SlotsEntitled == \A t \in Tags : \A r \in slots[t] : Entitled(r)

SlotInv == SlotTypes /\ SlotsLimited /\ SlotsEntitled

-----------------------------------------------------------------------------

LEMMA SlotInvInit == Init => SlotInv
BY TaskRunAssumption
DEF Init, TaskInit, SlotInv, SlotTypes, SlotsLimited, SlotsEntitled, Row, StateTypes

\* A request about one run moves slots of that run alone, and only of limited tags.
OwnSlots(r) ==
  /\ slots' \in [Tags -> SUBSET TaskRuns]
  /\ \A t \in Tags : \A q \in TaskRuns \ {r} : q \in slots'[t] => q \in slots[t]
  /\ \A t \in Tags : r \in slots'[t] => t \in Limited(r)

\* Such a request keeps the invariant if r has a reason for what it holds after it.
LEMMA RequestStep ==
  ASSUME SlotInv, NEW r \in TaskRuns, OwnSlots(r), limit' = limit, SlotTypes',
         \A q \in TaskRuns \ {r} : /\ task'[q] = task[q] /\ client'[q] = client[q]
                                   /\ q \in delayed => q \in delayed',
         (\E t \in Tags : r \in slots'[t]) => Entitled(r)'
  PROVE  SlotInv'
<1>1. SlotsLimited'
  BY DEF SlotInv, SlotTypes, SlotsLimited, OwnSlots, Limited
<1>2. SlotsEntitled'
  <2> SUFFICES ASSUME NEW t \in Tags, NEW q \in slots'[t]
               PROVE  Entitled(q)'
    BY DEF SlotsEntitled
  <2>1. CASE q = r
    BY <2>1
  <2>2. CASE q # r
    <3>1. q \in TaskRuns \ {r} /\ q \in slots[t]
      BY <2>2 DEF OwnSlots
    <3> QED BY <3>1 DEF SlotInv, SlotsEntitled, Entitled
  <2> QED BY <2>1, <2>2
<1> QED BY <1>1, <1>2 DEF SlotInv

\* Giving back the slots of limited tags gives back all.
LEMMA WithoutSlots ==
  ASSUME SlotInv, NEW r \in TaskRuns
  PROVE  /\ Without(slots, r, Limited(r)) \in [Tags -> SUBSET TaskRuns]
         /\ \A t \in Tags : r \notin Without(slots, r, Limited(r))[t]
         /\ \A t \in Tags : Without(slots, r, Limited(r))[t] \subseteq slots[t]
BY DEF Without, SlotInv, SlotTypes, SlotsLimited

\* A forced transition: the run gives up its slots, or is RUNNING or CANCELLING, or its
\* engine goes on.
LEMMA ForceStep ==
  ASSUME SlotInv, NEW r \in TaskRuns, NEW s \in State, task[r] # None,
         ForceTaskRunState(r, s), flow' \in [Flows -> StateTypes \cup {None}], limit' = limit, client' = client
  PROVE  SlotInv'
<1> DEFINE releases == s.type \notin {"RUNNING", "CANCELLING"}
<1>1. /\ releases => slots' = Without(slots, r, Limited(r))
      /\ ~releases => slots' = slots
  BY DEF ForceTaskRunState, ReleaseTaskConcurrencySlots
<1>2. OwnSlots(r)
  BY <1>1, WithoutSlots DEF OwnSlots, SlotInv, SlotTypes, SlotsLimited
<1>3. SlotTypes'
  BY <1>2 DEF SlotInv, SlotTypes, ForceTaskRunState, OwnSlots, Row, State
<1>4. \A q \in TaskRuns \ {r} : /\ task'[q] = task[q] /\ client'[q] = client[q]
                                /\ q \in delayed => q \in delayed'
  BY DEF ForceTaskRunState, SlotInv, SlotTypes
<1>5. ASSUME NEW t \in Tags, r \in slots'[t]
      PROVE  Entitled(r)'
  <2>1. ~releases /\ r \in slots[t]
    BY <1>1, <1>5, WithoutSlots
  <2>2. Entitled(r)
    BY <2>1 DEF SlotInv, SlotsEntitled
  <2>3. CASE r \in Engine
    BY <2>2, <2>3 DEF Entitled, ForceTaskRunState
  <2>4. CASE r \notin Engine
    <3>1. task'[r].type = s.type
      BY DEF ForceTaskRunState, SlotInv, SlotTypes
    <3> QED BY <2>1, <2>4, <3>1 DEF Entitled
  <2> QED BY <2>3, <2>4
<1> QED BY <1>2, <1>3, <1>4, <1>5, RequestStep

-----------------------------------------------------------------------------
(* Requests under CoreTaskPolicy.                                          *)

\* What the rules say is a status with a state that is to be written, or None.
Answer(v) == v.state \in State \cup {None} /\ (v.state # None => v.state.type # "RUNNING")

LEMMA VerdictType == ASSUME NEW r, NEW p PROVE Answer(Verdict(r, p))
<1>1. ASSUME NEW a, NEW b, Answer(a), Answer(b)
      PROVE  Answer(a ++ b)
  BY <1>1 DEF ++
<1>2. ASSUME NEW c, NEW v, Answer(v)
      PROVE  Answer(If(c, v))
  BY <1>2 DEF If, Pass, Answer
<1>3. Answer(Abort) /\ Answer(Wait) /\ Answer(Reject(None))
  BY DEF Abort, Wait, Reject, Answer
<1>4. \A s \in State : s.type # "RUNNING" => Answer(Reject(s))
  BY DEF Reject, Answer
<1>5. Answer(CacheRetrieval(p))
  <2> DEFINE s == [type |-> "COMPLETED", early |-> FALSE, persisted |-> TRUE]
  <2>1. s \in State /\ s.type # "RUNNING"
    BY DEF State, StateTypes
  <2> QED BY <1>2, <1>4, <2>1 DEF CacheRetrieval
<1>6. Answer(HandleTaskTerminalStateTransitions(r, p))
  BY <1>1, <1>2, <1>3 DEF HandleTaskTerminalStateTransitions
<1>7. Answer(PreventRunningTasksFromStoppedFlows(r, p))
  <2>1. Plain("PAUSED") \in State /\ Plain("PAUSED").type # "RUNNING"
    BY DEF Plain, State, StateTypes
  <2> QED BY <1>1, <1>2, <1>3, <1>4, <2>1 DEF PreventRunningTasksFromStoppedFlows
<1>8. Answer(SecureTaskConcurrencySlots(r, p))
  BY <1>2, <1>3 DEF SecureTaskConcurrencySlots
<1>9. Answer(AfterSlots(r, p))
  <2> DEFINE s == [type |-> "SCHEDULED", early |-> TRUE, persisted |-> FALSE]
  <2>1. s \in State /\ s.type # "RUNNING"
    BY DEF State, StateTypes
  <2> QED BY <1>1, <1>2, <1>3, <1>4, <2>1
          DEF AfterSlots, WaitForScheduledTime, RetryFailedTasks
<1> QED BY <1>1, <1>5, <1>6, <1>7, <1>8, <1>9 DEF Verdict, BeforeSlots

\* What is written is a state; an accepted proposal is written.
LEMMA WrittenType ==
  ASSUME SlotTypes, NEW r \in TaskRuns, task[r] # None, NEW p \in Proposals
  PROVE  /\ Written(r, p) \in State \cup {None}
         /\ Verdict(r, p) = Pass => Written(r, p) \in State /\ Written(r, p).type = p.type
<1>1. task[r] \in Row /\ p \in Proposal
  BY TaskRunAssumption DEF SlotTypes
<1>2. CASE Verdict(r, p) = Pass
  BY <1>1, <1>2 DEF Written, Row, Proposal, State
<1>3. CASE Verdict(r, p) # Pass
  BY <1>3, VerdictType DEF Written, Answer
<1> QED BY <1>2, <1>3

\* The loop over the tags touches the slots of r, of limited tags.
LEMMA AskedSlots ==
  ASSUME SlotInv, NEW r \in TaskRuns, NEW p
  PROVE  /\ SlotsAsked(r, p) \in [Tags -> SUBSET TaskRuns]
         /\ \A t \in Tags : \A q \in TaskRuns \ {r} :
              q \in SlotsAsked(r, p)[t] => q \in slots[t]
         /\ \A t \in Tags : r \in SlotsAsked(r, p)[t] => t \in Limited(r)
<1>1. /\ slots \in [Tags -> SUBSET TaskRuns]
      /\ \A t \in Tags : r \in slots[t] => t \in Limited(r)
  BY DEF SlotInv, SlotTypes, SlotsLimited
<1>2. CASE SlotsAsked(r, p) = slots
  BY <1>1, <1>2
<1>3. CASE SlotsAsked(r, p) = Without(slots, r, Limited(r))
  BY <1>1, <1>3 DEF Without
<1>4. CASE SlotsAsked(r, p) = SlotsSecured(r)
  BY <1>1, <1>4 DEF SlotsSecured
<1> QED BY <1>2, <1>3, <1>4 DEF SlotsAsked

\* If the loop succeeds and no later rule objects, the proposal is accepted.
LEMMA AskedAndKept ==
  ASSUME SlotInv, NEW r \in TaskRuns, NEW p, NEW t \in Tags, r \in SlotsAsked(r, p)[t]
  PROVE  \/ r \in slots[t] /\ ~(p.type = "RUNNING" /\ BeforeSlots(r, p) = Pass)
         \/ p.type = "RUNNING" /\ BeforeSlots(r, p) = Pass /\ Full(r) # {}
         \/ p.type = "RUNNING" /\ Verdict(r, p) = Pass
<1>1. CASE p.type # "RUNNING" \/ BeforeSlots(r, p) # Pass
  BY <1>1 DEF SlotsAsked
<1>2. CASE p.type = "RUNNING" /\ BeforeSlots(r, p) = Pass /\ Full(r) = {}
  <2>1. AfterSlots(r, p) = Pass
    BY <1>2, WithoutSlots DEF SlotsAsked
  <2> QED BY <1>2, <2>1 DEF Verdict, SecureTaskConcurrencySlots, If, ++
<1> QED BY <1>1, <1>2

LEMMA ProposeStep ==
  ASSUME SlotInv, NEW r \in TaskRuns, Propose(r)
  PROVE  SlotInv'
<1>1. PICK p \in Proposals : SetTaskRunState(r, p)
  BY DEF Propose
<1> DEFINE s == Written(r, p)
           asks == p.type = "RUNNING" /\ BeforeSlots(r, p) = Pass
           asked == SlotsAsked(r, p)
<1>2. r \notin Engine /\ task[r] # None /\ task[r] \in Row /\ p \in Proposal
  BY TaskRunAssumption DEF Propose, SlotInv, SlotTypes
<1>3. s \in State \cup {None} /\ (Verdict(r, p) = Pass => s \in State /\ s.type = p.type)
  BY <1>2, WrittenType DEF SlotInv
<1>4. /\ limit' = limit /\ flow' = flow /\ client' = client
      /\ IF s = None
           THEN task' = task /\ slots' = asked
           ELSE /\ task' = [task EXCEPT ![r] =
                     [type |-> s.type, early |-> s.early, persisted |-> s.persisted,
                      run_count |-> RunCount(r, p, s)]]
                /\ slots' = ReleaseTaskConcurrencySlots(r, s, asked)
      /\ delayed' = IF asks /\ Full(r) # {} THEN delayed \cup {r}
                    ELSE IF s # None THEN delayed \ {r} ELSE delayed
  BY <1>1 DEF SetTaskRunState
<1>5. RunCount(r, p, s) \in Nat
  BY <1>2 DEF RunCount, Row
<1>6. /\ asked \in [Tags -> SUBSET TaskRuns]
      /\ \A t \in Tags : \A q \in TaskRuns \ {r} : q \in asked[t] => q \in slots[t]
      /\ \A t \in Tags : r \in asked[t] => t \in Limited(r)
  BY AskedSlots
<1> HIDE DEF s, asked
<1>7. \/ slots' = asked /\ (s # None => s.type \in {"RUNNING", "CANCELLING"})
      \/ s # None /\ slots' = Without(asked, r, Limited(r))
  BY <1>4 DEF ReleaseTaskConcurrencySlots
<1>8. OwnSlots(r)
  <2>1. CASE slots' = asked
    BY <1>6, <2>1 DEF OwnSlots
  <2>2. CASE slots' = Without(asked, r, Limited(r))
    BY <1>6, <2>2 DEF OwnSlots, Without
  <2> QED BY <1>7, <2>1, <2>2
<1>9. SlotTypes'
  <2>1. task' \in [TaskRuns -> Row \cup {None}]
    BY <1>3, <1>4, <1>5 DEF SlotInv, SlotTypes, Row, State
  <2> QED BY <1>4, <1>8, <2>1 DEF SlotInv, SlotTypes, OwnSlots
<1>10. \A q \in TaskRuns \ {r} : /\ task'[q] = task[q] /\ client'[q] = client[q]
                                 /\ q \in delayed => q \in delayed'
  BY <1>4 DEF SlotInv, SlotTypes
<1>11. ASSUME NEW t \in Tags, r \in slots'[t]
       PROVE  Entitled(r)'
  <2>1. /\ slots' = asked /\ r \in asked[t]
        /\ s # None => s.type \in {"RUNNING", "CANCELLING"}
    <3>1. CASE slots' = Without(asked, r, Limited(r))
      BY <1>6, <1>11, <3>1 DEF Without
    <3> QED BY <1>7, <1>11, <3>1
  <2>2. CASE s # None
    <3>1. task'[r].type = s.type
      BY <1>4, <2>2 DEF SlotInv, SlotTypes
    <3> QED BY <1>2, <2>1, <2>2, <3>1 DEF Entitled
  <2>3. CASE s = None
    <3>1. Verdict(r, p) # Pass
      BY <1>3, <2>3, TaskRunAssumption
    <3>2. \/ r \in slots[t] /\ ~asks
          \/ asks /\ Full(r) # {}
      BY <2>1, <3>1, AskedAndKept DEF asked
    <3>3. CASE r \in slots[t] /\ ~asks
      BY <1>2, <1>4, <2>3, <3>3 DEF Entitled, SlotInv, SlotsEntitled
    <3>4. CASE asks /\ Full(r) # {}
      BY <1>4, <3>4 DEF Entitled
    <3> QED BY <3>2, <3>3, <3>4
  <2> QED BY <2>2, <2>3
<1> QED BY <1>4, <1>8, <1>9, <1>10, <1>11, RequestStep

-----------------------------------------------------------------------------
(* The engines, users and the service.                                     *)

\* An engine's step with what it writes to the row.
LEMMA EngineKeeps ==
  ASSUME SlotInv, NEW r \in TaskRuns,
         StartTask(r) \/ EngineStep(r) \/ CrashTask(r)
  PROVE  SlotInv'
<1>1. r \in Engine
  BY DEF StartTask, EngineStep, Locked, Acquired, FinishTask, CrashTask, Asking,
         SlotInv, SlotTypes
<1>2. /\ limit' = limit /\ flow' = flow
      /\ task' = task \/ \E type \in StateTypes : Recorded(r, type)
      /\ client' = client \/ \E place : ClientAt(r, place)
      /\ delayed \subseteq delayed'
  BY Zenon
  DEF StartTask, EngineStep, Locked, Acquired, FinishTask, CrashTask, StateTypes, tagVars
<1>3. task' \in [TaskRuns -> Row \cup {None}] /\ DOMAIN client' = TaskRuns
  <2>1. ASSUME NEW type \in StateTypes, Recorded(r, type)
        PROVE  task' \in [TaskRuns -> Row \cup {None}]
    BY <2>1 DEF Recorded, SlotInv, SlotTypes, Row
  <2>2. DOMAIN client' = TaskRuns
    BY <1>2 DEF ClientAt, SlotInv, SlotTypes
  <2> QED BY <1>2, <2>1, <2>2 DEF SlotInv, SlotTypes
<1>4. \A q \in TaskRuns \ {r} : /\ task'[q] = task[q] /\ client'[q] = client[q]
                                /\ q \in delayed => q \in delayed'
  BY <1>2 DEF Recorded, ClientAt, SlotInv, SlotTypes
<1>5. OwnSlots(r)
  <2>1. CASE slots' = slots
    BY <2>1 DEF OwnSlots, SlotInv, SlotTypes, SlotsLimited
  <2>2. CASE Acquired(r)
    BY <2>2 DEF Acquired, OwnSlots, SlotInv, SlotTypes, SlotsLimited
  <2>3. CASE FinishTask(r)
    BY <2>3, WithoutSlots DEF FinishTask, OwnSlots, SlotInv, SlotTypes, SlotsLimited
  <2> QED BY <2>1, <2>2, <2>3 DEF StartTask, EngineStep, Locked, CrashTask, tagVars
<1>6. SlotTypes'
  BY <1>1, <1>2, <1>3, <1>4, <1>5 DEF SlotInv, SlotTypes, OwnSlots
<1>7. ASSUME NEW t \in Tags, r \in slots'[t]
      PROVE  Entitled(r)'
  <2>1. slots' = slots => Entitled(r)
    BY <1>7 DEF SlotInv, SlotsEntitled
  <2>2. CASE StartTask(r)
    BY <1>1, <2>1, <2>2 DEF StartTask, tagVars, Entitled
  <2>3. CASE Locked(r)
    BY <1>1, <2>1, <2>3 DEF Locked, tagVars, Entitled, Asking
  <2>4. CASE Acquired(r)
    BY <1>1, <2>4 DEF Acquired, Entitled, ClientAt, SlotInv, SlotTypes
  <2>5. CASE FinishTask(r)
    BY <1>7, <2>5, WithoutSlots DEF FinishTask
  <2>6. CASE CrashTask(r)
    BY <1>1, <2>6 DEF CrashTask, Entitled, ClientAt, SlotInv, SlotTypes
  <2> QED BY <2>2, <2>3, <2>4, <2>5, <2>6 DEF EngineStep
<1> QED BY <1>2, <1>4, <1>5, <1>6, <1>7, RequestStep

\* Deleting a row, or the end of its waiting time, takes nobody's reason.
LEMMA RowKeeps ==
  ASSUME SlotInv, NEW r \in TaskRuns, DeleteTaskRun(r) \/ ClockPasses(r)
  PROVE  SlotInv'
<1>1. UNCHANGED <<limit, slots, flow, client, delayed>> /\ task[r] \in Row
  BY DEF DeleteTaskRun, ClockPasses, tagVars, SlotInv, SlotTypes
<1>2. /\ task' \in [TaskRuns -> Row \cup {None}]
      /\ \A q \in TaskRuns : task'[q] = None \/ task'[q].type = task[q].type
  <2>1. CASE DeleteTaskRun(r)
    BY <2>1 DEF DeleteTaskRun, SlotInv, SlotTypes
  <2>2. CASE task' = [task EXCEPT ![r].early = FALSE]
    <3>1. task' = [task EXCEPT ![r] = [task[r] EXCEPT !.early = FALSE]]
      BY <2>2
    <3>2. [task[r] EXCEPT !.early = FALSE] \in Row
      BY <1>1 DEF Row
    <3>3. [task[r] EXCEPT !.early = FALSE].type = task[r].type
      BY <1>1 DEF Row
    <3> QED BY <3>1, <3>2, <3>3 DEF SlotInv, SlotTypes
  <2> QED BY <2>1, <2>2 DEF ClockPasses
<1>3. \A q \in TaskRuns : task[q] = None => task'[q] = None
  BY DEF DeleteTaskRun, ClockPasses, SlotInv, SlotTypes
<1> QED BY <1>1, <1>2, <1>3
        DEF SlotInv, SlotTypes, SlotsLimited, SlotsEntitled, Entitled, Limited

LEMMA LimitKeeps ==
  ASSUME SlotInv, NEW t \in Tags, SetLimit(t) \/ ResetLimit(t)
  PROVE  SlotInv'
<1>1. /\ UNCHANGED <<task, flow, client, delayed>>
      /\ limit' \in [Tags -> Limits] /\ slots' \in [Tags -> SUBSET TaskRuns]
  BY DEF SetLimit, ResetLimit, SlotInv, SlotTypes
<1>2. SlotTypes'
  BY <1>1 DEF SlotInv, SlotTypes
<1>3. ASSUME NEW u \in Tags, NEW q, q \in slots'[u]
      PROVE  Entitled(q)' /\ u \in Limited(q)'
  <2>1. q \in slots[u] /\ (limit[u] # None => limit'[u] # None)
    BY <1>3 DEF SetLimit, ResetLimit, SlotInv, SlotTypes
  <2>2. Entitled(q) /\ u \in TagsOf[q] /\ limit[u] # None
    BY <2>1 DEF SlotInv, SlotsEntitled, SlotsLimited, Limited
  <2>3. Entitled(q)'
    BY <1>1, <2>2 DEF Entitled
  <2>4. u \in Limited(q)'
    BY <2>1, <2>2 DEF Limited
  <2> QED BY <2>3, <2>4
<1> QED BY <1>2, <1>3 DEF SlotInv, SlotsEntitled, SlotsLimited

\* A state of a flow run is forced upon its parent task.
LEMMA SetFlowKeeps ==
  ASSUME SlotInv, NEW f \in Flows, NEW type \in StateTypes, SetFlow(f, type)
  PROVE  SlotInv'
<1>1. /\ flow' \in [Flows -> StateTypes \cup {None}]
      /\ limit' = limit /\ client' = client
  BY DEF SetFlow, SlotInv, SlotTypes
<1>2. CASE ParentTask[f] # None /\ task[ParentTask[f]] # None
  <2>1. ParentTask[f] \in TaskRuns /\ Plain(type) \in State
    BY <1>2, CleanupAssumption DEF Plain, State
  <2>2. ForceTaskRunState(ParentTask[f], Plain(type))
    BY <1>2 DEF SetFlow
  <2> QED BY <1>1, <1>2, <2>1, <2>2, ForceStep
<1>3. CASE ~(ParentTask[f] # None /\ task[ParentTask[f]] # None)
  <2>1. UNCHANGED <<task, slots, delayed>>
    BY <1>3 DEF SetFlow
  <2> QED BY <1>1, <2>1
          DEF SlotInv, SlotTypes, SlotsLimited, SlotsEntitled, Entitled, Limited
<1> QED BY <1>2, <1>3

\* The service's decisions about subflows and children hold flow runs and task runs.
ServiceTypes ==
  /\ doomed \in Flows \cup {None} /\ batch \subseteq Flows
  /\ children \subseteq TaskRuns

LEMMA ServiceTypesNext ==
  ASSUME ServiceTypes, [Next]_cleanupVars
  PROVE  ServiceTypes'
<1>1. CASE Service
  BY <1>1
  DEF Service, ReadCancelled, ReadChildren, CancelChild, ReadSubflows, ConsiderSubflow,
      CancelSubflow, EndRound, ServiceTypes, Cancelled, Subflows
<1>2. CASE UNCHANGED serviceVars
  BY <1>2 DEF serviceVars, ServiceTypes
<1> QED BY <1>1, <1>2 DEF Next, ChangeFlow, cleanupVars, serviceVars

LEMMA ServiceKeeps ==
  ASSUME SlotInv, ServiceTypes, Service
  PROVE  SlotInv'
<1>1. CASE UNCHANGED vars
  BY <1>1 DEF vars, SlotInv, SlotTypes, SlotsLimited, SlotsEntitled, Entitled, Limited
<1>2. CASE CancelChild
  <2>1. PICK r \in children :
          IF task[r] = None
            THEN UNCHANGED <<task, slots, delayed>>
            ELSE ForceTaskRunState(r, Plain("CANCELLED"))
    BY <1>2 DEF CancelChild
  <2>2. limit' = limit /\ flow' = flow /\ client' = client
    BY <1>2 DEF CancelChild
  <2>3. CASE task[r] = None
    BY <2>1, <2>2, <2>3
    DEF SlotInv, SlotTypes, SlotsLimited, SlotsEntitled, Entitled, Limited
  <2>4. CASE task[r] # None
    <3>1. r \in TaskRuns /\ Plain("CANCELLED") \in State
      BY DEF ServiceTypes, Plain, State, StateTypes
    <3>2. flow' \in [Flows -> StateTypes \cup {None}]
      BY <2>2 DEF SlotInv, SlotTypes
    <3> QED BY <2>1, <2>2, <2>4, <3>1, <3>2, ForceStep
  <2> QED BY <2>3, <2>4
<1>3. CASE CancelSubflow
  <2>1. PICK type \in {"CANCELLING", "CANCELLED"} : SetFlow(doomed, type)
    BY <1>3 DEF CancelSubflow
  <2>2. doomed \in Flows /\ type \in StateTypes
    BY <1>3 DEF CancelSubflow, ServiceTypes, StateTypes
  <2> QED BY <2>1, <2>2, SetFlowKeeps
<1> QED BY <1>1, <1>2, <1>3
        DEF Service, ReadCancelled, ReadChildren, ReadSubflows, ConsiderSubflow, EndRound

LEMMA SlotInvNext ==
  ASSUME SlotInv, ServiceTypes, [Next]_cleanupVars
  PROVE  SlotInv'
<1>1. CASE UNCHANGED cleanupVars
  BY <1>1
  DEF cleanupVars, SlotInv, SlotTypes, SlotsLimited, SlotsEntitled, Entitled, Limited
<1>2. CASE TaskNext
  BY <1>2, ProposeStep, RowKeeps, EngineKeeps, LimitKeeps DEF TaskNext
<1>3. ASSUME NEW f \in Flows, ChangeFlow(f)
      PROVE  SlotInv'
  <2>1. PICK change \in FlowChanges : SetFlow(f, change[2])
    BY <1>3 DEF ChangeFlow
  <2> QED BY <2>1, CleanupAssumption, SetFlowKeeps
<1>4. CASE Service
  BY <1>4, ServiceKeeps
<1> QED BY <1>1, <1>2, <1>3, <1>4 DEF Next

-----------------------------------------------------------------------------

\* Whoever holds a slot of a tag has a use for it, whatever the tasks, tags, limits and
\* the batches of the service, and in whatever order their requests come.
THEOREM SlotOwners == Spec => []SlotsHaveOwners
<1>1. Init => SlotInv /\ ServiceTypes
  BY SlotInvInit DEF Init, ServiceTypes
<1>2. (SlotInv /\ ServiceTypes) /\ [Next]_cleanupVars => (SlotInv /\ ServiceTypes)'
  BY SlotInvNext, ServiceTypesNext
<1>3. SlotInv => SlotsHaveOwners
  BY DEF SlotInv, SlotsEntitled, Entitled, SlotsHaveOwners
<1> QED BY <1>1, <1>2, <1>3, PTL DEF Spec

-----------------------------------------------------------------------------
(* What one request does to the slots of its run.                          *)

\* Whoever finds no tag full and takes a slot of each is within their limits.
LEMMA TakenWithinLimit ==
  ASSUME IsFiniteSet(TaskRuns), SlotInv, NEW r \in TaskRuns, Full(r) = {},
         NEW t \in Limited(r), slots'[t] = slots[t] \cup {r}
  PROVE  r \in slots'[t] /\ Cardinality(slots'[t]) <= limit[t]
<1>1. t \in Tags /\ limit[t] \in Nat /\ slots[t] \subseteq TaskRuns
  BY TaskRunAssumption DEF Limited, SlotInv, SlotTypes
<1>2. IsFiniteSet(slots[t])
  BY <1>1, FS_Subset
<1>3. Cardinality(slots[t]) \in Nat
  BY <1>2, FS_CardinalityType
<1>4. Cardinality(slots[t]) < limit[t]
  BY <1>1, <1>3 DEF Full
<1>5. Cardinality(slots'[t]) \in {Cardinality(slots[t]), Cardinality(slots[t]) + 1}
  BY <1>2, FS_AddElement
<1> QED BY <1>1, <1>3, <1>4, <1>5

\* RUNNING is written only for a proposal that passes every rule.
LEMMA RunningIsAccepted ==
  ASSUME NEW r, NEW p, Written(r, p) # None, Written(r, p).type = "RUNNING"
  PROVE  /\ p.type = "RUNNING" /\ Verdict(r, p) = Pass /\ BeforeSlots(r, p) = Pass
         /\ Full(r) = {} /\ AfterSlots(r, p) = Pass
<1>1. Verdict(r, p) = Pass /\ p.type = "RUNNING"
  BY VerdictType DEF Written, Answer
<1>2. /\ BeforeSlots(r, p) = Pass /\ SecureTaskConcurrencySlots(r, p) = Pass
      /\ AfterSlots(r, p) = Pass
  BY <1>1 DEF Verdict, ++
<1>3. Full(r) = {}
  BY <1>1, <1>2 DEF SecureTaskConcurrencySlots, If, Pass, Abort, Wait
<1> QED BY <1>1, <1>2, <1>3

\* A step is about one run's engine or row at most; the states of others stay.
OnlyAbout(r) ==
  \A q \in TaskRuns \ {r} : /\ task'[q] = task[q] /\ client'[q] = client[q]
                           /\ \A t \in Tags : q \in slots[t] => q \in slots'[t]

LEMMA ForceIsAboutOne ==
  ASSUME SlotInv, NEW r \in TaskRuns, NEW s, ForceTaskRunState(r, s), client' = client
  PROVE  OnlyAbout(r) /\ task'[r].type = s.type
<1>1. slots' = slots \/ slots' = Without(slots, r, Limited(r))
  BY DEF ForceTaskRunState, ReleaseTaskConcurrencySlots
<1>2. /\ \A q \in TaskRuns \ {r} : task'[q] = task[q]
      /\ task'[r].type = s.type
  BY DEF ForceTaskRunState, SlotInv, SlotTypes
<1> QED BY <1>1, <1>2 DEF OnlyAbout, Without

LEMMA ProposeIsAboutOne ==
  ASSUME SlotInv, NEW r \in TaskRuns, NEW p, SetTaskRunState(r, p)
  PROVE  OnlyAbout(r)
<1> DEFINE asked == SlotsAsked(r, p)
<1>1. \A t \in Tags : \A q \in TaskRuns \ {r} : q \in slots[t] => q \in asked[t]
  <2>1. CASE asked = slots
    BY <2>1
  <2>2. CASE asked = Without(slots, r, Limited(r))
    BY <2>2 DEF Without
  <2>3. CASE asked = SlotsSecured(r)
    BY <2>3 DEF SlotsSecured
  <2> QED BY <2>1, <2>2, <2>3 DEF SlotsAsked
<1>2. slots' = asked \/ slots' = Without(asked, r, Limited(r))
  BY DEF SetTaskRunState, ReleaseTaskConcurrencySlots
<1>3. client' = client /\ \A q \in TaskRuns \ {r} : task'[q] = task[q]
  BY DEF SetTaskRunState, SlotInv, SlotTypes
<1> HIDE DEF asked
<1> QED BY <1>1, <1>2, <1>3 DEF OnlyAbout, Without

LEMMA EngineIsAboutOne ==
  ASSUME SlotInv, NEW r \in TaskRuns, StartTask(r) \/ EngineStep(r) \/ CrashTask(r)
  PROVE  OnlyAbout(r) /\ r \in Engine
<1>1. r \in Engine
  BY DEF StartTask, EngineStep, Locked, Acquired, FinishTask, CrashTask, Asking,
         SlotInv, SlotTypes
<1>2. /\ task' = task \/ \E type \in StateTypes : Recorded(r, type)
      /\ client' = client \/ \E place : ClientAt(r, place)
  BY Zenon
  DEF StartTask, EngineStep, Locked, Acquired, FinishTask, CrashTask, StateTypes, tagVars
<1>3. \A q \in TaskRuns \ {r} : task'[q] = task[q] /\ client'[q] = client[q]
  BY <1>2 DEF Recorded, ClientAt, SlotInv, SlotTypes
<1>4. \/ slots' = slots
      \/ slots' = [t \in Tags |-> IF t \in Limited(r) THEN slots[t] \cup {r} ELSE slots[t]]
      \/ slots' = Without(slots, r, Limited(r))
  BY DEF StartTask, EngineStep, Locked, Acquired, FinishTask, CrashTask, tagVars
<1> QED BY <1>1, <1>3, <1>4 DEF OnlyAbout, Without

-----------------------------------------------------------------------------
(* Admission.                                                              *)

\* The parent tasks of subflows have no tags of their own; their states are forced.
ParentsUntagged == \A f \in Flows : ParentTask[f] # None => TagsOf[ParentTask[f]] = {}

LEMMA NotEntered ==
  ASSUME NEW r, task'[r] = task[r], client'[r] = client[r]
  PROVE  ~Enters(r)
BY DEF Enters

LEMMA ProposeAdmits ==
  ASSUME IsFiniteSet(TaskRuns), SlotInv, NEW r \in TaskRuns, Propose(r), Enters(r),
         NEW t \in Limited(r)
  PROVE  r \in slots'[t] /\ Cardinality(slots'[t]) <= limit[t]
<1>1. PICK p \in Proposals : SetTaskRunState(r, p)
  BY DEF Propose
<1> DEFINE s == Written(r, p)
<1>2. r \notin Engine /\ t \in Tags
  BY TaskRunAssumption DEF Propose, Limited
<1>3. task'[r].type = "RUNNING" /\ task' # task
  BY <1>2 DEF Enters
<1>4. s # None /\ s.type = task'[r].type
  BY <1>1, <1>3 DEF SetTaskRunState, SlotInv, SlotTypes
<1>5. /\ p.type = "RUNNING" /\ BeforeSlots(r, p) = Pass
      /\ Full(r) = {} /\ AfterSlots(r, p) = Pass
  BY <1>3, <1>4, RunningIsAccepted
<1>6. slots' = SlotsSecured(r)
  BY <1>1, <1>3, <1>4, <1>5
  DEF SetTaskRunState, ReleaseTaskConcurrencySlots, SlotsAsked
<1>7. slots'[t] = slots[t] \cup {r}
  BY <1>2, <1>5, <1>6 DEF SlotsSecured
<1> QED BY <1>5, <1>7, TakenWithinLimit

LEMMA AdmissionStep ==
  ASSUME IsFiniteSet(TaskRuns), ParentsUntagged, SlotInv, ServiceTypes,
         [Next]_cleanupVars, NEW r \in TaskRuns, Enters(r), NEW t \in Limited(r)
  PROVE  r \in slots'[t] /\ Cardinality(slots'[t]) <= limit[t]
<1>1. ~(task'[r] = task[r] /\ client'[r] = client[r])
  BY NotEntered
<1>2. ASSUME NEW q \in TaskRuns, OnlyAbout(q)
      PROVE  q = r
  BY <1>1, <1>2 DEF OnlyAbout
<1>3. ASSUME NEW q \in TaskRuns, Propose(q)
      PROVE  r \in slots'[t] /\ Cardinality(slots'[t]) <= limit[t]
  BY <1>2, <1>3, ProposeIsAboutOne, ProposeAdmits DEF Propose
<1>4. ASSUME NEW q \in TaskRuns, StartTask(q) \/ EngineStep(q) \/ CrashTask(q)
      PROVE  r \in slots'[t] /\ Cardinality(slots'[t]) <= limit[t]
  <2>1. q = r /\ r \in Engine
    BY <1>2, <1>4, EngineIsAboutOne
  <2>2. client'[r] = "inside" /\ client[r] # "inside"
    BY <2>1 DEF Enters
  <2>3. Acquired(r)
    BY <1>4, <2>1, <2>2
    DEF StartTask, EngineStep, Locked, FinishTask, CrashTask, ClientAt, SlotInv, SlotTypes
  <2>4. Full(r) = {} /\ slots'[t] = slots[t] \cup {r}
    BY <2>3, TaskRunAssumption DEF Acquired, Limited
  <2> QED BY <2>4, TakenWithinLimit
<1>5. ASSUME NEW q \in TaskRuns, DeleteTaskRun(q)
      PROVE  FALSE
  BY <1>5 DEF DeleteTaskRun, Enters, SlotInv, SlotTypes
<1>6. ASSUME NEW q \in TaskRuns, ClockPasses(q)
      PROVE  FALSE
  BY <1>6 DEF ClockPasses, Enters, SlotInv, SlotTypes, Row
<1>7. ASSUME NEW u \in Tags, SetLimit(u) \/ ResetLimit(u)
      PROVE  FALSE
  BY <1>1, <1>7 DEF SetLimit, ResetLimit
<1>8. ASSUME NEW f \in Flows, NEW type, SetFlow(f, type)
      PROVE  FALSE
  <2>1. CASE ParentTask[f] # None /\ task[ParentTask[f]] # None
    <3>1. ParentTask[f] \in TaskRuns /\ ParentTask[f] # r
      BY <2>1, CleanupAssumption DEF ParentsUntagged, Limited
    <3> QED BY <1>2, <1>8, <2>1, <3>1, ForceIsAboutOne DEF SetFlow
  <2>2. CASE ~(ParentTask[f] # None /\ task[ParentTask[f]] # None)
    BY <1>1, <1>8, <2>2 DEF SetFlow
  <2> QED BY <2>1, <2>2
<1>9. ASSUME CancelChild
      PROVE  FALSE
  <2>1. PICK q \in children :
          IF task[q] = None
            THEN UNCHANGED <<task, slots, delayed>>
            ELSE ForceTaskRunState(q, Plain("CANCELLED"))
    BY <1>9 DEF CancelChild
  <2>2. client' = client /\ q \in TaskRuns
    BY <1>9 DEF CancelChild, ServiceTypes
  <2>3. ForceTaskRunState(q, Plain("CANCELLED"))
    BY <1>1, <2>1, <2>2
  <2>4. q = r /\ task'[r].type = "CANCELLED"
    BY <1>2, <2>2, <2>3, ForceIsAboutOne DEF Plain
  <2> QED BY <2>2, <2>4 DEF Enters
<1>10. ASSUME Service
       PROVE  FALSE
  <2>1. CASE UNCHANGED vars
    BY <1>1, <2>1 DEF vars
  <2>2. CASE CancelSubflow
    <3>1. PICK type \in {"CANCELLING", "CANCELLED"} : SetFlow(doomed, type)
      BY <2>2 DEF CancelSubflow
    <3>2. doomed \in Flows
      BY <2>2 DEF CancelSubflow, ServiceTypes
    <3> QED BY <1>8, <3>1, <3>2
  <2> QED BY <1>9, <1>10, <2>1, <2>2
          DEF Service, ReadCancelled, ReadChildren, ReadSubflows, ConsiderSubflow, EndRound
<1> QED BY <1>1, <1>3, <1>4, <1>5, <1>6, <1>7, <1>8, <1>10
        DEF Next, TaskNext, ChangeFlow, cleanupVars

\* Whoever begins to execute has a slot of every limited tag, and takes no tag beyond
\* its limit, whether an engine took the slots or a rule did.
THEOREM Admission ==
  ASSUME IsFiniteSet(TaskRuns), ParentsUntagged
  PROVE  Spec => AdmittedWithinLimits
<1>1. Init => SlotInv /\ ServiceTypes
  BY SlotInvInit DEF Init, ServiceTypes
<1>2. (SlotInv /\ ServiceTypes) /\ [Next]_cleanupVars => (SlotInv /\ ServiceTypes)'
  BY SlotInvNext, ServiceTypesNext
<1>3. (SlotInv /\ ServiceTypes) /\ [Next]_cleanupVars
        => [\A r \in TaskRuns : Enters(r) =>
              \A t \in Limited(r) :
                r \in slots'[t] /\ Cardinality(slots'[t]) <= limit[t]]_vars
  BY AdmissionStep
<1> QED BY <1>1, <1>2, <1>3, PTL DEF Spec, AdmittedWithinLimits

-----------------------------------------------------------------------------
(* Keeping what was admitted.                                              *)

LEMMA ProposeKeepsSlots ==
  ASSUME SlotInv, NEW r \in TaskRuns, Propose(r), NEW t \in Tags, r \in slots[t],
         r \notin slots'[t], Executing(r)
  PROVE  r \in delayed'
<1>1. PICK p \in Proposals : SetTaskRunState(r, p)
  BY DEF Propose
<1> DEFINE s == Written(r, p)
           asks == p.type = "RUNNING" /\ BeforeSlots(r, p) = Pass
           asked == SlotsAsked(r, p)
<1>2. r \notin Engine /\ task'[r] # None /\ task'[r].type \in {"RUNNING", "CANCELLING"}
  BY TaskRunAssumption DEF Propose, Executing
<1>3. s # None => task'[r].type = s.type
  BY <1>1 DEF SetTaskRunState, SlotInv, SlotTypes
<1>4. slots' = asked
  BY <1>1, <1>2, <1>3 DEF SetTaskRunState, ReleaseTaskConcurrencySlots
<1>5. asks
  BY <1>4 DEF SlotsAsked
<1>6. CASE Full(r) # {}
  BY <1>1, <1>5, <1>6 DEF SetTaskRunState
<1>7. CASE Full(r) = {}
  <2>1. AfterSlots(r, p) # Pass
    BY <1>4, <1>5, <1>7 DEF SlotsAsked, SlotsSecured
  <2>2. RetryFailedTasks(r, p) = Pass
    BY <1>5 DEF RetryFailedTasks, If
  <2>3. WaitForScheduledTime(r, p) # Pass
    BY <2>1, <2>2 DEF AfterSlots, ++
  <2>4. task[r].type \in {"SCHEDULED", "PENDING"} /\ AfterSlots(r, p) = Wait
    BY <2>3 DEF WaitForScheduledTime, AfterSlots, If, ++
  <2>5. Verdict(r, p) = Wait
    BY <1>5, <1>7, <2>1, <2>4 DEF Verdict, SecureTaskConcurrencySlots, If, ++
  <2>6. s = None
    BY <2>5 DEF Written, Wait, Pass
  <2>7. task'[r] = task[r]
    BY <1>1, <2>6 DEF SetTaskRunState
  <2> QED BY <1>2, <2>4, <2>7
<1> QED BY <1>6, <1>7

\* A forced transition takes slots from a run that has stopped, or from one whose
\* engine does not know.
LEMMA ForceKeepsSlots ==
  ASSUME SlotInv, NEW r \in TaskRuns, NEW s, ForceTaskRunState(r, s), client' = client,
         NEW t \in Tags, r \in slots[t], r \notin slots'[t], Executing(r)
  PROVE  r \in Engine /\ task'[r].type = s.type
<1>1. task'[r].type = s.type
  BY ForceIsAboutOne
<1>2. s.type \notin {"RUNNING", "CANCELLING"}
  BY DEF ForceTaskRunState, ReleaseTaskConcurrencySlots
<1> QED BY <1>1, <1>2 DEF Executing

LEMMA KeptStep ==
  ASSUME SlotInv, ServiceTypes, [Next]_cleanupVars, NEW t \in Tags,
         NEW r \in slots[t], r \notin slots'[t], Executing(r)
  PROVE  \/ limit'[t] = None \/ ResetLimit(t) \/ r \in delayed'
         \/ r \in Engine /\ task'[r].type = "CANCELLED"
<1>1. r \in TaskRuns /\ slots' # slots
  BY DEF SlotInv, SlotTypes
<1>2. ASSUME NEW q \in TaskRuns, OnlyAbout(q)
      PROVE  q = r
  BY <1>1, <1>2 DEF OnlyAbout
<1>3. ASSUME NEW q \in TaskRuns, Propose(q)
      PROVE  r \in delayed'
  BY <1>2, <1>3, ProposeIsAboutOne, ProposeKeepsSlots DEF Propose
<1>4. ASSUME NEW q \in TaskRuns, StartTask(q) \/ EngineStep(q) \/ CrashTask(q)
      PROVE  FALSE
  <2>1. q = r /\ r \in Engine
    BY <1>2, <1>4, EngineIsAboutOne
  <2>2. CASE FinishTask(r)
    <3>1. client'[r] = "done"
      BY <1>1, <2>2 DEF FinishTask, ClientAt, SlotInv, SlotTypes
    <3> QED BY <2>1, <3>1 DEF Executing
  <2>3. CASE Acquired(r)
    BY <2>3 DEF Acquired
  <2> QED BY <1>1, <1>4, <2>1, <2>2, <2>3 DEF StartTask, EngineStep, Locked, CrashTask, tagVars
<1>5. ASSUME NEW q \in TaskRuns, DeleteTaskRun(q) \/ ClockPasses(q)
      PROVE  FALSE
  BY <1>1, <1>5 DEF DeleteTaskRun, ClockPasses, tagVars
<1>6. ASSUME NEW u \in Tags, SetLimit(u) \/ ResetLimit(u)
      PROVE  limit'[t] = None \/ ResetLimit(t)
  BY <1>6 DEF SetLimit, ResetLimit, SlotInv, SlotTypes
<1>7. ASSUME NEW f \in Flows, NEW type, SetFlow(f, type)
      PROVE  FALSE
  <2>1. ParentTask[f] # None /\ task[ParentTask[f]] # None
    BY <1>1, <1>7 DEF SetFlow
  <2>2. ParentTask[f] \in TaskRuns \ Engine
    BY <2>1, CleanupAssumption
  <2>3. ForceTaskRunState(ParentTask[f], Plain(type)) /\ client' = client
    BY <1>7, <2>1 DEF SetFlow
  <2> QED BY <1>1, <1>2, <2>2, <2>3, ForceIsAboutOne, ForceKeepsSlots
<1>8. ASSUME CancelChild
      PROVE  r \in Engine /\ task'[r].type = "CANCELLED"
  <2>1. PICK q \in children :
          IF task[q] = None
            THEN UNCHANGED <<task, slots, delayed>>
            ELSE ForceTaskRunState(q, Plain("CANCELLED"))
    BY <1>8 DEF CancelChild
  <2>2. client' = client /\ q \in TaskRuns
    BY <1>8 DEF CancelChild, ServiceTypes
  <2>3. ForceTaskRunState(q, Plain("CANCELLED"))
    BY <1>1, <2>1
  <2>4. q = r
    BY <1>2, <2>2, <2>3, ForceIsAboutOne
  <2> QED BY <1>1, <2>2, <2>3, <2>4, ForceKeepsSlots DEF Plain
<1>9. CASE Service
  <2>1. CASE UNCHANGED vars
    BY <1>1, <2>1 DEF vars
  <2>2. CASE CancelSubflow
    <3>1. PICK type \in {"CANCELLING", "CANCELLED"} : SetFlow(doomed, type)
      BY <2>2 DEF CancelSubflow
    <3>2. doomed \in Flows
      BY <2>2 DEF CancelSubflow, ServiceTypes
    <3> QED BY <1>7, <3>1, <3>2
  <2> QED BY <1>8, <1>9, <2>1, <2>2
          DEF Service, ReadCancelled, ReadChildren, ReadSubflows, ConsiderSubflow, EndRound
<1> QED BY <1>1, <1>3, <1>4, <1>5, <1>6, <1>7, <1>9
        DEF Next, TaskNext, ChangeFlow, cleanupVars

\* Nobody loses a slot while it executes, but for the user's interventions, a run that
\* asks for RUNNING twice, and an engine whose run the service has cancelled.
THEOREM SlotsKept == Spec => KeptWhileExecuting
<1>1. Init => SlotInv /\ ServiceTypes
  BY SlotInvInit DEF Init, ServiceTypes
<1>2. (SlotInv /\ ServiceTypes) /\ [Next]_cleanupVars => (SlotInv /\ ServiceTypes)'
  BY SlotInvNext, ServiceTypesNext
<1>3. (SlotInv /\ ServiceTypes) /\ [Next]_cleanupVars
        => [\A t \in Tags : \A r \in slots[t] \ slots'[t] :
              Executing(r) => \/ limit'[t] = None \/ ResetLimit(t) \/ r \in delayed'
                              \/ r \in Engine /\ task'[r].type = "CANCELLED"]_vars
  BY KeptStep
<1> QED BY <1>1, <1>2, <1>3, PTL DEF Spec, KeptWhileExecuting

=============================================================================
