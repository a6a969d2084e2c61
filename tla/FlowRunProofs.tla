------------------------------ MODULE FlowRunProofs ------------------------------
(***************************************************************************)
(* Proofs about flow runs.  First about FlowRunOrchestration, for any      *)
(* number of runs, any limit and any set of proposals; then about the      *)
(* server in the hands of its clients: FlowRunSessions, for any number of  *)
(* sessions with old rows, and FlowRunLifecycle, for any number of         *)
(* workers, runs and submissions.  The steps that FlowRunOrchestration     *)
(* takes too are those of the first part.                                  *)
(***************************************************************************)
EXTENDS FlowRunSessions, FlowRunLifecycle, FiniteSetTheorems, TLAPS

-----------------------------------------------------------------------------
(* Lemmas about the rules.                                                 *)

\* The verdicts a rule can return: the states rules write are these four.
RuleVerdicts ==
  {Pass, Abort, Wait, Reject(NoState), Reject(Plain("CANCELLED")),
   Reject(Plain("FAILED")), Reject(Scheduled("AwaitingRetry", "future")),
   Reject(Scheduled("AwaitingConcurrencySlot", "future"))}

\* A composition returns what one of its rules returns.
LEMMA ChainClosed ==
  ASSUME NEW a \in RuleVerdicts, NEW b \in RuleVerdicts
  PROVE  a ++ b \in RuleVerdicts
BY DEF ++

\* A composition passes exactly if both of its rules pass.
LEMMA ChainPass ==
  ASSUME NEW a, NEW b
  PROVE  (a ++ b = Pass) <=> (a = Pass /\ b = Pass)
BY DEF ++

\* The states written by a rule are well formed.
LEMMA WrittenStatesType ==
  /\ \A t \in StateTypes : Plain(t) \in State
  /\ \A n \in Names, t \in Times : Scheduled(n, t) \in State
BY DEF Plain, Scheduled, State, StateTypes, Times, Names

\* Every rule of a core policy returns one of the rule verdicts.
LEMMA RulesClosed ==
  ASSUME NEW r, NEW p, NEW l
  PROVE  /\ PreventDuplicateTransitions(r, p) \in RuleVerdicts
         /\ HandleFlowTerminalStateTransitions(r, p) \in RuleVerdicts
         /\ EnforceCancellingToCancelledTransition(r, p) \in RuleVerdicts
         /\ BypassCancellingFlowRunsWithNoInfra(r, p) \in RuleVerdicts
         /\ PreventPendingTransitions(r, p) \in RuleVerdicts
         /\ SecureFlowConcurrencySlots(r, p, l) \in RuleVerdicts
         /\ EnsureOnlyScheduledFlowsMarkedLate(r, p) \in RuleVerdicts
         /\ HandlePausingFlows(r, p) \in RuleVerdicts
         /\ HandleResumingPausedFlows(r, p) \in RuleVerdicts
         /\ WaitForScheduledTime(r, p) \in RuleVerdicts
         /\ RetryFailedFlows(r, p) \in RuleVerdicts
<1> DEFINE RV == RuleVerdicts
<1>0. /\ Pass \in RV /\ Abort \in RV /\ Wait \in RV /\ Reject(NoState) \in RV
      /\ Reject(Plain("CANCELLED")) \in RV /\ Reject(Plain("FAILED")) \in RV
      /\ Reject(Scheduled("AwaitingRetry", "future")) \in RV
      /\ Reject(Scheduled("AwaitingConcurrencySlot", "future")) \in RV
  BY DEF RuleVerdicts
<1>1. ASSUME NEW c, NEW v \in RV PROVE If(c, v) \in RV
  BY <1>0 DEF If
<1>2. ASSUME NEW a \in RV, NEW b \in RV PROVE a ++ b \in RV
  BY ChainClosed
<1> HIDE DEF RV
<1>3. PreventDuplicateTransitions(r, p) \in RV
  BY <1>0, <1>1 DEF PreventDuplicateTransitions
<1>4. HandleFlowTerminalStateTransitions(r, p) \in RV
  BY <1>0, <1>1, <1>2 DEF HandleFlowTerminalStateTransitions
<1>5. EnforceCancellingToCancelledTransition(r, p) \in RV
  BY <1>0, <1>1 DEF EnforceCancellingToCancelledTransition
<1>6. BypassCancellingFlowRunsWithNoInfra(r, p) \in RV
  BY <1>0, <1>1 DEF BypassCancellingFlowRunsWithNoInfra
<1>7. PreventPendingTransitions(r, p) \in RV
  BY <1>0, <1>1 DEF PreventPendingTransitions
<1>8. SecureFlowConcurrencySlots(r, p, l) \in RV
  <2>1. Reject(IF Strategy = "ENQUEUE"
                 THEN Scheduled("AwaitingConcurrencySlot", "future")
                 ELSE Plain("CANCELLED")) \in RV
    BY <1>0
  <2>2. QED
    BY <1>0, <1>1, <1>2, <2>1 DEF SecureFlowConcurrencySlots
<1>9. EnsureOnlyScheduledFlowsMarkedLate(r, p) \in RV
  BY <1>0, <1>1 DEF EnsureOnlyScheduledFlowsMarkedLate
<1>10. HandlePausingFlows(r, p) \in RV
  BY <1>0, <1>1, <1>2 DEF HandlePausingFlows
<1>11. HandleResumingPausedFlows(r, p) \in RV
  BY <1>0, <1>1, <1>2 DEF HandleResumingPausedFlows
<1>12. WaitForScheduledTime(r, p) \in RV
  BY <1>0, <1>1 DEF WaitForScheduledTime
<1>13. RetryFailedFlows(r, p) \in RV
  BY <1>0, <1>1 DEF RetryFailedFlows
<1> QED
  BY <1>3, <1>4, <1>5, <1>6, <1>7, <1>8, <1>9, <1>10, <1>11, <1>12, <1>13 DEF RV

\* So do the policies.
LEMMA PoliciesClosed ==
  ASSUME NEW policy, NEW r, NEW p, NEW l
  PROVE  /\ CoreUpToSecuring(r, p) \in RuleVerdicts
         /\ CoreUpToPausing(policy, r, p, l) \in RuleVerdicts
         /\ CoreFlowPolicy(policy, r, p, l) \in RuleVerdicts
<1> DEFINE RV == RuleVerdicts
<1>1. \A a, b \in RV : a ++ b \in RV
  BY ChainClosed
<1>2. If(policy = "core", SecureFlowConcurrencySlots(r, p, l)) \in RV
  BY RulesClosed DEF If, RuleVerdicts
<1> HIDE DEF RV
<1>3. CoreUpToSecuring(r, p) \in RV
  BY <1>1, RulesClosed DEF CoreUpToSecuring, RV
<1>4. CoreUpToPausing(policy, r, p, l) \in RV
  BY <1>1, <1>2, <1>3, RulesClosed DEF CoreUpToPausing, RV
<1>5. CoreFlowPolicy(policy, r, p, l) \in RV
  BY <1>1, <1>4, RulesClosed DEF CoreFlowPolicy, RV
<1> QED
  BY <1>3, <1>4, <1>5 DEF RV

\* A state that a rule edits in place keeps its type.
LEMMA CopyKeepsType ==
  ASSUME NEW r \in FlowRun, NEW p \in State
  PROVE  /\ CopyScheduledTime(r, p) \in State
         /\ CopyScheduledTime(r, p).type = p.type
         /\ CopyScheduledTime(r, p).name = p.name
BY RulesAssumption DEF CopyScheduledTime, TypeOf, FlowRun, State, StateTypes

\* Either a transition is accepted, with the type that was proposed, or a rule
\* decided it.
LEMMA VerdictCases ==
  ASSUME NEW policy \in Policies, NEW r \in FlowRun, NEW p \in State,
         NEW l \in ConcurrencyLimit
  PROVE  LET v == Verdict(policy, r, p, l)
         IN  \/ /\ v.status = "ACCEPT"
                /\ v.state \in State /\ v.state.type = p.type
             \/ v \in RuleVerdicts \ {Pass}
<1> DEFINE c == CASE policy = "minimal" -> BypassCancellingFlowRunsWithNoInfra(r, p)
                  [] policy = "late"    -> EnsureOnlyScheduledFlowsMarkedLate(r, p)
                  [] OTHER              -> CoreFlowPolicy(policy, r, p, l)
           accepted == IF policy \in {"core", "legacy"}
                         THEN CopyScheduledTime(r, p) ELSE p
<1>1. c \in RuleVerdicts
  BY RulesClosed, PoliciesClosed
<1>2. accepted \in State /\ accepted.type = p.type
  BY CopyKeepsType
<1>3. Verdict(policy, r, p, l) = IF c = Pass THEN [c EXCEPT !.state = accepted] ELSE c
  BY DEF Verdict
<1> HIDE DEF c, accepted
<1>4. CASE c = Pass
  BY <1>2, <1>3, <1>4 DEF Pass
<1>5. CASE c # Pass
  BY <1>1, <1>3, <1>5
<1> QED
  BY <1>4, <1>5

\* What a verdict carries is a state or none, and a rule writes no state of a
\* type that takes a slot.
LEMMA VerdictState ==
  ASSUME NEW policy \in Policies, NEW r \in FlowRun, NEW p \in State,
         NEW l \in ConcurrencyLimit
  PROVE  /\ Verdict(policy, r, p, l).state \in State \cup {NoState}
         /\ Verdict(policy, r, p, l).status = "ACCEPT"
              => /\ Verdict(policy, r, p, l).state \in State
                 /\ Verdict(policy, r, p, l).state.type = p.type
<1>1. \A w \in RuleVerdicts \ {Pass} :
        w.state \in State \cup {NoState} /\ w.status # "ACCEPT"
  BY WrittenStatesType
     DEF RuleVerdicts, Pass, Abort, Wait, Reject, StateTypes, Names, Times
<1> QED
  BY <1>1, VerdictCases

\* The run a transition leaves is well formed, belongs to the same deployment,
\* and is in the state of the verdict, if it has one.
LEMMA RunAfterType ==
  ASSUME NEW policy \in Policies, NEW r \in FlowRun, NEW p \in State,
         NEW l \in ConcurrencyLimit, NEW v, v.state \in State \cup {NoState}
  PROVE  /\ RunAfter(policy, r, p, l, v) \in FlowRun
         /\ RunAfter(policy, r, p, l, v).deployment = r.deployment
         /\ RunAfter(policy, r, p, l, v).state =
              IF v.state = NoState THEN r.state ELSE v.state
<1> DEFINE Like(s) == /\ s \in FlowRun /\ s.deployment = r.deployment
                      /\ s.state = r.state
           b == PolicyBefore(policy, r, p, v)
           g == GlobalTransforms(b, v.state)
           a == PolicyAfter(policy, r, p, l, v, g)
<1>1. Like(r)
  OBVIOUS
<1>2. Like(ResetPause(r, None)) /\ Like(ResetPause(r, "reschedule"))
      /\ Like(ResetPause(r, "in_process"))
  BY DEF ResetPause, FlowRun
<1>3. Like(b)
  <2> HIDE DEF Like
  <2> QED BY <1>1, <1>2 DEF PolicyBefore
<1>4. Like(g)
  <2> HIDE DEF b
  <2>1. CASE v.state = NoState
    BY <1>3, <2>1 DEF GlobalTransforms
  <2>2. CASE v.state # NoState
    <3> DEFINE n == IF v.state.type = "RUNNING" /\ ~b.resuming
                      THEN b.run_count + 1 ELSE b.run_count
               f == b.resuming /\ ~(v.state.type = "RUNNING" \/ IsFinal(v.state))
    <3>1. n \in Nat
      BY <1>3 DEF FlowRun
    <3>2. f \in BOOLEAN
      OBVIOUS
    <3>3. g = [b EXCEPT !.run_count = n, !.resuming = f]
      BY <2>2 DEF GlobalTransforms
    <3> HIDE DEF n, f, g
    <3> QED BY <1>3, <3>1, <3>2, <3>3 DEF FlowRun
  <2> QED BY <2>1, <2>2
<1>5. Like(a)
  <2> HIDE DEF b, g
  <2>1. Like([g EXCEPT !.resuming = TRUE]) /\ Like([g EXCEPT !.resuming = r.resuming])
    BY <1>4 DEF FlowRun
  <2>2. p.pause_key # None => Like([g EXCEPT !.pause_keys = @ \cup {p.pause_key}])
    <3>1. p.pause_key # None => p.pause_key \in Keys
      BY DEF State
    <3> QED BY <1>4, <3>1 DEF FlowRun
  <2> HIDE DEF Like
  <2> QED BY <1>4, <2>1, <2>2 DEF PolicyAfter
<1>6. RunAfter(policy, r, p, l, v) =
        IF v.state = NoState THEN a ELSE [a EXCEPT !.state = v.state]
  BY DEF RunAfter
<1> HIDE DEF a
<1> QED
  BY <1>5, <1>6 DEF FlowRun

\* Giving a slot back never takes one, and leaves the other fields alone.
LEMMA DecrementType ==
  ASSUME NEW l \in ConcurrencyLimit
  PROVE  /\ Decrement(l) \in ConcurrencyLimit
         /\ Decrement(l).active = l.active /\ Decrement(l).limit = l.limit
         /\ Decrement(l).active_slots <= l.active_slots
         /\ l.limit # None /\ l.active /\ l.active_slots > 0
              => Decrement(l).active_slots = l.active_slots - 1
BY DEF Decrement, ConcurrencyLimit

\* What a transition does to the limit's row: it takes a slot only for a run
\* that was in no slot state and is about to be PENDING, and gives one back
\* whenever a run leaves the slot states under a policy that releases.
LEMMA LimitAfterCases ==
  ASSUME NEW policy \in Policies, NEW r \in FlowRun, NEW p \in State,
         NEW l \in ConcurrencyLimit, NEW final \in State \cup {NoState}
  PROVE  LET m == LimitAfter(policy, r, p, l, final)
         IN  /\ m \in ConcurrencyLimit /\ m.active = l.active /\ m.limit = l.limit
             /\ \/ /\ m = [l EXCEPT !.active_slots = @ + 1]
                   /\ policy = "core" /\ HasFreeSlot(l) /\ l.limit # None
                   /\ r.deployment /\ TypeOf(r) \notin SlotStates
                   /\ final # NoState /\ final.type = "PENDING"
                \/ /\ m.active_slots <= l.active_slots
                   /\ SlotReleased(policy, r, final) => m = Decrement(l)
                   /\ ~SlotReleased(policy, r, final) => m.active_slots = l.active_slots
<1> DEFINE taken == [l EXCEPT !.active_slots = @ + 1]
<1>1. taken \in ConcurrencyLimit /\ taken.active = l.active
      /\ taken.limit = l.limit /\ taken.active_slots = l.active_slots + 1
  BY DEF ConcurrencyLimit
<1>2. CASE SlotSecured(policy, r, p, l)
  <2>1. /\ policy = "core" /\ HasFreeSlot(l) /\ l.limit # None /\ l.active
        /\ r.deployment /\ TypeOf(r) \notin SlotStates
    BY <1>2 DEF SlotSecured, WantsSlot, HasFreeSlot
  <2>2. ~SlotReleased(policy, r, final)
    BY <2>1 DEF SlotReleased
  <2>3. CASE final # NoState /\ final.type = "PENDING"
    BY <1>1, <1>2, <2>1, <2>2, <2>3 DEF LimitAfter
  <2>4. CASE final = NoState \/ final.type # "PENDING"
    <3>1. LimitAfter(policy, r, p, l, final) = Decrement(taken)
      BY <1>2, <2>4 DEF LimitAfter
    <3>2. taken.active_slots > 0 /\ l.active_slots \in Nat
      BY <1>1 DEF ConcurrencyLimit
    <3>3. Decrement(taken).active_slots = taken.active_slots - 1
      BY <1>1, <2>1, <3>2, DecrementType
    <3> HIDE DEF taken
    <3> QED BY <1>1, <2>2, <3>1, <3>2, <3>3, DecrementType
  <2> QED BY <2>3, <2>4
<1>3. CASE ~SlotSecured(policy, r, p, l)
  <2>1. LimitAfter(policy, r, p, l, final) =
          IF SlotReleased(policy, r, final) THEN Decrement(l) ELSE l
    BY <1>3 DEF LimitAfter
  <2>2. l.active_slots <= l.active_slots
    BY DEF ConcurrencyLimit
  <2> QED BY <2>1, <2>2, DecrementType
<1> QED
  BY <1>2, <1>3

-----------------------------------------------------------------------------
(* Type correctness.                                                       *)

\* A stored row is a flow run, and has a state or none.
LEMMA RowType ==
  ASSUME TypeOK, NEW id \in Rows
  PROVE  id \in Runs /\ runs[id] \in FlowRun
BY DEF TypeOK, Rows

\* A run that is about to be created is well formed and has no state.
LEMMA NewRunType ==
  ASSUME NEW id \in Runs
  PROVE  NewRun(id) \in FlowRun /\ NewRun(id).state = NoState
BY DEF NewRun, FlowRun

\* Every request for a state change, whoever sends it, is of this form.
LEMMA RequestCases ==
  ASSUME TypeOK, NEW id \in Runs,
         \/ ClientRequest(id) \/ ResumeFlowRun(id)
         \/ MarkFlowRunAsLate(id) \/ FailExpiredPause(id)
  PROVE  \E p \in State, policy \in Policies :
           /\ SetFlowRunState(id, p, policy)
           /\ policy \in ClientPolicies \cup {"late", "minimal"}
           /\ policy = "late" => p = Scheduled("Late", "past")
           /\ policy = "minimal" => ForceAllowed \/ p = Plain("FAILED")
<1>1. ClientPolicies \subseteq Policies /\ "late" \in Policies
      /\ "minimal" \in Policies /\ Proposals \subseteq State
  BY OrchestrationAssumption DEF Policies
<1>2. /\ Scheduled("Resuming", "past") \in State /\ Plain("RUNNING") \in State
      /\ Scheduled("Late", "past") \in State /\ Plain("FAILED") \in State
  BY WrittenStatesType DEF Names, Times, StateTypes
<1>3. "core" # "late" /\ "core" # "minimal" /\ "legacy" # "late"
      /\ "legacy" # "minimal" /\ "late" # "minimal"
  OBVIOUS
<1>4. CASE ClientRequest(id)
  <2>1. PICK p \in Proposals, policy \in ClientPolicies
                        \cup (IF ForceAllowed THEN {"minimal"} ELSE {}) :
          SetFlowRunState(id, p, policy)
    BY <1>4 DEF ClientRequest
  <2>2. policy \in ClientPolicies \/ (policy = "minimal" /\ ForceAllowed)
    OBVIOUS
  <2> QED BY <1>1, <1>3, <2>1, <2>2, OrchestrationAssumption
<1>5. CASE ResumeFlowRun(id)
  <2>1. PICK policy \in ClientPolicies : SetFlowRunState(id,
           IF runs[id].state.pause_reschedule THEN Scheduled("Resuming", "past")
                                              ELSE Plain("RUNNING"), policy)
    BY <1>5 DEF ResumeFlowRun
  <2> QED BY <1>1, <1>2, <1>3, <2>1, OrchestrationAssumption
<1>6. CASE MarkFlowRunAsLate(id)
  BY <1>1, <1>2, <1>3, <1>6 DEF MarkFlowRunAsLate
<1>7. CASE FailExpiredPause(id)
  BY <1>1, <1>2, <1>3, <1>7 DEF FailExpiredPause
<1> QED
  BY <1>4, <1>5, <1>6, <1>7

\* A transition keeps the types of the rows it writes.
LEMMA SetStateType ==
  ASSUME TypeOK, NEW id \in Runs, NEW p \in State, NEW policy \in Policies,
         SetFlowRunState(id, p, policy)
  PROVE  TypeOK'
<1> DEFINE r == runs[id]
           v == Verdict(policy, r, p, limit)
           s == RunAfter(policy, r, p, limit, v)
<1>1. id \in Rows /\ r \in FlowRun
  BY RowType DEF SetFlowRunState
<1>2. v.state \in State \cup {NoState}
  BY <1>1, VerdictState DEF TypeOK
<1>3. s \in FlowRun
  <2> HIDE DEF v
  <2> QED BY <1>1, <1>2, RunAfterType DEF TypeOK
<1>4. /\ LimitAfter(policy, r, p, limit, v.state) \in ConcurrencyLimit
      /\ LimitAfter(policy, r, p, limit, v.state).active
  <2> HIDE DEF v
  <2> QED BY <1>1, <1>2, LimitAfterCases DEF TypeOK
<1>5. /\ runs' = [runs EXCEPT ![id] = s]
      /\ limit' = LimitAfter(policy, r, p, limit, v.state)
      /\ retried' = [retried EXCEPT ![id] = @ + 1] \/ retried' = retried
  BY DEF SetFlowRunState
<1> HIDE DEF s, v
<1>6. retried' \in [Runs -> Nat]
  BY <1>5 DEF TypeOK
<1> QED
  BY <1>3, <1>4, <1>5, <1>6 DEF TypeOK

\* Every step keeps the types.
LEMMA TypeStep == TypeOK /\ [Next]_vars => TypeOK'
<1> SUFFICES ASSUME TypeOK, [Next]_vars PROVE TypeOK'
  OBVIOUS
<1>1. CASE UNCHANGED vars
  BY <1>1 DEF vars, TypeOK
<1>2. ASSUME NEW id \in Runs, CreateFlowRun(id) PROVE TypeOK'
  <2>1. PICK p \in InitialStates :
          runs' = [runs EXCEPT ![id] =
                     RunAfter("minimal", NewRun(id), p, limit,
                              Verdict("minimal", NewRun(id), p, limit))]
    BY <1>2 DEF CreateFlowRun
  <2>2. p \in State /\ "minimal" \in Policies /\ NewRun(id) \in FlowRun
    BY OrchestrationAssumption, NewRunType DEF Policies
  <2>3. RunAfter("minimal", NewRun(id), p, limit,
                 Verdict("minimal", NewRun(id), p, limit)) \in FlowRun
    BY <2>2, VerdictState, RunAfterType DEF TypeOK
  <2> QED BY <1>2, <2>1, <2>3 DEF CreateFlowRun, TypeOK
<1>3. ASSUME NEW id \in Runs,
             \/ ClientRequest(id) \/ ResumeFlowRun(id)
             \/ MarkFlowRunAsLate(id) \/ FailExpiredPause(id)
      PROVE  TypeOK'
  BY <1>3, RequestCases, SetStateType
<1>4. ASSUME NEW id \in Runs, UpdateInfrastructurePid(id) PROVE TypeOK'
  <2>1. [runs[id] EXCEPT !.infrastructure_pid = TRUE] \in FlowRun
    BY <1>4, RowType DEF UpdateInfrastructurePid, FlowRun
  <2> QED BY <1>4, <2>1 DEF UpdateInfrastructurePid, TypeOK
<1>5. ASSUME NEW id \in Runs, DeleteFlowRun(id) PROVE TypeOK'
  BY <1>5, DecrementType DEF DeleteFlowRun, TypeOK
<1>6. ASSUME NEW id \in Runs, ClockPasses(id) PROVE TypeOK'
  <2> DEFINE s == Elapsed(runs[id].state)
  <2>1. runs[id] \in FlowRun /\ runs[id].state \in State
    BY <1>6, RowType DEF ClockPasses, FlowRun
  <2>2. s \in State
    BY <2>1 DEF State, Times, Elapsed
  <2>3. runs' = [runs EXCEPT ![id].state = s]
    BY <1>6 DEF ClockPasses
  <2> HIDE DEF s
  <2>4. [runs[id] EXCEPT !.state = s] \in FlowRun
    BY <2>1, <2>2 DEF FlowRun
  <2> QED BY <1>6, <2>3, <2>4 DEF ClockPasses, TypeOK
<1>7. ASSUME NEW n \in Limits, UpdateDeploymentLimit(n) PROVE TypeOK'
  BY <1>7, OrchestrationAssumption
     DEF UpdateDeploymentLimit, NoLimit, TypeOK, ConcurrencyLimit
<1> QED
  BY <1>1, <1>2, <1>3, <1>4, <1>5, <1>6, <1>7 DEF Next

\* The initial states have them.
LEMMA TypeInit == Init => TypeOK
<1> SUFFICES ASSUME Init PROVE TypeOK
  OBVIOUS
<1>1. PICK n \in Limits : limit = [NoLimit EXCEPT !.limit = n]
  BY DEF Init
<1>2. limit \in ConcurrencyLimit /\ limit.active
  BY <1>1, OrchestrationAssumption DEF NoLimit, ConcurrencyLimit
<1> QED BY <1>2 DEF Init, TypeOK

\* The rows and the limit stay well formed whatever the clients propose: a
\* rule never writes a state that the schema would not admit.
THEOREM TypeCorrect == Spec => []TypeOK
BY TypeInit, TypeStep, PTL DEF Spec

-----------------------------------------------------------------------------
(* No slot is leaked.                                                      *)

\* No more than k slots are leaked.
AtMostLeaked(k) ==
  /\ limit.active_slots <= Cardinality(Holders) + k
  /\ limit.limit = None => limit.active_slots = 0

Holds(r) == r # None /\ r.deployment /\ TypeOf(r) \in SlotStates

\* There are finitely many holders.
LEMMA HoldersFinite == IsFiniteSet(Holders) /\ Cardinality(Holders) \in Nat
<1>1. Holders \subseteq Runs
  BY DEF Holders, Rows
<1> QED BY <1>1, FS_CardinalityType, FS_Subset, OrchestrationAssumption

\* Writing one row adds its run to the holders or takes it away.
LEMMA HoldersStep ==
  ASSUME TypeOK, NEW id \in Runs, NEW s \in FlowRun \cup {None},
         runs' = [runs EXCEPT ![id] = s]
  PROVE  /\ IsFiniteSet(Holders)
         /\ id \in Holders <=> Holds(runs[id])
         /\ Holders' = IF Holds(s) THEN Holders \cup {id} ELSE Holders \ {id}
         /\ Cardinality(Holders) \in Nat
         /\ Cardinality(Holders') =
              IF Holds(s) /\ ~Holds(runs[id]) THEN Cardinality(Holders) + 1
              ELSE IF ~Holds(s) /\ Holds(runs[id]) THEN Cardinality(Holders) - 1
              ELSE Cardinality(Holders)
<1>1. Holders = {i \in Runs : Holds(runs[i])}
  BY DEF Holders, Rows, Holds
<1>2. IsFiniteSet(Holders)
  BY <1>1, FS_Subset, OrchestrationAssumption
<1>3. id \in Holders <=> Holds(runs[id])
  BY <1>1
<1>4. Holders' = {i \in Runs : Holds(runs'[i])}
  BY DEF Holders, Rows, Holds
<1>5. runs'[id] = s /\ \A i \in Runs \ {id} : runs'[i] = runs[i]
  BY DEF TypeOK
<1>6. Holders' = IF Holds(s) THEN Holders \cup {id} ELSE Holders \ {id}
  <2> HIDE DEF Holds
  <2>1. CASE Holds(s)
    BY <1>1, <1>4, <1>5, <2>1
  <2>2. CASE ~Holds(s)
    BY <1>1, <1>4, <1>5, <2>2
  <2> QED BY <2>1, <2>2
<1>7. Cardinality(Holders) \in Nat
  BY <1>2, FS_CardinalityType
<1>8. /\ Cardinality(Holders \cup {id}) =
           IF id \in Holders THEN Cardinality(Holders) ELSE Cardinality(Holders) + 1
      /\ Cardinality(Holders \ {id}) =
           IF id \in Holders THEN Cardinality(Holders) - 1 ELSE Cardinality(Holders)
  BY <1>2, FS_AddElement, FS_RemoveElement
<1> HIDE DEF Holds
<1> QED
  BY <1>2, <1>3, <1>6, <1>7, <1>8

\* The late-runs policy leaves a run alone that is in any state but SCHEDULED.
LEMMA LateKeepsOthers ==
  ASSUME NEW r \in FlowRun, NEW l, TypeOf(r) \in StateTypes \ {"SCHEDULED"}
  PROVE  Verdict("late", r, Scheduled("Late", "past"), l).state = NoState
<1>1. r.state # NoState /\ TypeOf(r) # "SCHEDULED"
  BY RulesAssumption DEF TypeOf
<1>2. EnsureOnlyScheduledFlowsMarkedLate(r, Scheduled("Late", "past")) = Reject(NoState)
  <2>1. /\ Scheduled("Late", "past").type = "SCHEDULED"
        /\ Scheduled("Late", "past").name = "Late"
    BY DEF Scheduled, Plain
  <2> QED BY <1>1, <2>1 DEF EnsureOnlyScheduledFlowsMarkedLate, If
<1>3. Verdict("late", r, Scheduled("Late", "past"), l) = Reject(NoState)
  BY <1>2 DEF Verdict, Reject, Pass
<1> QED
  BY <1>3 DEF Reject

\* A transition under a policy that releases leaks no further slot.
LEMMA SetStateSlots ==
  ASSUME TypeOK, NEW k \in Nat, AtMostLeaked(k),
         NEW id \in Runs, NEW p \in State, NEW policy \in {"core", "minimal", "late"},
         policy = "late" => p = Scheduled("Late", "past"),
         SetFlowRunState(id, p, policy)
  PROVE  AtMostLeaked(k)'
<1> DEFINE r == runs[id]
           v == Verdict(policy, r, p, limit)
           s == RunAfter(policy, r, p, limit, v)
           m == LimitAfter(policy, r, p, limit, v.state)
           N == Cardinality(Holders)
           M == Cardinality(Holders')
<1>1. /\ id \in Rows /\ r \in FlowRun /\ policy \in Policies
      /\ r # None /\ limit \in ConcurrencyLimit /\ limit.active
  BY RowType DEF SetFlowRunState, Policies, Rows, TypeOK
<1>2. v.state \in State \cup {NoState}
  BY <1>1, VerdictState
<1>3. /\ s \in FlowRun /\ s.deployment = r.deployment
      /\ s.state = IF v.state = NoState THEN r.state ELSE v.state
  <2> HIDE DEF v, r
  <2> QED BY <1>1, <1>2, RunAfterType
<1>4. /\ m \in ConcurrencyLimit /\ m.limit = limit.limit
      /\ \/ /\ m = [limit EXCEPT !.active_slots = @ + 1]
            /\ limit.limit # None
            /\ r.deployment /\ TypeOf(r) \notin SlotStates
            /\ v.state # NoState /\ v.state.type = "PENDING"
         \/ /\ m.active_slots <= limit.active_slots
            /\ SlotReleased(policy, r, v.state) => m = Decrement(limit)
  <2> DEFINE l == limit
             final == v.state
  <2>1. l \in ConcurrencyLimit /\ final \in State \cup {NoState}
    BY <1>1, <1>2
  <2>2. m = LimitAfter(policy, r, p, l, final)
    OBVIOUS
  <2> HIDE DEF v, r, m, l, final
  <2>3. /\ m \in ConcurrencyLimit /\ m.active = l.active /\ m.limit = l.limit
        /\ \/ /\ m = [l EXCEPT !.active_slots = @ + 1]
              /\ policy = "core" /\ HasFreeSlot(l) /\ l.limit # None
              /\ r.deployment /\ TypeOf(r) \notin SlotStates
              /\ final # NoState /\ final.type = "PENDING"
           \/ /\ m.active_slots <= l.active_slots
              /\ SlotReleased(policy, r, final) => m = Decrement(l)
    <3>1. policy \in Policies /\ r \in FlowRun
      BY <1>1
    <3> HIDE <1>1
    <3> QED BY <2>1, <2>2, <3>1, LimitAfterCases
  <2> QED BY <2>3 DEF l, final
<1>5. runs' = [runs EXCEPT ![id] = s] /\ limit' = m
  BY DEF SetFlowRunState
<1>6. s # None
  BY <1>3, RulesAssumption
<1>7. policy = "late" /\ TypeOf(r) \in SlotStates => v.state = NoState
  BY <1>1, LateKeepsOthers DEF SlotStates, StateTypes
<1>8. TypeOf(s) = IF v.state = NoState THEN TypeOf(r) ELSE v.state.type
  <2> HIDE DEF v, s, r
  <2> QED BY <1>2, <1>3, RulesAssumption DEF TypeOf
<1> HIDE DEF v, s, m, r
<1>9. /\ N \in Nat
      /\ M = IF Holds(s) /\ ~Holds(r) THEN N + 1
             ELSE IF ~Holds(s) /\ Holds(r) THEN N - 1 ELSE N
  BY <1>3, <1>5, HoldersStep DEF r
<1>10. limit.active_slots \in Nat /\ m.active_slots \in Nat
  BY <1>1, <1>4 DEF ConcurrencyLimit
<1>11. limit.active_slots <= N + k /\ (limit.limit = None => limit.active_slots = 0)
  BY DEF AtMostLeaked
<1>12. CASE /\ m = [limit EXCEPT !.active_slots = @ + 1]
            /\ limit.limit # None
            /\ r.deployment /\ TypeOf(r) \notin SlotStates
            /\ v.state # NoState /\ v.state.type = "PENDING"
  <2>1. Holds(s) /\ ~Holds(r)
    BY <1>3, <1>6, <1>8, <1>12 DEF Holds, SlotStates
  <2>2. m.active_slots = limit.active_slots + 1
    BY <1>1, <1>12 DEF ConcurrencyLimit
  <2>3. m.active_slots <= M + k
    BY <1>9, <1>10, <1>11, <2>1, <2>2
  <2> QED BY <1>4, <1>5, <1>12, <2>3 DEF AtMostLeaked
<1>13. CASE /\ m.active_slots <= limit.active_slots
            /\ SlotReleased(policy, r, v.state) => m = Decrement(limit)
  <2>1. CASE Holds(s) \/ ~Holds(r)
    <3>1. M >= N
      BY <1>9, <2>1
    <3>2. m.active_slots <= M + k
      BY <1>9, <1>10, <1>11, <1>13, <3>1
    <3>3. m.limit = None => m.active_slots = 0
      BY <1>4, <1>10, <1>11, <1>13
    <3> QED BY <1>5, <3>2, <3>3 DEF AtMostLeaked
  <2>2. CASE ~Holds(s) /\ Holds(r)
    <3>1. v.state # NoState /\ policy # "late" /\ v.state.type \notin SlotStates
      BY <1>3, <1>6, <1>7, <1>8, <2>2 DEF Holds
    <3>2. SlotReleased(policy, r, v.state)
      BY <2>2, <3>1 DEF SlotReleased, Holds
    <3>3. m = Decrement(limit)
      BY <1>13, <3>2
    <3>4. M = N - 1
      BY <1>9, <2>2
    <3>5. m.active_slots <= M + k
      <4>1. CASE limit.active_slots = 0
        <5>1. id \in Holders /\ N >= 1
          <6>1. id \in Holders /\ IsFiniteSet(Holders)
            BY <1>3, <1>5, <2>2, HoldersStep DEF r
          <6>2. N # 0
            BY <6>1, FS_EmptySet
          <6> QED BY <1>9, <6>1, <6>2
        <5>2. m.active_slots = 0
          BY <1>10, <1>13, <4>1
        <5> QED BY <1>9, <3>4, <5>1, <5>2
      <4>2. CASE limit.active_slots # 0
        <5>1. m.active_slots = limit.active_slots - 1
          BY <1>1, <1>10, <1>11, <3>3, <4>2, DecrementType
        <5> QED BY <1>9, <1>10, <1>11, <3>4, <5>1
      <4> QED BY <4>1, <4>2
    <3>6. m.limit = None => m.active_slots = 0
      BY <1>4, <1>10, <1>11, <1>13
    <3> QED BY <1>5, <3>5, <3>6 DEF AtMostLeaked
  <2> QED BY <2>1, <2>2
<1> QED
  BY <1>4, <1>12, <1>13

\* Nor does any other step.
LEMMA SlotStep ==
  ASSUME "legacy" \notin ClientPolicies
  PROVE  \A k \in Nat :
           TypeOK /\ AtMostLeaked(k) /\ [Next]_vars => AtMostLeaked(k)'
<1> SUFFICES ASSUME NEW k \in Nat, TypeOK, AtMostLeaked(k), [Next]_vars
             PROVE  AtMostLeaked(k)'
  OBVIOUS
<1>0. /\ limit \in ConcurrencyLimit /\ limit.active_slots \in Nat
      /\ limit.active_slots <= Cardinality(Holders) + k
      /\ limit.limit = None => limit.active_slots = 0
  BY DEF TypeOK, ConcurrencyLimit, AtMostLeaked
<1>1. CASE UNCHANGED vars
  BY <1>1 DEF vars, AtMostLeaked, Holders, Rows
<1>2. ASSUME NEW id \in Runs, CreateFlowRun(id) PROVE AtMostLeaked(k)'
  <2>1. PICK p \in InitialStates :
          runs' = [runs EXCEPT ![id] =
                     RunAfter("minimal", NewRun(id), p, limit,
                              Verdict("minimal", NewRun(id), p, limit))]
    BY <1>2 DEF CreateFlowRun
  <2> DEFINE s == RunAfter("minimal", NewRun(id), p, limit,
                           Verdict("minimal", NewRun(id), p, limit))
  <2>2. s \in FlowRun
    <3>1. p \in State /\ "minimal" \in Policies /\ NewRun(id) \in FlowRun
      BY OrchestrationAssumption, NewRunType DEF Policies
    <3> QED BY <3>1, VerdictState, RunAfterType DEF TypeOK
  <2>3. runs' = [runs EXCEPT ![id] = s] /\ limit' = limit /\ ~Holds(runs[id])
    BY <1>2, <2>1 DEF CreateFlowRun, Rows, Holds
  <2> HIDE DEF s
  <2>4. /\ Cardinality(Holders') >= Cardinality(Holders)
        /\ Cardinality(Holders) \in Nat /\ Cardinality(Holders') \in Nat
    <3>1. /\ Cardinality(Holders) \in Nat
          /\ Cardinality(Holders') =
               IF Holds(s) THEN Cardinality(Holders) + 1 ELSE Cardinality(Holders)
      <4> HIDE DEF Holds
      <4> QED BY <2>2, <2>3, HoldersStep
    <3> QED BY <3>1
  <2> QED BY <1>0, <2>3, <2>4 DEF AtMostLeaked
<1>3. ASSUME NEW id \in Runs,
             \/ ClientRequest(id) \/ ResumeFlowRun(id)
             \/ MarkFlowRunAsLate(id) \/ FailExpiredPause(id)
      PROVE  AtMostLeaked(k)'
  <2>1. PICK p \in State, policy \in Policies :
          /\ SetFlowRunState(id, p, policy)
          /\ policy \in ClientPolicies \cup {"late", "minimal"}
          /\ policy = "late" => p = Scheduled("Late", "past")
    BY <1>3, RequestCases
  <2>2. policy \in {"core", "minimal", "late"}
    BY <2>1, OrchestrationAssumption
  <2> QED BY <2>1, <2>2, SetStateSlots
<1>4. ASSUME NEW id \in Runs, NEW s \in FlowRun, id \in Rows,
             runs' = [runs EXCEPT ![id] = s], limit' = limit,
             s.deployment = runs[id].deployment, TypeOf(s) = TypeOf(runs[id])
      PROVE  AtMostLeaked(k)'
  <2>1. Holds(s) <=> Holds(runs[id])
    BY <1>4, RulesAssumption DEF Holds, Rows
  <2>2. Cardinality(Holders') = Cardinality(Holders)
    BY <1>4, <2>1, HoldersStep
  <2> QED BY <1>0, <1>4, <2>2 DEF AtMostLeaked
<1>5. ASSUME NEW id \in Runs, UpdateInfrastructurePid(id) PROVE AtMostLeaked(k)'
  <2> DEFINE s == [runs[id] EXCEPT !.infrastructure_pid = TRUE]
  <2>1. runs[id] \in FlowRun /\ id \in Rows
    BY <1>5, RowType DEF UpdateInfrastructurePid
  <2>2. s \in FlowRun /\ s.deployment = runs[id].deployment
        /\ TypeOf(s) = TypeOf(runs[id])
    BY <2>1 DEF FlowRun, TypeOf
  <2>3. runs' = [runs EXCEPT ![id] = s] /\ limit' = limit
    BY <1>5 DEF UpdateInfrastructurePid
  <2> HIDE DEF s
  <2> QED BY <1>4, <2>1, <2>2, <2>3
<1>6. ASSUME NEW id \in Runs, ClockPasses(id) PROVE AtMostLeaked(k)'
  <2> DEFINE e == Elapsed(runs[id].state)
             s == [runs[id] EXCEPT !.state = e]
  <2>1. runs[id] \in FlowRun /\ id \in Rows /\ runs[id].state \in State
        /\ runs[id].state # NoState
    BY <1>6, RowType DEF ClockPasses, FlowRun
  <2>2. e \in State /\ e.type = runs[id].state.type
    BY <2>1 DEF Elapsed, State, Times
  <2>3. e # NoState
    BY <2>2, RulesAssumption
  <2>4. runs' = [runs EXCEPT ![id] = s] /\ limit' = limit
    BY <1>6 DEF ClockPasses
  <2> HIDE DEF e
  <2>5. s \in FlowRun /\ s.deployment = runs[id].deployment /\ s.state = e
    BY <2>1, <2>2 DEF FlowRun
  <2>6. TypeOf(s) = TypeOf(runs[id])
    BY <2>1, <2>2, <2>3, <2>5 DEF TypeOf
  <2> HIDE DEF s
  <2> QED BY <1>4, <2>1, <2>4, <2>5, <2>6
<1>7. ASSUME NEW id \in Runs, DeleteFlowRun(id) PROVE AtMostLeaked(k)'
  <2>1. runs' = [runs EXCEPT ![id] = None] /\ ~Holds(None)
    BY <1>7 DEF DeleteFlowRun, Holds
  <2>2. /\ IsFiniteSet(Holders) /\ Cardinality(Holders) \in Nat
        /\ Cardinality(Holders') = IF id \in Holders THEN Cardinality(Holders) - 1
                                   ELSE Cardinality(Holders)
    BY <2>1, HoldersStep
  <2>3. CASE id \notin Holders
    BY <1>0, <1>7, <2>2, <2>3 DEF DeleteFlowRun, AtMostLeaked
  <2>4. CASE id \in Holders
    <3>1. limit' = Decrement(limit) /\ Cardinality(Holders) # 0
      BY <1>7, <2>2, <2>4, FS_EmptySet DEF DeleteFlowRun
    <3>2. /\ Decrement(limit).limit = limit.limit
          /\ Decrement(limit).active_slots \in Nat
          /\ Decrement(limit).active_slots <= limit.active_slots
      BY <1>0, DecrementType DEF ConcurrencyLimit
    <3>3. limit.active_slots > 0
            => Decrement(limit).active_slots = limit.active_slots - 1
      BY <1>0, DecrementType DEF TypeOK
    <3> QED BY <1>0, <2>2, <2>4, <3>1, <3>2, <3>3 DEF AtMostLeaked
  <2> QED BY <2>3, <2>4
<1>8. ASSUME NEW n \in Limits, UpdateDeploymentLimit(n) PROVE AtMostLeaked(k)'
  <2>1. Holders' = Holders
    BY <1>8 DEF UpdateDeploymentLimit, Holders, Rows
  <2>2. Cardinality(Holders) \in Nat
    BY HoldersFinite
  <2>3. limit'.active_slots \in {0, limit.active_slots}
        /\ (limit'.limit = None => limit'.active_slots = 0)
    <3>1. CASE n = None
      BY <1>8, <3>1 DEF UpdateDeploymentLimit, NoLimit
    <3>2. CASE n # None
      BY <1>0, <1>8, <3>2 DEF UpdateDeploymentLimit, ConcurrencyLimit
    <3> QED BY <3>1, <3>2
  <2> QED BY <1>0, <2>1, <2>2, <2>3 DEF AtMostLeaked
<1> QED
  BY <1>1, <1>2, <1>3, <1>5, <1>6, <1>7, <1>8 DEF Next

\* As long as every client uses the current policy, no sequence of requests,
\* of any clients, forced or not, on any number of runs, leaks a slot of the
\* deployment's limit, also while runs are deleted and the limit is changed.
THEOREM SlotsNeverLeak ==
  ASSUME "legacy" \notin ClientPolicies
  PROVE  Spec => []NoSlotLeak
<1>1. Init => NoSlotLeak
  <2> SUFFICES ASSUME Init PROVE NoSlotLeak
    OBVIOUS
  <2>1. limit.active_slots = 0
    BY DEF Init, NoLimit
  <2>2. Holders \subseteq Runs
    BY DEF Holders, Rows
  <2>3. Cardinality(Holders) >= 0
    BY <2>2, FS_CardinalityType, FS_Subset, OrchestrationAssumption
  <2> QED BY <2>1, <2>3 DEF NoSlotLeak
<1>2. Init => TypeOK
  BY TypeInit
<1>3. TypeOK /\ NoSlotLeak /\ [Next]_vars => NoSlotLeak'
  <2> SUFFICES ASSUME TypeOK, NoSlotLeak, [Next]_vars PROVE NoSlotLeak'
    OBVIOUS
  <2>1. limit.active_slots \in Nat /\ Cardinality(Holders) \in Nat
    BY HoldersFinite DEF TypeOK, ConcurrencyLimit
  <2>2. AtMostLeaked(0)
    BY <2>1 DEF AtMostLeaked, NoSlotLeak
  <2>3. AtMostLeaked(0)'
    BY <2>2, SlotStep
  <2>4. Cardinality(Holders') \in Nat
    BY FS_CardinalityType, FS_Subset, OrchestrationAssumption DEF Holders, Rows
  <2> QED BY <2>3, <2>4 DEF AtMostLeaked, NoSlotLeak
<1> QED
  BY <1>1, <1>2, <1>3, TypeStep, PTL DEF Spec
-----------------------------------------------------------------------------
(* A full limit admits nobody.                                             *)

\* No step but a request under the current policy adds a slot, and that one
\* takes it for the run that becomes PENDING, within the limit.
LEMMA SetStateAdmission ==
  ASSUME TypeOK, NEW id \in Runs, NEW p \in State, NEW policy \in Policies,
         SetFlowRunState(id, p, policy),
         limit'.active_slots > limit.active_slots
  PROVE  /\ limit'.active_slots <= limit'.limit
         /\ id \in Rows /\ id \notin Holders /\ id \in Holders'
         /\ TypeOf(runs'[id]) = "PENDING"
<1> DEFINE r == runs[id]
           final == Verdict(policy, r, p, limit).state
           s == RunAfter(policy, r, p, limit, Verdict(policy, r, p, limit))
           l == limit
           m == LimitAfter(policy, r, p, limit, final)
<1>1. /\ id \in Rows /\ r \in FlowRun /\ r # None /\ l \in ConcurrencyLimit
      /\ runs' = [runs EXCEPT ![id] = s] /\ limit' = m
  BY RowType DEF SetFlowRunState, Rows, TypeOK
<1>2. final \in State \cup {NoState}
  BY <1>1, VerdictState
<1>3. /\ s \in FlowRun /\ s.deployment = r.deployment
      /\ s.state = IF final = NoState THEN r.state ELSE final
  <2> HIDE DEF r
  <2> QED BY <1>1, <1>2, RunAfterType
<1>4. m = LimitAfter(policy, r, p, l, final)
  OBVIOUS
<1> HIDE DEF r, final, s, l, m
<1>5. /\ m \in ConcurrencyLimit /\ m.limit = l.limit
      /\ \/ /\ m = [l EXCEPT !.active_slots = @ + 1]
            /\ HasFreeSlot(l) /\ r.deployment /\ TypeOf(r) \notin SlotStates
            /\ final # NoState /\ final.type = "PENDING"
         \/ m.active_slots <= l.active_slots
  <2> HIDE <1>3
  <2> QED BY <1>1, <1>2, <1>4, LimitAfterCases
<1>6. m.active_slots > l.active_slots /\ l.active_slots \in Nat
      /\ m.active_slots \in Nat
  BY <1>1, <1>5 DEF ConcurrencyLimit, l
<1>7. /\ m = [l EXCEPT !.active_slots = @ + 1]
      /\ HasFreeSlot(l) /\ r.deployment /\ TypeOf(r) \notin SlotStates
      /\ final # NoState /\ final.type = "PENDING"
  BY <1>5, <1>6
<1>8. m.active_slots <= m.limit
  BY <1>1, <1>5, <1>7 DEF HasFreeSlot, ConcurrencyLimit
<1>9. TypeOf(s) = "PENDING" /\ s # None
  BY <1>2, <1>3, <1>7, RulesAssumption DEF TypeOf
<1>10. runs'[id] = s
  BY <1>1 DEF TypeOK
<1> QED
  BY <1>1, <1>3, <1>7, <1>8, <1>9, <1>10 DEF Holders, Rows, SlotStates, r

\* However many requests race, a slot is only ever taken while one is free,
\* and only for the run that becomes PENDING by taking it.
THEOREM FullLimitAdmitsNobody == Spec => NoAdmissionBeyondLimit
<1> DEFINE Admits ==
      limit'.active_slots > limit.active_slots
       => /\ limit'.active_slots <= limit'.limit
          /\ \E id \in Rows : /\ id \notin Holders /\ id \in Holders'
                              /\ TypeOf(runs'[id]) = "PENDING"
<1>1. TypeOK /\ [Next]_vars => [Admits]_vars
  <2> SUFFICES ASSUME TypeOK, [Next]_vars, limit'.active_slots > limit.active_slots
               PROVE  Admits \/ UNCHANGED vars
    OBVIOUS
  <2>0. limit \in ConcurrencyLimit /\ limit.active_slots \in Nat
    BY DEF TypeOK, ConcurrencyLimit
  <2>1. limit' # limit
    BY <2>0
  <2>2. ASSUME NEW id \in Runs,
               \/ ClientRequest(id) \/ ResumeFlowRun(id)
               \/ MarkFlowRunAsLate(id) \/ FailExpiredPause(id)
        PROVE  Admits
    <3>1. PICK p \in State, policy \in Policies : SetFlowRunState(id, p, policy)
      BY <2>2, RequestCases
    <3> QED BY <3>1, SetStateAdmission
  <2>3. ASSUME NEW id \in Runs, DeleteFlowRun(id) PROVE FALSE
    <3>1. limit' = Decrement(limit)
      BY <2>1, <2>3 DEF DeleteFlowRun
    <3>2. /\ Decrement(limit).active_slots <= limit.active_slots
          /\ Decrement(limit).active_slots \in Nat
      BY <2>0, DecrementType DEF ConcurrencyLimit
    <3> QED BY <2>0, <3>1, <3>2
  <2>4. ASSUME NEW n \in Limits, UpdateDeploymentLimit(n) PROVE FALSE
    <3>1. CASE n = None
      BY <2>0, <2>4, <3>1 DEF UpdateDeploymentLimit, NoLimit
    <3>2. CASE n # None
      BY <2>0, <2>4, <3>2 DEF UpdateDeploymentLimit, ConcurrencyLimit
    <3> QED BY <3>1, <3>2
  <2>5. /\ \A id \in Runs : /\ CreateFlowRun(id) => limit' = limit
                            /\ UpdateInfrastructurePid(id) => limit' = limit
                            /\ ClockPasses(id) => limit' = limit
        /\ UNCHANGED vars => limit' = limit
    BY DEF CreateFlowRun, UpdateInfrastructurePid, ClockPasses, vars
  <2> HIDE DEF Admits
  <2> QED BY <2>1, <2>2, <2>3, <2>4, <2>5 DEF Next
<1> QED
  BY <1>1, TypeCorrect, PTL DEF Spec, NoAdmissionBeyondLimit

-----------------------------------------------------------------------------
(* A cancellation is final.                                                *)

CancelTypes == {"CANCELLING", "CANCELLED"}

\* Whatever is proposed for a cancelled run under a core policy, the verdict
\* is to leave the run where it is or to cancel it.
LEMMA CancelledVerdict ==
  ASSUME NEW policy \in {"core", "legacy"}, NEW r \in FlowRun, NEW p \in State,
         NEW l, TypeOf(r) \in CancelTypes
  PROVE  LET final == Verdict(policy, r, p, l).state
         IN  final = NoState \/ final.type = "CANCELLED"
<1> DEFINE Keep == {Pass, Abort, Wait, Reject(NoState)}
           v == CoreFlowPolicy(policy, r, p, l)
<1>0. /\ Pass \in Keep /\ Abort \in Keep /\ Wait \in Keep /\ Reject(NoState) \in Keep
      /\ \A w \in Keep : w.state = NoState
  BY DEF Pass, Abort, Wait, Reject
<1>1. \A a, b \in Keep : a ++ b \in Keep
  BY DEF ++
<1>2. \A c : \A w \in Keep : If(c, w) \in Keep
  BY <1>0 DEF If
<1>3. Reject(NoState) # Pass
  BY DEF Reject, Pass
<1>4. /\ TypeOf(r) \notin {"SCHEDULED", "PENDING", "RUNNING", "PAUSED"}
      /\ TypeOf(r) \in {"CANCELLING", "CANCELLED"}
  BY DEF CancelTypes
<1> HIDE DEF Keep
<1>5. /\ PreventDuplicateTransitions(r, p) \in Keep
      /\ EnforceCancellingToCancelledTransition(r, p) \in Keep
      /\ EnsureOnlyScheduledFlowsMarkedLate(r, p) \in Keep
      /\ PreventPendingTransitions(r, p) \in Keep
  BY <1>0, <1>2 DEF PreventDuplicateTransitions, PreventPendingTransitions,
       EnforceCancellingToCancelledTransition, EnsureOnlyScheduledFlowsMarkedLate
<1>6. HandleFlowTerminalStateTransitions(r, p) \in Keep
  BY <1>0, <1>1, <1>2 DEF HandleFlowTerminalStateTransitions
<1>7. HandlePausingFlows(r, p) \in Keep
  BY <1>0, <1>1, <1>2 DEF HandlePausingFlows
<1>8. /\ BypassCancellingFlowRunsWithNoInfra(r, p) = Pass
      /\ HandleResumingPausedFlows(r, p) = Pass
      /\ WaitForScheduledTime(r, p) = Pass
      /\ RetryFailedFlows(r, p) = Pass
  BY <1>4 DEF BypassCancellingFlowRunsWithNoInfra, HandleResumingPausedFlows,
              WaitForScheduledTime, RetryFailedFlows, If
<1>9. CoreUpToSecuring(r, p) \in Keep
  BY <1>0, <1>1, <1>5, <1>6, <1>8 DEF CoreUpToSecuring
<1>10. p.type # "CANCELLED" => CoreUpToSecuring(r, p) # Pass
  <2> SUFFICES ASSUME p.type # "CANCELLED" PROVE CoreUpToSecuring(r, p) # Pass
    OBVIOUS
  <2>1. EnforceCancellingToCancelledTransition(r, p) = Reject(NoState)
    BY <1>4 DEF EnforceCancellingToCancelledTransition, If
  <2> QED BY <1>3, <2>1, ChainPass DEF CoreUpToSecuring
<1>11. CASE p.type = "CANCELLED"
  <2>1. If(policy = "core", SecureFlowConcurrencySlots(r, p, l)) = Pass
    BY <1>11 DEF SecureFlowConcurrencySlots, WantsSlot, If
  <2>2. v \in Keep
    BY <1>0, <1>1, <1>5, <1>7, <1>8, <1>9, <2>1 DEF CoreFlowPolicy, CoreUpToPausing
  <2>3. CopyScheduledTime(r, p) = p
    BY <1>11 DEF CopyScheduledTime
  <2> HIDE DEF v
  <2>4. Verdict(policy, r, p, l) = IF v = Pass THEN [v EXCEPT !.state = p] ELSE v
    BY <2>3 DEF Verdict, v
  <2> QED BY <1>0, <1>11, <2>2, <2>4 DEF Pass
<1>12. CASE p.type # "CANCELLED"
  <2>1. v = CoreUpToSecuring(r, p)
    BY <1>10, <1>12 DEF CoreFlowPolicy, CoreUpToPausing, ++
  <2>2. v \in Keep /\ v # Pass
    BY <1>9, <1>10, <1>12, <2>1
  <2> HIDE DEF v
  <2>3. Verdict(policy, r, p, l) = v
    BY <2>2 DEF Verdict, v
  <2> QED BY <1>0, <2>2, <2>3
<1> QED
  BY <1>11, <1>12

\* A request that is not forced leaves a cancelled run cancelled.
LEMMA SetStateCancelled ==
  ASSUME TypeOK, NEW id \in Runs, NEW p \in State,
         NEW policy \in {"core", "legacy", "late"},
         policy = "late" => p = Scheduled("Late", "past"),
         SetFlowRunState(id, p, policy), TypeOf(runs[id]) \in CancelTypes
  PROVE  TypeOf(runs'[id]) \in {TypeOf(runs[id]), "CANCELLED"}
<1> DEFINE r == runs[id]
           v == Verdict(policy, r, p, limit)
           s == RunAfter(policy, r, p, limit, v)
<1>1. /\ r \in FlowRun /\ policy \in Policies /\ limit \in ConcurrencyLimit
      /\ runs' = [runs EXCEPT ![id] = s]
  BY RowType DEF SetFlowRunState, Policies, TypeOK
<1>2. v.state \in State \cup {NoState}
  BY <1>1, VerdictState
<1>3. v.state = NoState \/ v.state.type = "CANCELLED"
  <2>1. CASE policy = "late"
    BY <1>1, <2>1, LateKeepsOthers DEF CancelTypes, StateTypes
  <2>2. CASE policy # "late"
    BY <1>1, <2>2, CancelledVerdict
  <2> QED BY <2>1, <2>2
<1>4. s.state = IF v.state = NoState THEN r.state ELSE v.state
  <2> HIDE DEF v, r
  <2> QED BY <1>1, <1>2, RunAfterType
<1>5. runs'[id] = s
  BY <1>1 DEF TypeOK
<1> HIDE DEF v, s, r
<1>6. TypeOf(s) = IF v.state = NoState THEN TypeOf(r) ELSE "CANCELLED"
  BY <1>2, <1>3, <1>4, RulesAssumption DEF TypeOf
<1> QED
  BY <1>5, <1>6 DEF r

\* Unless clients force transitions, a run that is being cancelled ends
\* CANCELLED or is deleted, in every interleaving of workers, flow run
\* processes, users and services, whatever states they read before.
THEOREM CancellationIsFinal ==
  ASSUME ForceAllowed = FALSE
  PROVE  Spec => CancellationFinal
<1> DEFINE Final ==
      \A id \in Rows :
        TypeOf(runs[id]) \in {"CANCELLING", "CANCELLED"}
        => \/ runs'[id] = None
           \/ TypeOf(runs'[id]) \in {TypeOf(runs[id]), "CANCELLED"}
<1>1. TypeOK /\ [Next]_vars => [Final]_vars
  <2> DEFINE Kept(i) == TypeOf(runs[i]) \in {"CANCELLING", "CANCELLED"}
                        => \/ runs'[i] = None
                           \/ TypeOf(runs'[i]) \in {TypeOf(runs[i]), "CANCELLED"}
  <2> SUFFICES ASSUME TypeOK, [Next]_vars PROVE Final \/ UNCHANGED vars
    OBVIOUS
  <2>1. ASSUME NEW id \in Runs, NEW s, runs' = [runs EXCEPT ![id] = s],
               id \in Rows => Kept(id)
        PROVE  Final
    <3>1. \A i \in Runs \ {id} : runs'[i] = runs[i]
      BY <2>1 DEF TypeOK
    <3>2. ASSUME NEW i \in Rows PROVE Kept(i)
      <4>1. CASE i = id
        BY <2>1, <3>2, <4>1
      <4>2. CASE i # id
        BY <3>1, <3>2, <4>2 DEF Rows
      <4> QED BY <4>1, <4>2
    <3> QED BY <3>2
  <2>2. ASSUME NEW id \in Runs, CreateFlowRun(id) PROVE Final
    BY <2>1, <2>2 DEF CreateFlowRun
  <2>3. ASSUME NEW id \in Runs, NEW p \in State, NEW policy \in Policies,
               SetFlowRunState(id, p, policy),
               policy = "minimal" => TypeOf(runs[id]) \notin CancelTypes,
               policy = "late" => p = Scheduled("Late", "past")
        PROVE  Final
    <3>1. TypeOf(runs[id]) \in CancelTypes
            => TypeOf(runs'[id]) \in {TypeOf(runs[id]), "CANCELLED"}
      BY <2>3, SetStateCancelled DEF Policies
    <3>2. Kept(id)
      BY <3>1 DEF CancelTypes
    <3> HIDE DEF Kept, Final
    <3> QED BY <2>1, <2>3, <3>2 DEF SetFlowRunState
  <2>4. ASSUME NEW id \in Runs,
               \/ ClientRequest(id) \/ ResumeFlowRun(id) \/ MarkFlowRunAsLate(id)
        PROVE  Final
    <3>1. \E p \in State, policy \in {"core", "legacy", "late"} :
            /\ SetFlowRunState(id, p, policy)
            /\ policy = "late" => p = Scheduled("Late", "past")
      <4>1. /\ Scheduled("Resuming", "past") \in State /\ Plain("RUNNING") \in State
            /\ Scheduled("Late", "past") \in State
        BY WrittenStatesType DEF StateTypes, Names, Times
      <4>2. Proposals \subseteq State /\ ClientPolicies \subseteq {"core", "legacy"}
        BY OrchestrationAssumption
      <4>3. CASE ClientRequest(id)
        BY <4>2, <4>3 DEF ClientRequest
      <4>4. CASE ResumeFlowRun(id)
        BY <4>1, <4>2, <4>4 DEF ResumeFlowRun
      <4>5. CASE MarkFlowRunAsLate(id)
        BY <4>1, <4>5 DEF MarkFlowRunAsLate
      <4> QED BY <2>4, <4>3, <4>4, <4>5
    <3> HIDE DEF Final
    <3> QED BY <2>3, <3>1 DEF Policies
  <2>5. ASSUME NEW id \in Runs, FailExpiredPause(id) PROVE Final
    <3>1. /\ SetFlowRunState(id, Plain("FAILED"), "minimal")
          /\ TypeOf(runs[id]) \notin CancelTypes
      BY <2>5 DEF FailExpiredPause, CancelTypes
    <3>2. Plain("FAILED") \in State
      BY WrittenStatesType DEF StateTypes
    <3> HIDE DEF Final
    <3> QED BY <2>3, <3>1, <3>2 DEF Policies
  <2>6. ASSUME NEW id \in Runs, UpdateInfrastructurePid(id) PROVE Final
    <3> DEFINE s == [runs[id] EXCEPT !.infrastructure_pid = TRUE]
    <3>1. runs' = [runs EXCEPT ![id] = s] /\ runs[id] \in FlowRun
      BY <2>6, RowType DEF UpdateInfrastructurePid
    <3>2. runs'[id] = s /\ TypeOf(s) = TypeOf(runs[id])
      BY <3>1 DEF FlowRun, TypeOf, TypeOK
    <3>3. Kept(id)
      BY <3>2
    <3> HIDE DEF s, Kept, Final
    <3> QED BY <2>1, <3>1, <3>3
  <2>7. ASSUME NEW id \in Runs, ClockPasses(id) PROVE Final
    <3> DEFINE e == Elapsed(runs[id].state)
               s == [runs[id] EXCEPT !.state = e]
    <3>1. /\ runs' = [runs EXCEPT ![id] = s] /\ runs[id] \in FlowRun
          /\ runs[id].state \in State /\ runs[id].state # NoState
      BY <2>7, RowType DEF ClockPasses, FlowRun
    <3>2. e \in State /\ e.type = runs[id].state.type
      BY <3>1 DEF Elapsed, State, Times
    <3>3. e # NoState
      BY <3>2, RulesAssumption
    <3> HIDE DEF e
    <3>4. runs'[id] = s /\ s.state = e
      BY <3>1 DEF FlowRun, TypeOK
    <3>5. Kept(id)
      BY <3>1, <3>2, <3>3, <3>4 DEF TypeOf
    <3> HIDE DEF s, Kept, Final
    <3> QED BY <2>1, <3>1, <3>5
  <2>8. ASSUME NEW id \in Runs, DeleteFlowRun(id) PROVE Final
    <3>1. runs' = [runs EXCEPT ![id] = None] /\ runs'[id] = None
      BY <2>8 DEF DeleteFlowRun, TypeOK
    <3> QED BY <2>1, <3>1
  <2>9. ASSUME NEW n \in Limits, UpdateDeploymentLimit(n) PROVE Final
    BY <2>9 DEF UpdateDeploymentLimit
  <2> HIDE DEF Final
  <2> QED BY <2>2, <2>4, <2>5, <2>6, <2>7, <2>8, <2>9 DEF Next
<1> QED
  BY <1>1, TypeCorrect, PTL DEF Spec, CancellationFinal
-----------------------------------------------------------------------------
(* Retries are bounded.                                                    *)

\* The type and the name of the states a rule writes.
LEMMA WrittenFields ==
  /\ \A t : Plain(t).type = t /\ Plain(t).name = "Default"
  /\ \A n, t : Scheduled(n, t).type = "SCHEDULED" /\ Scheduled(n, t).name = n
<1>1. \A t : Plain(t).type = t /\ Plain(t).name = "Default"
  BY DEF Plain
<1>2. \A n, t : Scheduled(n, t).type = "SCHEDULED" /\ Scheduled(n, t).name = n
  BY DEF Scheduled, Plain
<1> QED BY <1>1, <1>2

\* The verdict that grants a retry.
Granted == Reject(Scheduled("AwaitingRetry", "future"))

\* Only RetryFailedFlows grants a retry, and only to a run that is RUNNING and
\* has begun no more often than it may be retried.
LEMMA GrantVerdict ==
  ASSUME NEW policy \in Policies, NEW r \in FlowRun, NEW p \in State,
         NEW l \in ConcurrencyLimit,
         Verdict(policy, r, p, l).status = "REJECT",
         Verdict(policy, r, p, l).state # NoState,
         Verdict(policy, r, p, l).state.name = "AwaitingRetry"
  PROVE  /\ policy \in {"core", "legacy"}
         /\ TypeOf(r) = "RUNNING" /\ p.type = "FAILED"
         /\ Retries # None /\ r.run_count <= Retries
         /\ Verdict(policy, r, p, l).state.type = "SCHEDULED"
<1> DEFINE Others == RuleVerdicts \ {Granted}
           v == Verdict(policy, r, p, l)
<1>1. v \in RuleVerdicts \ {Pass}
  BY VerdictCases
<1>2. \A w \in Others : w.state = NoState \/ w.state.name # "AwaitingRetry"
  BY WrittenFields DEF RuleVerdicts, Granted, Pass, Abort, Wait, Reject
<1>3. v = Granted /\ Granted # Pass
  BY <1>1, <1>2
<1>4. v.state.type = "SCHEDULED"
  BY <1>3, WrittenFields DEF Granted, Reject
<1>5. Granted \notin {Pass, Abort, Wait, Reject(NoState), Reject(Plain("CANCELLED")),
                      Reject(Plain("FAILED")),
                      Reject(Scheduled("AwaitingConcurrencySlot", "future"))}
  <2>1. Scheduled("AwaitingRetry", "future") # NoState
    BY WrittenStatesType, RulesAssumption DEF Names, Times
  <2>2. /\ Scheduled("AwaitingRetry", "future").name = "AwaitingRetry"
        /\ Plain("CANCELLED").name = "Default" /\ Plain("FAILED").name = "Default"
        /\ Scheduled("AwaitingConcurrencySlot", "future").name
             = "AwaitingConcurrencySlot"
    BY WrittenFields
  <2>3. /\ Granted.state.name = "AwaitingRetry" /\ Granted.state # NoState
        /\ Granted.status = "REJECT"
    BY <2>1, <2>2 DEF Granted, Reject
  <2> QED BY <2>2, <2>3 DEF Pass, Abort, Wait, Reject
<1>6. /\ Pass \in Others /\ Abort \in Others /\ Wait \in Others
      /\ Reject(NoState) \in Others /\ Reject(Plain("CANCELLED")) \in Others
      /\ Reject(Plain("FAILED")) \in Others
      /\ Reject(Scheduled("AwaitingConcurrencySlot", "future")) \in Others
  BY <1>5 DEF RuleVerdicts
<1>7. \A a, b \in Others : a ++ b \in Others
  BY DEF ++
<1>8. \A c : \A w \in Others : If(c, w) \in Others
  BY <1>6 DEF If
<1> HIDE DEF Others, v
<1>9. /\ PreventDuplicateTransitions(r, p) \in Others
      /\ EnforceCancellingToCancelledTransition(r, p) \in Others
      /\ BypassCancellingFlowRunsWithNoInfra(r, p) \in Others
      /\ PreventPendingTransitions(r, p) \in Others
      /\ EnsureOnlyScheduledFlowsMarkedLate(r, p) \in Others
      /\ WaitForScheduledTime(r, p) \in Others
  BY <1>6, <1>8
     DEF PreventDuplicateTransitions, EnforceCancellingToCancelledTransition,
         BypassCancellingFlowRunsWithNoInfra, PreventPendingTransitions,
         EnsureOnlyScheduledFlowsMarkedLate, WaitForScheduledTime
<1>10. HandleFlowTerminalStateTransitions(r, p) \in Others
  BY <1>6, <1>7, <1>8 DEF HandleFlowTerminalStateTransitions
<1>11. HandlePausingFlows(r, p) \in Others
  BY <1>6, <1>7, <1>8 DEF HandlePausingFlows
<1>12. HandleResumingPausedFlows(r, p) \in Others
  BY <1>6, <1>7, <1>8 DEF HandleResumingPausedFlows
<1>13. If(policy = "core", SecureFlowConcurrencySlots(r, p, l)) \in Others
  <2>1. Reject(IF Strategy = "ENQUEUE"
                 THEN Scheduled("AwaitingConcurrencySlot", "future")
                 ELSE Plain("CANCELLED")) \in Others
    BY <1>6
  <2>2. SecureFlowConcurrencySlots(r, p, l) \in Others
    BY <1>6, <1>7, <1>8, <2>1 DEF SecureFlowConcurrencySlots
  <2> QED BY <1>8, <2>2
<1>14. CoreUpToSecuring(r, p) \in Others
  BY <1>7, <1>9, <1>10 DEF CoreUpToSecuring
<1>15. CoreUpToPausing(policy, r, p, l) \in Others
  BY <1>7, <1>9, <1>11, <1>13, <1>14 DEF CoreUpToPausing
<1>16. Granted \notin Others
  BY DEF Others
<1>17. RetryFailedFlows(r, p) \notin Others => /\ TypeOf(r) = "RUNNING"
                                               /\ p.type = "FAILED" /\ Retries # None
                                               /\ r.run_count <= Retries
  BY <1>6 DEF RetryFailedFlows, If
<1>18. CoreFlowPolicy(policy, r, p, l) \notin Others => RetryFailedFlows(r, p) \notin Others
  BY <1>7, <1>9, <1>12, <1>15 DEF CoreFlowPolicy
<1>19. CASE policy \in {"core", "legacy"}
  <2> DEFINE c == CoreFlowPolicy(policy, r, p, l)
  <2> HIDE DEF c
  <2>1. v = IF c = Pass THEN [c EXCEPT !.state = CopyScheduledTime(r, p)] ELSE c
    BY <1>19 DEF Verdict, v, c
  <2>2. c # Pass
    BY <2>1 DEF Pass, v
  <2>3. c \notin Others
    BY <1>3, <1>16, <2>1, <2>2
  <2> QED BY <1>4, <1>17, <1>18, <1>19, <2>3 DEF c, v
<1>20. CASE policy = "minimal"
  <2> DEFINE c == BypassCancellingFlowRunsWithNoInfra(r, p)
  <2> HIDE DEF c
  <2>1. v = IF c = Pass THEN [c EXCEPT !.state = p] ELSE c
    BY <1>20 DEF Verdict, v, c
  <2>2. c # Pass
    BY <2>1 DEF Pass, v
  <2> QED BY <1>3, <1>9, <1>16, <2>1, <2>2 DEF c
<1>21. CASE policy = "late"
  <2> DEFINE c == EnsureOnlyScheduledFlowsMarkedLate(r, p)
  <2> HIDE DEF c
  <2>1. v = IF c = Pass THEN [c EXCEPT !.state = p] ELSE c
    BY <1>21 DEF Verdict, v, c
  <2>2. c # Pass
    BY <2>1 DEF Pass, v
  <2> QED BY <1>3, <1>9, <1>16, <2>1, <2>2 DEF c
<1> QED
  BY <1>19, <1>20, <1>21 DEF Policies

\* Unless it is forced, a run is paused only while it is RUNNING.
LEMMA PauseAccepted ==
  ASSUME NEW policy \in {"core", "legacy"}, NEW r \in FlowRun, NEW p \in State,
         NEW l \in ConcurrencyLimit,
         Verdict(policy, r, p, l).status = "ACCEPT", p.type = "PAUSED"
  PROVE  TypeOf(r) = "RUNNING"
<1> DEFINE c == CoreFlowPolicy(policy, r, p, l)
<1>1. c \in RuleVerdicts
  BY PoliciesClosed
<1>2. \A w \in RuleVerdicts \ {Pass} : w.status # "ACCEPT"
  BY DEF RuleVerdicts, Abort, Wait, Reject
<1>3. c = Pass
  <2> SUFFICES ASSUME c # Pass PROVE FALSE
    OBVIOUS
  <2>1. Verdict(policy, r, p, l) = c
    BY DEF Verdict
  <2> HIDE DEF c
  <2> QED BY <1>1, <1>2, <2>1
<1>4. HandlePausingFlows(r, p) = Pass
  BY <1>3, ChainPass DEF CoreFlowPolicy, CoreUpToPausing
<1>5. If(TypeOf(r) # "RUNNING", Reject(NoState)) = Pass
  BY <1>4, ChainPass DEF HandlePausingFlows, If
<1>6. Reject(NoState) # Pass
  BY DEF Reject, Pass
<1> QED
  BY <1>5, <1>6 DEF If

\* What a transition does to the counters: run_count never falls and rises
\* with RUNNING, except for a run marked as resuming; the mark comes from a
\* pause and goes with a retry.
LEMMA CountsAfter ==
  ASSUME NEW policy \in Policies, NEW r \in FlowRun, NEW p \in State,
         NEW l \in ConcurrencyLimit, NEW v, v.state \in State \cup {NoState}
  PROVE  LET s == RunAfter(policy, r, p, l, v)
         IN  /\ s.run_count >= r.run_count
             /\ v.state # NoState /\ v.state.type = "RUNNING" /\ ~r.resuming
                  => s.run_count = r.run_count + 1
             /\ s.resuming => r.resuming \/ TypeOf(r) = "PAUSED"
             /\ (/\ policy \in {"core", "legacy"} /\ v.status # "ACCEPT"
                 /\ TypeOf(r) = "RUNNING" /\ p.type = "FAILED"
                 /\ v.state # NoState /\ v.state.type = "SCHEDULED") => ~s.resuming
<1> DEFINE b == PolicyBefore(policy, r, p, v)
           g == GlobalTransforms(b, v.state)
           a == PolicyAfter(policy, r, p, l, v, g)
           s == RunAfter(policy, r, p, l, v)
           Retry == /\ policy \in {"core", "legacy"} /\ v.status # "ACCEPT"
                    /\ TypeOf(r) = "RUNNING" /\ p.type = "FAILED"
                    /\ v.state # NoState /\ v.state.type = "SCHEDULED"
<1>1. /\ b \in FlowRun /\ b.run_count = r.run_count
      /\ b.resuming => r.resuming
      /\ Retry => ~b.resuming
  <2>1. \A t \in {None, "in_process", "reschedule"} :
          /\ ResetPause(r, t) \in FlowRun /\ ResetPause(r, t).run_count = r.run_count
          /\ ~ResetPause(r, t).resuming
    BY DEF ResetPause, FlowRun
  <2>2. Retry => b = ResetPause(r, "in_process")
    BY DEF PolicyBefore, TERMINAL_STATES
  <2>3. b \in {r} \cup {ResetPause(r, t) : t \in {None, "in_process", "reschedule"}}
    BY DEF PolicyBefore
  <2> HIDE DEF b, Retry
  <2> QED BY <2>1, <2>2, <2>3
<1> HIDE DEF b
<1>2. /\ g \in FlowRun /\ g.run_count >= r.run_count
      /\ v.state # NoState /\ v.state.type = "RUNNING" /\ ~r.resuming
           => g.run_count = r.run_count + 1
      /\ g.resuming => b.resuming
  <2>1. CASE v.state = NoState
    BY <1>1, <2>1 DEF GlobalTransforms, FlowRun
  <2>2. CASE v.state # NoState
    <3> DEFINE n == IF v.state.type = "RUNNING" /\ ~b.resuming
                      THEN b.run_count + 1 ELSE b.run_count
               f == b.resuming /\ ~(v.state.type = "RUNNING" \/ IsFinal(v.state))
    <3>1. g = [b EXCEPT !.run_count = n, !.resuming = f]
      BY <2>2 DEF GlobalTransforms
    <3>2. n \in Nat /\ n >= r.run_count /\ f \in BOOLEAN /\ (f => b.resuming)
          /\ (v.state.type = "RUNNING" /\ ~r.resuming => n = r.run_count + 1)
      BY <1>1 DEF FlowRun
    <3> HIDE DEF n, f, g
    <3>3. g.run_count = n /\ g.resuming = f /\ g \in FlowRun
      BY <1>1, <3>1, <3>2 DEF FlowRun
    <3> QED BY <3>2, <3>3
  <2> QED BY <2>1, <2>2
<1> HIDE DEF g
<1>3. /\ a.run_count = g.run_count
      /\ a.resuming => \/ g.resuming \/ TypeOf(r) = "PAUSED"
                       \/ r.resuming /\ TypeOf(r) \in TERMINAL_STATES
  BY <1>2 DEF PolicyAfter, FlowRun
<1>4. a \in FlowRun
  <2>1. [g EXCEPT !.resuming = TRUE] \in FlowRun /\ [g EXCEPT !.resuming = r.resuming] \in FlowRun
    BY <1>2 DEF FlowRun
  <2>2. p.pause_key # None => [g EXCEPT !.pause_keys = @ \cup {p.pause_key}] \in FlowRun
    <3>1. p.pause_key # None => p.pause_key \in Keys
      BY DEF State
    <3> QED BY <1>2, <3>1 DEF FlowRun
  <2> QED BY <1>2, <2>1, <2>2 DEF PolicyAfter
<1>5. s = IF v.state = NoState THEN a ELSE [a EXCEPT !.state = v.state]
  BY DEF RunAfter, b, g
<1> HIDE DEF a, s
<1>6. s.run_count = a.run_count /\ s.resuming = a.resuming
  BY <1>4, <1>5 DEF FlowRun
<1>7. /\ s.run_count >= r.run_count
      /\ v.state # NoState /\ v.state.type = "RUNNING" /\ ~r.resuming
           => s.run_count = r.run_count + 1
      /\ s.resuming => \/ b.resuming \/ TypeOf(r) = "PAUSED"
                       \/ r.resuming /\ TypeOf(r) \in TERMINAL_STATES
  BY <1>2, <1>3, <1>6
<1> HIDE DEF Retry
<1>8. /\ s.resuming => r.resuming \/ TypeOf(r) = "PAUSED"
      /\ Retry => ~s.resuming
  BY <1>1, <1>7 DEF Retry, TERMINAL_STATES
<1> QED
  BY <1>7, <1>8 DEF s, Retry

\* A run has used up one execution for each retry it was granted, and one
\* more while it runs or is paused, or is marked as resuming.
Budget(row, n) ==
  /\ n <= (IF Retries = None THEN 0 ELSE Retries)
  /\ n <= row.run_count
  /\ TypeOf(row) \in {"RUNNING", "PAUSED"} \/ row.resuming => n < row.run_count

RetriesInv == TypeOK /\ \A id \in Rows : Budget(runs[id], retried[id])

\* One transition keeps the budget: a grant takes one execution of it, and the
\* run begins another before it can be granted one again.
LEMMA BudgetAfter ==
  ASSUME NEW policy \in Policies, NEW r \in FlowRun, NEW p \in State,
         NEW l \in ConcurrencyLimit, NEW n \in Nat, Budget(r, n),
         policy \in {"late", "minimal"} => p.type # "PAUSED"
  PROVE  LET v == Verdict(policy, r, p, l)
             s == RunAfter(policy, r, p, l, v)
         IN  Budget(s, IF /\ v.status = "REJECT" /\ v.state # NoState
                          /\ v.state.name = "AwaitingRetry"
                         THEN n + 1 ELSE n)
<1> DEFINE v == Verdict(policy, r, p, l)
           s == RunAfter(policy, r, p, l, v)
           grant == /\ v.status = "REJECT" /\ v.state # NoState
                    /\ v.state.name = "AwaitingRetry"
<1>1. v.state \in State \cup {NoState}
  BY VerdictState
<1>2. grant => /\ policy \in {"core", "legacy"}
               /\ TypeOf(r) = "RUNNING" /\ p.type = "FAILED"
               /\ Retries # None /\ r.run_count <= Retries
               /\ v.state.type = "SCHEDULED"
  BY GrantVerdict
<1>3. v.status = "ACCEPT" => v.state # NoState /\ v.state.type = p.type
  BY VerdictState, RulesAssumption
<1>4. v.status = "ACCEPT" /\ p.type = "PAUSED" => TypeOf(r) = "RUNNING"
  BY PauseAccepted DEF Policies
<1>5. v.status # "ACCEPT" /\ v.state # NoState
        => v.state.type \in {"CANCELLED", "FAILED", "SCHEDULED"}
  <2>1. \A w \in RuleVerdicts :
          w.state = NoState \/ w.state.type \in {"CANCELLED", "FAILED", "SCHEDULED"}
    BY WrittenFields DEF RuleVerdicts, Pass, Abort, Wait, Reject
  <2> QED BY <2>1, VerdictCases
<1> HIDE DEF v
<1>6. /\ s \in FlowRun /\ s.run_count >= r.run_count
      /\ s.state = IF v.state = NoState THEN r.state ELSE v.state
      /\ v.state # NoState /\ v.state.type = "RUNNING" /\ ~r.resuming
           => s.run_count = r.run_count + 1
      /\ s.resuming => r.resuming \/ TypeOf(r) = "PAUSED"
      /\ grant => ~s.resuming
  BY <1>1, <1>2, RunAfterType, CountsAfter
<1>7. TypeOf(s) = IF v.state = NoState THEN TypeOf(r) ELSE v.state.type
  BY <1>1, <1>6, RulesAssumption DEF TypeOf
<1>8. /\ r.run_count \in Nat /\ s.run_count \in Nat
      /\ Retries \in Nat \cup {None} /\ None \notin Nat
  BY <1>6, RulesAssumption DEF FlowRun
<1> HIDE DEF s
<1>9. CASE grant
  <2>1. TypeOf(s) = "SCHEDULED" /\ ~s.resuming
    BY <1>2, <1>6, <1>7, <1>9
  <2>2. n < r.run_count /\ r.run_count <= Retries
    BY <1>2, <1>9 DEF Budget
  <2>3. Budget(s, n + 1)
    <3>1. n + 1 <= s.run_count /\ n + 1 <= Retries
      BY <1>2, <1>6, <1>8, <1>9, <2>2
    <3> QED BY <1>2, <1>9, <2>1, <3>1 DEF Budget
  <2> QED BY <1>9, <2>3 DEF v, s
<1>10. CASE ~grant
  <2>1. n <= s.run_count
    BY <1>6, <1>8 DEF Budget
  <2>2. ASSUME TypeOf(r) \in {"RUNNING", "PAUSED"} \/ r.resuming
        PROVE  n < s.run_count
    BY <1>6, <1>8, <2>2 DEF Budget
  <2>3. ASSUME TypeOf(s) = "PAUSED" PROVE n < s.run_count
    BY <1>3, <1>4, <1>5, <1>7, <2>2, <2>3
  <2>4. ASSUME TypeOf(s) = "RUNNING" PROVE n < s.run_count
    <3>1. CASE v.state = NoState \/ r.resuming
      BY <1>7, <2>2, <2>4, <3>1
    <3>2. CASE v.state # NoState /\ ~r.resuming
      BY <1>6, <1>7, <1>8, <2>4, <3>2 DEF Budget
    <3> QED BY <3>1, <3>2
  <2>5. ASSUME s.resuming PROVE n < s.run_count
    BY <1>6, <2>2, <2>5
  <2>6. Budget(s, n)
    BY <2>1, <2>3, <2>4, <2>5 DEF Budget
  <2> QED BY <1>10, <2>6 DEF v, s
<1> QED
  BY <1>9, <1>10

\* Every step keeps the budget of every run.
LEMMA RetriesStep ==
  ASSUME ForceAllowed = FALSE, \A p \in InitialStates : p.type # "PAUSED",
         RetriesInv, [Next]_vars
  PROVE  RetriesInv'
<1> DEFINE Kept(id) == runs'[id] # None => Budget(runs'[id], retried'[id])
<1>1. TypeOK /\ TypeOK'
  BY TypeStep DEF RetriesInv
<1>2. \A id \in Rows : Budget(runs[id], retried[id])
  BY DEF RetriesInv
\* It is enough to look at the run of the step.
<1>3. ASSUME NEW id \in Runs, NEW s, NEW n,
             runs' = [runs EXCEPT ![id] = s], retried' = [retried EXCEPT ![id] = n],
             s # None => Budget(s, n)
      PROVE  RetriesInv'
  <2>1. /\ runs'[id] = s /\ retried'[id] = n
        /\ \A i \in Runs \ {id} : runs'[i] = runs[i] /\ retried'[i] = retried[i]
    BY <1>1, <1>3 DEF TypeOK
  <2>2. ASSUME NEW i \in Runs, runs'[i] # None PROVE Budget(runs'[i], retried'[i])
    <3>1. CASE i = id
      BY <1>3, <2>1, <2>2, <3>1
    <3>2. CASE i # id
      BY <1>2, <2>1, <2>2, <3>2 DEF Rows
    <3> QED BY <3>1, <3>2
  <2>3. \A i \in Rows' : Budget(runs'[i], retried'[i])
    BY <2>2 DEF Rows
  <2> QED BY <1>1, <2>3 DEF RetriesInv, Budget, TypeOf
\* A step that writes a row only, and no execution or pause of it.
<1>4. ASSUME NEW id \in Rows, NEW s, runs' = [runs EXCEPT ![id] = s],
             retried' = retried, TypeOf(s) = TypeOf(runs[id]),
             s.run_count = runs[id].run_count, s.resuming = runs[id].resuming
      PROVE  RetriesInv'
  <2>1. id \in Runs /\ retried' = [retried EXCEPT ![id] = retried[id]]
    BY <1>1, <1>4 DEF TypeOK, Rows
  <2>2. Budget(s, retried[id])
    BY <1>2, <1>4 DEF Budget
  <2> QED BY <1>3, <1>4, <2>1, <2>2
<1>5. ASSUME NEW id \in Runs, CreateFlowRun(id) PROVE RetriesInv'
  <2>1. PICK p \in InitialStates :
          runs' = [runs EXCEPT ![id] =
                     RunAfter("minimal", NewRun(id), p, limit,
                              Verdict("minimal", NewRun(id), p, limit))]
    BY <1>5 DEF CreateFlowRun
  <2> DEFINE v == Verdict("minimal", NewRun(id), p, limit)
             s == RunAfter("minimal", NewRun(id), p, limit, v)
  <2>2. /\ p \in State /\ p.type # "PAUSED" /\ "minimal" \in Policies
        /\ NewRun(id) \in FlowRun /\ limit \in ConcurrencyLimit
    BY <1>1, OrchestrationAssumption, NewRunType DEF Policies, TypeOK
  <2>3. Budget(NewRun(id), 0)
    <3>1. Retries \in Nat \cup {None}
      BY RulesAssumption
    <3>2. TypeOf(NewRun(id)) = None /\ None \notin {"RUNNING", "PAUSED"}
      BY NewRunType, RulesAssumption DEF TypeOf, StateTypes
    <3>3. NewRun(id).run_count = 0 /\ ~NewRun(id).resuming
      BY DEF NewRun
    <3> QED BY <3>1, <3>2, <3>3 DEF Budget
  <2>4. ~(v.status = "REJECT" /\ v.state # NoState /\ v.state.name = "AwaitingRetry")
    BY <2>2, GrantVerdict
  <2>5. Budget(s, 0)
    BY <2>2, <2>3, <2>4, BudgetAfter
  <2> HIDE DEF s
  <2> QED BY <1>3, <1>5, <2>1, <2>5 DEF CreateFlowRun, s
<1>6. ASSUME NEW id \in Runs, NEW p \in State, NEW policy \in Policies,
             SetFlowRunState(id, p, policy),
             policy \in {"late", "minimal"} => p.type # "PAUSED"
      PROVE  RetriesInv'
  <2> DEFINE v == Verdict(policy, runs[id], p, limit)
             s == RunAfter(policy, runs[id], p, limit, v)
             n == IF v.status = "REJECT" /\ v.state # NoState
                     /\ v.state.name = "AwaitingRetry"
                    THEN retried[id] + 1 ELSE retried[id]
  <2>1. /\ id \in Rows /\ runs[id] \in FlowRun /\ limit \in ConcurrencyLimit
        /\ retried[id] \in Nat /\ Budget(runs[id], retried[id])
    BY <1>1, <1>2, <1>6, RowType DEF SetFlowRunState, TypeOK
  <2>2. Budget(s, n)
    BY <1>6, <2>1, BudgetAfter
  <2>3. runs' = [runs EXCEPT ![id] = s]
    BY <1>6 DEF SetFlowRunState
  <2>4. retried' = [retried EXCEPT ![id] = n]
    BY <1>1, <1>6 DEF SetFlowRunState, TypeOK
  <2> HIDE DEF s, n
  <2> QED BY <1>3, <2>2, <2>3, <2>4
<1>7. ASSUME NEW id \in Runs,
             \/ ClientRequest(id) \/ ResumeFlowRun(id)
             \/ MarkFlowRunAsLate(id) \/ FailExpiredPause(id)
      PROVE  RetriesInv'
  <2>1. PICK p \in State, policy \in Policies :
          /\ SetFlowRunState(id, p, policy)
          /\ policy \in ClientPolicies \cup {"late", "minimal"}
          /\ policy = "late" => p = Scheduled("Late", "past")
          /\ policy = "minimal" => ForceAllowed \/ p = Plain("FAILED")
    BY <1>1, <1>7, RequestCases
  <2>2. Scheduled("Late", "past").type # "PAUSED" /\ Plain("FAILED").type # "PAUSED"
    BY WrittenFields
  <2> QED BY <1>6, <2>1, <2>2
<1>8. ASSUME NEW id \in Runs, UpdateInfrastructurePid(id) PROVE RetriesInv'
  <2> DEFINE s == [runs[id] EXCEPT !.infrastructure_pid = TRUE]
  <2>1. id \in Rows /\ runs[id] \in FlowRun
    BY <1>1, <1>8, RowType DEF UpdateInfrastructurePid
  <2>2. runs' = [runs EXCEPT ![id] = s] /\ retried' = retried
    BY <1>8 DEF UpdateInfrastructurePid
  <2>3. /\ TypeOf(s) = TypeOf(runs[id]) /\ s.run_count = runs[id].run_count
        /\ s.resuming = runs[id].resuming
    BY <2>1 DEF FlowRun, TypeOf
  <2> HIDE DEF s
  <2> QED BY <1>4, <2>1, <2>2, <2>3
<1>9. ASSUME NEW id \in Runs, ClockPasses(id) PROVE RetriesInv'
  <2> DEFINE e == Elapsed(runs[id].state)
             s == [runs[id] EXCEPT !.state = e]
  <2>1. /\ id \in Rows /\ runs[id] \in FlowRun
        /\ runs[id].state \in State /\ runs[id].state # NoState
    BY <1>1, <1>9, RowType DEF ClockPasses, FlowRun
  <2>2. e \in State /\ e.type = runs[id].state.type
    BY <2>1 DEF Elapsed, State, Times
  <2>3. e # NoState
    BY <2>2, RulesAssumption
  <2>4. runs' = [runs EXCEPT ![id] = s] /\ retried' = retried
    BY <1>9 DEF ClockPasses
  <2> HIDE DEF e
  <2>5. /\ s.state = e /\ s.run_count = runs[id].run_count
        /\ s.resuming = runs[id].resuming
    BY <2>1 DEF FlowRun
  <2>6. TypeOf(s) = TypeOf(runs[id])
    BY <2>1, <2>2, <2>3, <2>5 DEF TypeOf
  <2> HIDE DEF s
  <2> QED BY <1>4, <2>1, <2>4, <2>5, <2>6
<1>10. ASSUME NEW id \in Runs, DeleteFlowRun(id) PROVE RetriesInv'
  <2>1. /\ runs' = [runs EXCEPT ![id] = None]
        /\ retried' = [retried EXCEPT ![id] = retried[id]]
    BY <1>1, <1>10 DEF DeleteFlowRun, TypeOK
  <2> QED BY <1>3, <2>1
<1>11. CASE runs' = runs /\ retried' = retried
  BY <1>1, <1>2, <1>11 DEF RetriesInv, Rows, Budget, TypeOf
<1> QED
  BY <1>5, <1>7, <1>8, <1>9, <1>10, <1>11
     DEF Next, vars, UpdateDeploymentLimit

\* A run is retried in process at most `retries` times over its whole life,
\* however its pauses, resumptions, reruns and cancellations interleave, as
\* long as no client forces a transition and none creates a paused run.
THEOREM RetriesAreBounded ==
  ASSUME ForceAllowed = FALSE, \A p \in InitialStates : p.type # "PAUSED"
  PROVE  Spec => []RetriesBounded
<1>1. Init => RetriesInv
  BY TypeInit DEF Init, RetriesInv, Rows
<1>2. RetriesInv /\ [Next]_vars => RetriesInv'
  BY RetriesStep
<1>3. RetriesInv => RetriesBounded
  BY DEF RetriesInv, RetriesBounded, Budget
<1> QED
  BY <1>1, <1>2, <1>3, PTL DEF Spec

-----------------------------------------------------------------------------
(* What a session knows and what it writes.                                *)

\* What holds of every cached row: it belongs to the deployment its run
\* belongs to, and it was paused unless it is to be deleted.
CachedRowsOK ==
  \A s \in Sessions : Open(s) =>
    /\ session[s].row.deployment <=> session[s].id \in Deployed
    /\ session[s].op # "delete" => TypeOf(session[s].row) = "PAUSED"

DeploymentsKept == \A id \in Rows : runs[id].deployment <=> id \in Deployed

\* What is flushed is a flow run of the same deployment; its state is the one
\* the session decided on, if it decided.
LEMMA FlushedType ==
  ASSUME NEW row \in FlowRun, NEW cached \in FlowRun, NEW after \in FlowRun
  PROVE  /\ Flushed(row, cached, after) \in FlowRun
         /\ Flushed(row, cached, after).deployment = row.deployment
         /\ Flushed(row, cached, after).state =
              IF cached.state = after.state THEN row.state ELSE after.state
<1> DEFINE Policy(r) == <<r.resuming, r.pause_keys, r.retry_type>>
           policy == IF Policy(cached) = Policy(after) THEN Policy(row)
                                                       ELSE Policy(after)
           st == IF cached.state = after.state THEN row.state ELSE after.state
           n == IF cached.run_count = after.run_count THEN row.run_count
                                                      ELSE after.run_count
<1>1. /\ policy[1] \in BOOLEAN /\ policy[2] \in SUBSET Keys
      /\ policy[3] \in {None, "in_process", "reschedule"}
  BY DEF FlowRun
<1>2. st \in State \cup {NoState} /\ n \in Nat
  BY DEF FlowRun
<1>3. Flushed(row, cached, after) =
        [row EXCEPT !.state = st, !.run_count = n, !.resuming = policy[1],
                    !.pause_keys = policy[2], !.retry_type = policy[3]]
  BY DEF Flushed
<1> HIDE DEF policy, st, n
<1>4. /\ Flushed(row, cached, after) \in FlowRun
      /\ Flushed(row, cached, after).deployment = row.deployment
      /\ Flushed(row, cached, after).state = st
  BY <1>1, <1>2, <1>3 DEF FlowRun
<1> QED
  BY <1>4 DEF st

\* A session that sets a state knows a run that was paused.
LEMMA CachedRowType ==
  ASSUME SessionTypeOK, CachedRowsOK, NEW s \in Sessions, Open(s),
         session[s].op # "delete", NEW cached \in CachedRows(s)
  PROVE  /\ cached \in FlowRun /\ TypeOf(cached) = "PAUSED"
         /\ cached.deployment <=> session[s].id \in Deployed
         /\ TypeOf(session[s].row) = "PAUSED"
<1> DEFINE row == session[s].row
           e == Elapsed(row.state)
<1>1. /\ row \in FlowRun /\ TypeOf(row) = "PAUSED"
      /\ row.deployment <=> session[s].id \in Deployed
  BY DEF SessionTypeOK, CachedRowsOK, Open
<1>2. row.state \in State /\ row.state # NoState /\ row.state.type = "PAUSED"
  <2>1. "PAUSED" # None
    BY RulesAssumption DEF StateTypes
  <2> HIDE DEF row
  <2> QED BY <1>1, <2>1 DEF FlowRun, TypeOf
<1>3. e \in State /\ e.type = "PAUSED"
  <2> DEFINE state == row.state
  <2>1. state \in State /\ state.type = "PAUSED"
    BY <1>2
  <2> HIDE DEF state
  <2>2. Elapsed(state) \in State /\ Elapsed(state).type = "PAUSED"
    BY <2>1 DEF Elapsed, State, Times
  <2> QED BY <2>2 DEF state
<1>4. cached = row \/ cached = [row EXCEPT !.state = e]
  BY DEF CachedRows
<1> HIDE DEF e, row
<1>5. CASE cached = row
  BY <1>1, <1>5 DEF row
<1>6. CASE cached = [row EXCEPT !.state = e]
  <2>1. /\ cached \in FlowRun /\ cached.state = e
        /\ cached.deployment = row.deployment
    BY <1>1, <1>3, <1>6 DEF FlowRun
  <2> QED BY <1>1, <1>3, <2>1, RulesAssumption DEF TypeOf, row
<1> QED
  BY <1>4, <1>5, <1>6

\* Both operations that set a state from a cached row are of this form.
LEMMA CacheCases ==
  ASSUME SessionTypeOK, CachedRowsOK, NEW s \in Sessions,
         FailCachedPause(s) \/ ResumeCachedRun(s)
  PROVE  \E cached \in FlowRun, p \in State, policy \in Policies :
           /\ SetStateFromCache(s, cached, p, policy)
           /\ TypeOf(cached) \notin SlotStates
           /\ cached.deployment <=> session[s].id \in Deployed
           /\ TypeOf(session[s].row) \notin SlotStates
<1>1. Open(s) /\ session[s].op # "delete"
  BY DEF FailCachedPause, ResumeCachedRun
<1>2. \A cached \in CachedRows(s) :
        /\ cached \in FlowRun /\ TypeOf(cached) \notin SlotStates
        /\ cached.deployment <=> session[s].id \in Deployed
        /\ TypeOf(session[s].row) \notin SlotStates
  BY <1>1, CachedRowType DEF SlotStates
<1>3. /\ Plain("FAILED") \in State /\ Plain("RUNNING") \in State
      /\ Scheduled("Resuming", "past") \in State
  BY WrittenStatesType DEF StateTypes, Names, Times
<1>4. "minimal" \in Policies /\ ClientPolicies \subseteq Policies
  BY OrchestrationAssumption DEF Policies
<1>5. CASE FailCachedPause(s)
  BY <1>2, <1>3, <1>4, <1>5 DEF FailCachedPause
<1>6. CASE ResumeCachedRun(s)
  BY <1>2, <1>3, <1>4, <1>6 DEF ResumeCachedRun
<1> QED
  BY <1>5, <1>6

\* What setting a state from a cached row does to the rows.
LEMMA CacheWrites ==
  ASSUME SessionTypeOK, NEW s \in Sessions, NEW cached \in FlowRun,
         NEW p \in State, NEW policy \in Policies, Open(s),
         SetStateFromCache(s, cached, p, policy),
         TypeOf(cached) \notin SlotStates
  PROVE  LET id == session[s].id
         IN  /\ id \in Rows /\ limit' \in ConcurrencyLimit
             /\ limit'.active = limit.active /\ limit'.limit = limit.limit
             /\ \E row \in FlowRun :
                  /\ runs' = [runs EXCEPT ![id] = row]
                  /\ row.deployment = runs[id].deployment
                  /\ \/ limit'.active_slots <= limit.active_slots
                     \/ /\ limit'.active_slots = limit.active_slots + 1
                        /\ limit.limit # None
                        /\ cached.deployment /\ TypeOf(row) = "PENDING"
<1> DEFINE id == session[s].id
           v == Verdict(policy, cached, p, limit)
           final == v.state
           after == RunAfter(policy, cached, p, limit, v)
           row == Flushed(runs[id], cached, after)
           l == limit
           m == LimitAfter(policy, cached, p, l, final)
<1>1. /\ id \in Rows /\ runs' = [runs EXCEPT ![id] = row] /\ limit' = m
  <2> SUFFICES /\ id \in Rows
               /\ runs' = [runs EXCEPT ![id] = Flushed(runs[id], cached, after)]
               /\ limit' = LimitAfter(policy, cached, p, limit, v.state)
    OBVIOUS
  <2> QED BY DEF SetStateFromCache
<1>2. runs[id] \in FlowRun /\ l \in ConcurrencyLimit
  BY <1>1, RowType DEF SessionTypeOK, TypeOK
<1>3. final \in State \cup {NoState}
  BY <1>2, VerdictState
<1>4. after \in FlowRun /\ after.state = IF final = NoState THEN cached.state ELSE final
  BY <1>2, <1>3, RunAfterType
<1>5. /\ row \in FlowRun /\ row.deployment = runs[id].deployment
      /\ row.state = IF cached.state = after.state THEN runs[id].state ELSE after.state
  <2> HIDE DEF after, id
  <2> QED BY <1>2, <1>4, FlushedType
<1> HIDE DEF id, v, final, after, row, l, m
<1>6. /\ m \in ConcurrencyLimit /\ m.active = l.active /\ m.limit = l.limit
      /\ \/ /\ m = [l EXCEPT !.active_slots = @ + 1] /\ l.limit # None
            /\ cached.deployment /\ final # NoState /\ final.type = "PENDING"
         \/ m.active_slots <= l.active_slots
  BY <1>2, <1>3, LimitAfterCases DEF m
<1>7. CASE m.active_slots <= l.active_slots
  BY <1>1, <1>5, <1>6, <1>7 DEF id, l
<1>8. CASE /\ m = [l EXCEPT !.active_slots = @ + 1] /\ l.limit # None
           /\ cached.deployment /\ final # NoState /\ final.type = "PENDING"
  <2>1. m.active_slots = l.active_slots + 1
    BY <1>2, <1>8 DEF ConcurrencyLimit
  <2>2. after.state = final /\ final # NoState /\ final.type = "PENDING"
    BY <1>4, <1>8
  <2>3. cached.state # final
    BY <2>2 DEF TypeOf, SlotStates
  <2>4. TypeOf(row) = "PENDING"
    BY <1>5, <2>2, <2>3 DEF TypeOf
  <2> QED BY <1>1, <1>5, <1>6, <1>8, <2>1, <2>4 DEF id, l
<1> QED
  BY <1>6, <1>7, <1>8

-----------------------------------------------------------------------------
(* Type correctness.                                                       *)

\* The step of a session leaves well-formed rows and sessions.
LEMMA SessionTypeStep ==
  SessionTypeOK /\ CachedRowsOK /\ [SessionNext]_sessionVars => SessionTypeOK'
<1> SUFFICES ASSUME SessionTypeOK, CachedRowsOK, [SessionNext]_sessionVars
             PROVE  SessionTypeOK'
  OBVIOUS
<1>1. CASE UNCHANGED sessionVars
  BY <1>1 DEF sessionVars, vars, SessionTypeOK, TypeOK
<1>2. CASE Next /\ UNCHANGED <<session, overtaken>>
  BY <1>2, TypeStep DEF SessionTypeOK
<1>3. ASSUME NEW s \in Sessions, Act(s) PROVE
        /\ session' \in [Sessions -> {None} \cup
                           [op : Operations, id : Runs, row : FlowRun]]
        /\ overtaken' \in Nat
  BY <1>3 DEF Act, Close, SessionTypeOK
<1>4. ASSUME NEW s \in Sessions, ReadRun(s) PROVE SessionTypeOK'
  <2>1. PICK id \in Rows, op \in Operations :
          session' = [session EXCEPT ![s] = [op |-> op, id |-> id, row |-> runs[id]]]
    BY <1>4 DEF ReadRun
  <2>2. id \in Runs /\ runs[id] \in FlowRun
    BY RowType DEF SessionTypeOK
  <2>3. UNCHANGED <<vars, overtaken>>
    BY <1>4 DEF ReadRun
  <2> QED BY <2>1, <2>2, <2>3 DEF SessionTypeOK, TypeOK, vars
<1>5. ASSUME NEW s \in Sessions, NothingToDo(s) PROVE SessionTypeOK'
  BY <1>5 DEF NothingToDo, Close, SessionTypeOK, TypeOK, vars
<1>6. ASSUME NEW s \in Sessions, FailCachedPause(s) \/ ResumeCachedRun(s)
      PROVE  SessionTypeOK'
  <2>1. PICK cached \in FlowRun, p \in State, policy \in Policies :
          /\ SetStateFromCache(s, cached, p, policy)
          /\ TypeOf(cached) \notin SlotStates
    BY <1>6, CacheCases
  <2>2. Open(s) /\ Act(s) /\ retried' = retried
    BY <1>6, <2>1 DEF SetStateFromCache, FailCachedPause, ResumeCachedRun
  <2>3. /\ limit' \in ConcurrencyLimit /\ limit'.active = limit.active
        /\ \E row \in FlowRun : runs' = [runs EXCEPT ![session[s].id] = row]
    BY <2>1, <2>2, CacheWrites
  <2> QED BY <1>3, <2>2, <2>3 DEF SessionTypeOK, TypeOK
<1>7. ASSUME NEW s \in Sessions, DeleteCachedRun(s) PROVE SessionTypeOK'
  <2>1. limit \in ConcurrencyLimit /\ limit.active
    BY DEF SessionTypeOK, TypeOK
  <2>2. limit' \in ConcurrencyLimit /\ limit'.active
    BY <1>7, <2>1, DecrementType DEF DeleteCachedRun
  <2> QED BY <1>3, <1>7, <2>2 DEF DeleteCachedRun, SessionTypeOK, TypeOK
<1> QED
  BY <1>1, <1>2, <1>4, <1>5, <1>6, <1>7 DEF SessionNext, Next

\* No request moves a run to another deployment.
LEMMA DeploymentsStep ==
  TypeOK /\ DeploymentsKept /\ [Next]_vars => DeploymentsKept'
<1> SUFFICES ASSUME TypeOK, DeploymentsKept, [Next]_vars PROVE DeploymentsKept'
  OBVIOUS
<1>1. ASSUME NEW id \in Runs, NEW row \in FlowRun \cup {None},
             runs' = [runs EXCEPT ![id] = row],
             row # None => (row.deployment <=> id \in Deployed)
      PROVE  DeploymentsKept'
  BY <1>1 DEF DeploymentsKept, Rows, TypeOK
<1>2. CASE runs' = runs
  BY <1>2 DEF DeploymentsKept, Rows
<1>3. ASSUME NEW id \in Runs, CreateFlowRun(id) PROVE DeploymentsKept'
  <2>1. PICK p \in InitialStates :
          runs' = [runs EXCEPT ![id] =
                     RunAfter("minimal", NewRun(id), p, limit,
                              Verdict("minimal", NewRun(id), p, limit))]
    BY <1>3 DEF CreateFlowRun
  <2> DEFINE row == RunAfter("minimal", NewRun(id), p, limit,
                             Verdict("minimal", NewRun(id), p, limit))
  <2>2. p \in State /\ "minimal" \in Policies /\ NewRun(id) \in FlowRun
    BY OrchestrationAssumption, NewRunType DEF Policies
  <2>3. row \in FlowRun /\ row.deployment = NewRun(id).deployment
    BY <2>2, VerdictState, RunAfterType DEF TypeOK
  <2>4. NewRun(id).deployment <=> id \in Deployed
    BY DEF NewRun
  <2> HIDE DEF row
  <2>5. row.deployment <=> id \in Deployed
    BY <2>3, <2>4
  <2>6. runs' = [runs EXCEPT ![id] = row]
    BY <2>1 DEF row
  <2> QED BY <1>1, <2>3, <2>5, <2>6
<1>4. ASSUME NEW id \in Runs,
             \/ ClientRequest(id) \/ ResumeFlowRun(id)
             \/ MarkFlowRunAsLate(id) \/ FailExpiredPause(id)
      PROVE  DeploymentsKept'
  <2>1. PICK p \in State, policy \in Policies : SetFlowRunState(id, p, policy)
    BY <1>4, RequestCases
  <2> DEFINE r == runs[id]
             v == Verdict(policy, r, p, limit)
             row == RunAfter(policy, r, p, limit, v)
  <2>2. id \in Rows /\ r \in FlowRun /\ runs' = [runs EXCEPT ![id] = row]
    BY <2>1, RowType DEF SetFlowRunState
  <2>3. v.state \in State \cup {NoState}
    BY <2>2, VerdictState DEF TypeOK
  <2>4. row \in FlowRun /\ row.deployment = r.deployment
    <3> HIDE DEF v, r
    <3> QED BY <2>2, <2>3, RunAfterType DEF TypeOK
  <2> HIDE DEF row, v
  <2> QED BY <1>1, <2>2, <2>4 DEF DeploymentsKept
<1>5. ASSUME NEW id \in Runs, UpdateInfrastructurePid(id) PROVE DeploymentsKept'
  <2> DEFINE row == [runs[id] EXCEPT !.infrastructure_pid = TRUE]
  <2>1. id \in Rows /\ row \in FlowRun /\ row.deployment = runs[id].deployment
    BY <1>5, RowType DEF UpdateInfrastructurePid, FlowRun
  <2>2. runs' = [runs EXCEPT ![id] = row]
    BY <1>5 DEF UpdateInfrastructurePid
  <2> HIDE DEF row
  <2> QED BY <1>1, <2>1, <2>2 DEF DeploymentsKept
<1>6. ASSUME NEW id \in Runs, ClockPasses(id) PROVE DeploymentsKept'
  <2> DEFINE e == Elapsed(runs[id].state)
             row == [runs[id] EXCEPT !.state = e]
  <2>1. id \in Rows /\ runs[id] \in FlowRun /\ runs[id].state \in State
    BY <1>6, RowType DEF ClockPasses, FlowRun
  <2>2. e \in State
    BY <2>1 DEF Elapsed, State, Times
  <2>3. runs' = [runs EXCEPT ![id] = row]
    BY <1>6 DEF ClockPasses
  <2> HIDE DEF e
  <2>4. row \in FlowRun /\ row.deployment = runs[id].deployment
    BY <2>1, <2>2 DEF FlowRun
  <2> HIDE DEF row
  <2> QED BY <1>1, <2>1, <2>3, <2>4 DEF DeploymentsKept
<1>7. ASSUME NEW id \in Runs, DeleteFlowRun(id) PROVE DeploymentsKept'
  BY <1>1, <1>7 DEF DeleteFlowRun
<1>8. CASE UNCHANGED vars \/ \E n \in Limits : UpdateDeploymentLimit(n)
  BY <1>2, <1>8 DEF UpdateDeploymentLimit, vars
<1> QED
  BY <1>3, <1>4, <1>5, <1>6, <1>7, <1>8 DEF Next

\* Cached rows stay what they were, and runs stay with their deployment.
LEMMA CachedRowsStep ==
  SessionTypeOK /\ CachedRowsOK /\ DeploymentsKept /\ [SessionNext]_sessionVars
    => CachedRowsOK' /\ DeploymentsKept'
<1> SUFFICES ASSUME SessionTypeOK, CachedRowsOK, DeploymentsKept,
                    [SessionNext]_sessionVars
             PROVE  CachedRowsOK' /\ DeploymentsKept'
  OBVIOUS
<1>1. ASSUME NEW id \in Runs, NEW row \in FlowRun \cup {None},
             runs' = [runs EXCEPT ![id] = row],
             row # None => (row.deployment <=> id \in Deployed)
      PROVE  DeploymentsKept'
  BY <1>1 DEF DeploymentsKept, Rows, SessionTypeOK, TypeOK
<1>2. session' = session => CachedRowsOK'
  BY DEF CachedRowsOK, Open
<1>3. ASSUME NEW s \in Sessions, Close(s) PROVE CachedRowsOK'
  BY <1>3 DEF Close, CachedRowsOK, Open, SessionTypeOK
<1>4. runs' = runs => DeploymentsKept'
  BY DEF DeploymentsKept, Rows
<1>5. CASE UNCHANGED sessionVars
  BY <1>2, <1>4, <1>5 DEF sessionVars, vars
<1>6. CASE Next /\ UNCHANGED <<session, overtaken>>
  BY <1>2, <1>6, DeploymentsStep DEF SessionTypeOK
<1>7. ASSUME NEW s \in Sessions, ReadRun(s) PROVE CachedRowsOK' /\ DeploymentsKept'
  <2>1. PICK id \in Rows, op \in Operations :
          /\ op # "delete" => TypeOf(runs[id]) = "PAUSED"
          /\ session' = [session EXCEPT
                           ![s] = [op |-> op, id |-> id, row |-> runs[id]]]
    BY <1>7 DEF ReadRun
  <2>2. runs[id].deployment <=> id \in Deployed
    BY DEF DeploymentsKept
  <2>3. CachedRowsOK'
    BY <2>1, <2>2 DEF CachedRowsOK, Open, SessionTypeOK
  <2> QED BY <1>4, <1>7, <2>3 DEF ReadRun, vars
<1>8. ASSUME NEW s \in Sessions, NothingToDo(s) PROVE CachedRowsOK' /\ DeploymentsKept'
  BY <1>3, <1>4, <1>8 DEF NothingToDo, vars
<1>9. ASSUME NEW s \in Sessions, FailCachedPause(s) \/ ResumeCachedRun(s)
      PROVE  CachedRowsOK' /\ DeploymentsKept'
  <2>1. PICK cached \in FlowRun, p \in State, policy \in Policies :
          /\ SetStateFromCache(s, cached, p, policy)
          /\ TypeOf(cached) \notin SlotStates
    BY <1>9, CacheCases
  <2>2. Open(s) /\ Close(s)
    BY <1>9, <2>1 DEF SetStateFromCache, Act, FailCachedPause, ResumeCachedRun
  <2>3. PICK row \in FlowRun :
          /\ runs' = [runs EXCEPT ![session[s].id] = row]
          /\ row.deployment = runs[session[s].id].deployment
    BY <2>1, <2>2, CacheWrites
  <2>4. session[s].id \in Rows
    BY <2>1, <2>2, CacheWrites
  <2>5. DeploymentsKept'
    BY <1>1, <2>3, <2>4 DEF DeploymentsKept, Rows
  <2> QED BY <1>3, <2>2, <2>5
<1>10. ASSUME NEW s \in Sessions, DeleteCachedRun(s)
       PROVE  CachedRowsOK' /\ DeploymentsKept'
  <2>1. Close(s) /\ runs' = [runs EXCEPT ![session[s].id] = None]
        /\ session[s].id \in Runs
    BY <1>10 DEF DeleteCachedRun, Act, Open, SessionTypeOK
  <2> QED BY <1>1, <1>3, <2>1
<1> QED
  BY <1>5, <1>6, <1>7, <1>8, <1>9, <1>10 DEF SessionNext, Next

SessionInv == SessionTypeOK /\ CachedRowsOK /\ DeploymentsKept

\* What the steps of the sessions rely on holds initially ...
LEMMA SessionInvInit == SessionInit => SessionInv
<1> SUFFICES ASSUME SessionInit PROVE SessionInv
  OBVIOUS
<1>1. TypeOK
  BY TypeInit DEF SessionInit
<1>2. Rows = {}
  BY DEF SessionInit, Init, Rows
<1> QED
  BY <1>1, <1>2
     DEF SessionInv, SessionTypeOK, CachedRowsOK, DeploymentsKept, SessionInit, Open

\* ... and after every step.
LEMMA SessionInvStep == SessionInv /\ [SessionNext]_sessionVars => SessionInv'
BY SessionTypeStep, CachedRowsStep DEF SessionInv

\* The rows stay well formed although sessions write columns of rows that are
\* no longer current.
THEOREM SessionsTypeCorrect == SessionSpec => []SessionTypeOK
<1>1. SessionInv => SessionTypeOK
  BY DEF SessionInv
<1> QED
  BY <1>1, SessionInvInit, SessionInvStep, PTL DEF SessionSpec

-----------------------------------------------------------------------------
(* What old rows cost.                                                     *)

LimitCounted ==
  /\ LostSlotsCounted
  /\ limit.limit = None => limit.active_slots = 0

\* The step of a session loses a slot only if it counts it.
LEMMA CacheSlots ==
  ASSUME SessionInv, LimitCounted, NEW s \in Sessions,
         FailCachedPause(s) \/ ResumeCachedRun(s)
  PROVE  LimitCounted'
<1> DEFINE id == session[s].id
           N == Cardinality(Holders)
           M == Cardinality(Holders')
<1>1. PICK cached \in FlowRun, p \in State, policy \in Policies :
        /\ SetStateFromCache(s, cached, p, policy)
        /\ TypeOf(cached) \notin SlotStates
        /\ cached.deployment <=> session[s].id \in Deployed
        /\ TypeOf(session[s].row) \notin SlotStates
  BY CacheCases DEF SessionInv
<1>2. Open(s) /\ Act(s)
  BY <1>1 DEF SetStateFromCache, FailCachedPause, ResumeCachedRun
<1>3. /\ id \in Rows /\ limit'.limit = limit.limit /\ limit' \in ConcurrencyLimit
      /\ \E row \in FlowRun :
           /\ runs' = [runs EXCEPT ![id] = row]
           /\ row.deployment = runs[id].deployment
           /\ \/ limit'.active_slots <= limit.active_slots
              \/ /\ limit'.active_slots = limit.active_slots + 1
                 /\ limit.limit # None
                 /\ cached.deployment /\ TypeOf(row) = "PENDING"
  BY <1>1, <1>2, CacheWrites DEF SessionInv
<1>4. PICK row \in FlowRun :
        /\ runs' = [runs EXCEPT ![id] = row]
        /\ row.deployment = runs[id].deployment
        /\ \/ limit'.active_slots <= limit.active_slots
           \/ /\ limit'.active_slots = limit.active_slots + 1
              /\ limit.limit # None
              /\ cached.deployment /\ TypeOf(row) = "PENDING"
  BY <1>3
<1>5. /\ limit.active_slots \in Nat /\ limit'.active_slots \in Nat
      /\ overtaken \in Nat
      /\ overtaken' = IF id \in Holders THEN overtaken + 1 ELSE overtaken
  BY <1>1, <1>2, <1>3 DEF SessionInv, SessionTypeOK, TypeOK, ConcurrencyLimit, Act
<1>6. /\ N \in Nat /\ (id \in Holders <=> Holds(runs[id]))
      /\ M = IF Holds(row) /\ ~Holds(runs[id]) THEN N + 1
             ELSE IF ~Holds(row) /\ Holds(runs[id]) THEN N - 1 ELSE N
  <2>1. TypeOK /\ id \in Runs
    BY <1>3 DEF SessionInv, SessionTypeOK, Rows
  <2> HIDE DEF id, Holds
  <2> QED BY <1>4, <2>1, HoldersStep
<1>7. limit.active_slots <= N + overtaken
  BY DEF LimitCounted, LostSlotsCounted
<1>8. limit'.active_slots <= M + overtaken'
  <2>1. CASE limit'.active_slots <= limit.active_slots
    <3> HIDE DEF id, N, M, Holds
    <3> QED BY <1>5, <1>6, <1>7, <2>1
  <2>2. CASE /\ limit'.active_slots = limit.active_slots + 1
             /\ cached.deployment /\ TypeOf(row) = "PENDING"
    <3>1. Holds(row)
      BY <1>1, <1>3, <1>4, <2>2, RulesAssumption
         DEF Holds, SlotStates, SessionInv, DeploymentsKept
    <3> HIDE DEF id, N, M, Holds
    <3> QED BY <1>5, <1>6, <1>7, <2>2, <3>1
  <2> QED BY <1>4, <2>1, <2>2
<1>9. limit'.limit = None => limit'.active_slots = 0
  BY <1>3, <1>4, <1>5 DEF LimitCounted
<1> QED
  BY <1>8, <1>9 DEF LimitCounted, LostSlotsCounted

\* Nor does a deletion lose one that it does not count.
LEMMA DeleteSlots ==
  ASSUME SessionInv, LimitCounted, NEW s \in Sessions, DeleteCachedRun(s)
  PROVE  LimitCounted'
<1> DEFINE id == session[s].id
           row == session[s].row
           N == Cardinality(Holders)
           M == Cardinality(Holders')
<1>1. /\ Open(s) /\ Act(s) /\ runs' = [runs EXCEPT ![id] = None]
      /\ id \in Runs /\ row \in FlowRun /\ (row.deployment <=> id \in Deployed)
      /\ limit \in ConcurrencyLimit /\ limit.active /\ TypeOK
      /\ overtaken \in Nat /\ limit.active_slots \in Nat
  BY DEF DeleteCachedRun, SessionInv, SessionTypeOK, TypeOK, CachedRowsOK, Open,
         ConcurrencyLimit
<1>2. limit' = IF row.deployment /\ TypeOf(row) \in SlotStates
                 THEN Decrement(limit) ELSE limit
  BY DEF DeleteCachedRun
<1>3. overtaken' = IF id \in Holders /\ TypeOf(row) \notin SlotStates
                     THEN overtaken + 1 ELSE overtaken
  BY <1>1 DEF Act
<1>4. /\ N \in Nat /\ M = IF id \in Holders THEN N - 1 ELSE N
      /\ IsFiniteSet(Holders)
  <2>1. ~Holds(None)
    BY DEF Holds
  <2> HIDE DEF id, Holds
  <2> QED BY <1>1, <2>1, HoldersStep
<1>5. id \in Holders => row.deployment
  BY <1>1 DEF SessionInv, DeploymentsKept, Holders
<1>6. /\ limit.active_slots <= N + overtaken
      /\ limit.limit = None => limit.active_slots = 0
  BY DEF LimitCounted, LostSlotsCounted
<1>7. id \in Holders => N >= 1
  <2>1. id \in Holders => N # 0
    BY <1>4, FS_EmptySet
  <2> QED BY <1>4, <2>1
<1>8. /\ Decrement(limit).limit = limit.limit
      /\ Decrement(limit).active_slots \in Nat
      /\ Decrement(limit).active_slots <= limit.active_slots
      /\ limit.active_slots > 0
           => Decrement(limit).active_slots = limit.active_slots - 1
  BY <1>1, <1>6, DecrementType DEF ConcurrencyLimit
<1> HIDE DEF id, row, N, M
<1>9. limit'.active_slots <= M + overtaken'
  <2>1. CASE row.deployment /\ TypeOf(row) \in SlotStates
    BY <1>1, <1>2, <1>3, <1>4, <1>6, <1>7, <1>8, <2>1
  <2>2. CASE ~(row.deployment /\ TypeOf(row) \in SlotStates)
    BY <1>1, <1>2, <1>3, <1>4, <1>5, <1>6, <2>2
  <2> QED BY <2>1, <2>2
<1>10. limit'.limit = None => limit'.active_slots = 0
  BY <1>1, <1>2, <1>6, <1>8
<1> QED
  BY <1>9, <1>10 DEF LimitCounted, LostSlotsCounted, M

\* However many sessions hold old rows, a slot is lost only by one that acts on
\* a run which took it since it was read, as long as every client uses the
\* current policy.
THEOREM OnlyOldRowsLoseSlots ==
  ASSUME "legacy" \notin ClientPolicies
  PROVE  SessionSpec => []LostSlotsCounted
<1>1. SessionInit => LimitCounted
  <2> SUFFICES ASSUME SessionInit PROVE LimitCounted
    OBVIOUS
  <2>1. limit.active_slots = 0 /\ overtaken = 0
    BY DEF SessionInit, Init, NoLimit
  <2>2. Cardinality(Holders) \in Nat
    BY HoldersFinite
  <2> QED BY <2>1, <2>2 DEF LimitCounted, LostSlotsCounted
<1>2. SessionInv /\ LimitCounted /\ [SessionNext]_sessionVars => LimitCounted'
  <2> SUFFICES ASSUME SessionInv, LimitCounted, [SessionNext]_sessionVars
               PROVE  LimitCounted'
    OBVIOUS
  <2>1. ASSUME [Next]_vars, overtaken' = overtaken PROVE LimitCounted'
    <3>1. TypeOK /\ overtaken \in Nat
      BY DEF SessionInv, SessionTypeOK
    <3>2. PICK k \in Nat : k = overtaken
      BY <3>1
    <3>3. AtMostLeaked(k)
      BY <3>2 DEF AtMostLeaked, LimitCounted, LostSlotsCounted
    <3>4. AtMostLeaked(k)'
      BY <2>1, <3>1, <3>3, SlotStep
    <3> QED BY <2>1, <3>2, <3>4 DEF AtMostLeaked, LimitCounted, LostSlotsCounted
  <2>2. ASSUME NEW s \in Sessions,
               \/ ReadRun(s) \/ NothingToDo(s) \/ FailCachedPause(s)
               \/ ResumeCachedRun(s) \/ DeleteCachedRun(s)
        PROVE  LimitCounted'
    <3>1. CASE ReadRun(s) \/ NothingToDo(s)
      BY <2>1, <3>1 DEF ReadRun, NothingToDo
    <3>2. CASE FailCachedPause(s) \/ ResumeCachedRun(s) \/ DeleteCachedRun(s)
      BY <3>2, CacheSlots, DeleteSlots
    <3> QED BY <2>2, <3>1, <3>2
  <2>3. CASE UNCHANGED sessionVars
    BY <2>1, <2>3 DEF sessionVars
  <2>4. CASE Next /\ UNCHANGED <<session, overtaken>>
    BY <2>1, <2>4
  <2> QED BY <2>2, <2>3, <2>4 DEF SessionNext, Next
<1>3. LimitCounted => LostSlotsCounted
  BY DEF LimitCounted
<1> QED
  BY <1>1, <1>2, <1>3, SessionInvInit, SessionInvStep, PTL DEF SessionSpec

-----------------------------------------------------------------------------
(* The lifecycle: what the server answers.                                 *)

\* The verdicts on a request that is not resent, with the reason for each.
CoreOutcome(r, p, v) ==
  \/ /\ v.status = "ACCEPT" /\ v.state \in State
     /\ v.state = [p EXCEPT !.scheduled_time = v.state.scheduled_time]
     /\ p.type = "PENDING" =>
          TypeOf(r) \notin {"PENDING", "CANCELLING", "RUNNING", "CANCELLED"}
     /\ p.type = "PAUSED" => TypeOf(r) = "RUNNING"
     /\ TypeOf(r) \in {"CANCELLED", "CANCELLING"} => p.type = "CANCELLED"
     /\ TypeOf(r) = "PAUSED" => r.state.pause_timeout # "past"
  \/ /\ v = Abort
     /\ \/ TypeOf(r) \in TERMINAL_STATES
           /\ p.type \in {"CANCELLING", "PAUSED", "CRASHED", "SCHEDULED"}
        \/ p.type \in {"PENDING", "PAUSED"}
  \/ /\ v = Reject(NoState)
     /\ \/ TypeOf(r) = "COMPLETED" /\ ~IsFinal(p)
        \/ TypeOf(r) \in {"CANCELLED", "CANCELLING"}
        \/ p.type \in {"SCHEDULED", "PAUSED"}
        \/ TypeOf(r) = "PAUSED" /\ ~(p.type \in {"RUNNING", "SCHEDULED"} \/ IsFinal(p))
        \/ TypeOf(r) = "PAUSED" /\ r.state.pause_reschedule
  \/ /\ v = Reject(Plain("CANCELLED"))
     /\ p.type \in {"CANCELLING", "PENDING"} /\ TypeOf(r) \notin SlotStates
  \/ /\ v = Reject(Scheduled("AwaitingConcurrencySlot", "future"))
     /\ p.type = "PENDING" /\ TypeOf(r) \notin SlotStates
  \/ /\ v = Reject(Plain("FAILED"))
     /\ TypeOf(r) = "PAUSED" /\ r.state.pause_timeout = "past"
     /\ p.type \in {"RUNNING", "SCHEDULED"} \cup TERMINAL_STATES
  \/ /\ v = Wait
     /\ TypeOf(r) \in {"SCHEDULED", "PENDING"} /\ p.type = "RUNNING"
  \/ /\ v = Granted
     /\ TypeOf(r) = "RUNNING" /\ p.type = "FAILED"

\* Every rule of a core policy that does not let a proposal pass has such a
\* reason; a rejection without one comes from PreventDuplicateTransitions only.
LEMMA CoreCases ==
  ASSUME NEW r \in FlowRun, NEW p \in State, NEW l \in ConcurrencyLimit,
         NEW policy \in {"core", "legacy"}, p.transition_id = None
  PROVE  CoreOutcome(r, p, Verdict(policy, r, p, l))
<1> DEFINE d1 == PreventDuplicateTransitions(r, p)
           d2 == HandleFlowTerminalStateTransitions(r, p)
           d3 == EnforceCancellingToCancelledTransition(r, p)
           d4 == BypassCancellingFlowRunsWithNoInfra(r, p)
           d5 == PreventPendingTransitions(r, p)
           d6 == If(policy = "core", SecureFlowConcurrencySlots(r, p, l))
           d7 == EnsureOnlyScheduledFlowsMarkedLate(r, p)
           d8 == HandlePausingFlows(r, p)
           d9 == HandleResumingPausedFlows(r, p)
           d10 == WaitForScheduledTime(r, p)
           d11 == RetryFailedFlows(r, p)
           c == CoreFlowPolicy(policy, r, p, l)
           T == TypeOf(r)
<1>1. \/ c = Pass /\ d1 = Pass /\ d2 = Pass /\ d3 = Pass /\ d4 = Pass /\ d5 = Pass
         /\ d6 = Pass /\ d7 = Pass /\ d8 = Pass /\ d9 = Pass /\ d10 = Pass /\ d11 = Pass
      \/ c # Pass /\ c \in {d1, d2, d3, d4, d5, d6, d7, d8, d9, d10, d11}
  <2> HIDE DEF d1, d2, d3, d4, d5, d6, d7, d8, d9, d10, d11
  <2>1. c = ((d1 ++ (d2 ++ (d3 ++ (d4 ++ d5)))) ++ (d6 ++ (d7 ++ d8)))
              ++ (d9 ++ (d10 ++ d11))
    BY DEF CoreFlowPolicy, CoreUpToPausing, CoreUpToSecuring,
           d1, d2, d3, d4, d5, d6, d7, d8, d9, d10, d11
  <2> HIDE DEF c
  <2> QED BY <2>1 DEF ++
<1>2. /\ Pass # Abort /\ Pass # Wait
      /\ \A x : Pass # Reject(x)
      /\ T \in StateTypes \cup {None}
      /\ T # None => r.state # NoState
  <2>1. T \in StateTypes \cup {None} /\ (T # None => r.state # NoState)
    BY DEF TypeOf, FlowRun, State
  <2> QED BY <2>1 DEF Pass, Abort, Wait, Reject
<1>3. d1 = Pass
  BY DEF PreventDuplicateTransitions, If
<1>4. /\ d2 \in {Pass, Abort, Reject(NoState)}
      /\ d2 = Abort => /\ T \in TERMINAL_STATES
                       /\ p.type \in {"CANCELLING", "PAUSED", "CRASHED", "SCHEDULED"}
      /\ d2 = Reject(NoState) => T = "COMPLETED" /\ ~IsFinal(p)
  <2>1. Abort # Reject(NoState)
    BY DEF Abort, Reject
  <2> QED BY <1>2, <2>1 DEF HandleFlowTerminalStateTransitions, If, ++
<1>5. /\ d3 \in {Pass, Reject(NoState)}
      /\ d3 = Reject(NoState) <=> T \in {"CANCELLED", "CANCELLING"} /\ p.type # "CANCELLED"
  BY <1>2 DEF EnforceCancellingToCancelledTransition, If
<1>6. /\ d4 \in {Pass, Reject(Plain("CANCELLED"))}
      /\ d4 # Pass => p.type = "CANCELLING" /\ T \in {"SCHEDULED", "PAUSED"}
  BY DEF BypassCancellingFlowRunsWithNoInfra, If
<1>7. /\ d5 \in {Pass, Abort}
      /\ d5 # Pass <=> /\ T \in {"PENDING", "CANCELLING", "RUNNING", "CANCELLED"}
                       /\ p.type = "PENDING"
  BY <1>2 DEF PreventPendingTransitions, If
<1>8. /\ d6 \in {Pass, Abort, Reject(Plain("CANCELLED")),
                 Reject(Scheduled("AwaitingConcurrencySlot", "future"))}
      /\ d6 # Pass => p.type = "PENDING" /\ T \notin SlotStates
  BY DEF SecureFlowConcurrencySlots, If, ++, WantsSlot
<1>9. /\ d7 \in {Pass, Reject(NoState)}
      /\ d7 # Pass => p.type = "SCHEDULED"
  BY DEF EnsureOnlyScheduledFlowsMarkedLate, If
<1>10. /\ d8 \in {Pass, Abort, Reject(NoState)}
       /\ d8 # Pass => p.type = "PAUSED"
       /\ d8 = Pass /\ p.type = "PAUSED" => T = "RUNNING"
  BY <1>2 DEF HandlePausingFlows, If, ++
<1>11. /\ d9 \in {Pass, Reject(NoState), Reject(Plain("FAILED"))}
       /\ d9 = Reject(NoState) =>
            /\ T = "PAUSED"
            /\ \/ ~(p.type \in {"RUNNING", "SCHEDULED"} \/ IsFinal(p))
               \/ r.state.pause_reschedule
       /\ d9 = Reject(Plain("FAILED")) =>
            /\ T = "PAUSED" /\ r.state.pause_timeout = "past"
            /\ p.type \in {"RUNNING", "SCHEDULED"} \cup TERMINAL_STATES
       /\ d9 = Pass /\ T = "PAUSED" => r.state.pause_timeout # "past"
  <2>1. Reject(NoState) # Reject(Plain("FAILED"))
    BY RulesAssumption, WrittenStatesType DEF Reject, StateTypes
  <2> QED BY <1>2, <2>1 DEF HandleResumingPausedFlows, If, ++, IsFinal
<1>12. /\ d10 \in {Pass, Wait}
       /\ d10 # Pass => T \in {"SCHEDULED", "PENDING"} /\ p.type = "RUNNING"
  BY DEF WaitForScheduledTime, If
<1>13. /\ d11 \in {Pass, Granted}
       /\ d11 # Pass => T = "RUNNING" /\ p.type = "FAILED"
  BY DEF RetryFailedFlows, If, Granted
<1>14. Verdict(policy, r, p, l) =
         IF c = Pass THEN [status |-> "ACCEPT", state |-> CopyScheduledTime(r, p)] ELSE c
  <2> HIDE DEF c
  <2>1. [Pass EXCEPT !.state = CopyScheduledTime(r, p)] =
          [status |-> "ACCEPT", state |-> CopyScheduledTime(r, p)]
    BY DEF Pass
  <2> QED BY <2>1 DEF Verdict, c
<1>15. /\ CopyScheduledTime(r, p) \in State
       /\ CopyScheduledTime(r, p) =
            [p EXCEPT !.scheduled_time = CopyScheduledTime(r, p).scheduled_time]
  <2>1. CopyScheduledTime(r, p) \in State
    BY CopyKeepsType
  <2> QED BY <2>1 DEF CopyScheduledTime, State
<1> HIDE DEF d1, d2, d3, d4, d5, d6, d7, d8, d9, d10, d11, c
<1>16. CASE c = Pass
  <2>1. Verdict(policy, r, p, l).status = "ACCEPT"
        /\ Verdict(policy, r, p, l).state = CopyScheduledTime(r, p)
    BY <1>14, <1>16
  <2>2. /\ p.type = "PENDING" =>
             T \notin {"PENDING", "CANCELLING", "RUNNING", "CANCELLED"}
        /\ p.type = "PAUSED" => T = "RUNNING"
        /\ T \in {"CANCELLED", "CANCELLING"} => p.type = "CANCELLED"
        /\ T = "PAUSED" => r.state.pause_timeout # "past"
    BY <1>1, <1>2, <1>5, <1>7, <1>10, <1>11, <1>16
  <2> QED BY <2>1, <2>2, <1>15 DEF CoreOutcome
<1>17. CASE c # Pass
  <2>1. Verdict(policy, r, p, l) = c
    BY <1>14, <1>17
  <2>2. c \in {d2, d3, d4, d5, d6, d7, d8, d9, d10, d11}
    BY <1>1, <1>3, <1>17
  <2>3. CoreOutcome(r, p, c)
    <3>2. CASE c = d2 BY <1>17, <3>2, <1>4 DEF CoreOutcome
    <3>3. CASE c = d3 BY <1>17, <3>3, <1>5 DEF CoreOutcome
    <3>4. CASE c = d4 BY <1>17, <3>4, <1>6 DEF CoreOutcome, SlotStates
    <3>5. CASE c = d5 BY <1>17, <3>5, <1>7 DEF CoreOutcome
    <3>6. CASE c = d6 BY <1>17, <3>6, <1>8 DEF CoreOutcome
    <3>7. CASE c = d7 BY <1>17, <3>7, <1>9 DEF CoreOutcome
    <3>8. CASE c = d8 BY <1>17, <3>8, <1>10 DEF CoreOutcome
    <3>9. CASE c = d9 BY <1>17, <3>9, <1>11 DEF CoreOutcome
    <3>10. CASE c = d10 BY <1>17, <3>10, <1>12 DEF CoreOutcome
    <3>11. CASE c = d11 BY <1>17, <3>11, <1>13 DEF CoreOutcome
    <3> QED BY <2>2, <3>2, <3>3, <3>4, <3>5, <3>6, <3>7, <3>8, <3>9, <3>10, <3>11
  <2> QED BY <2>1, <2>3
<1> QED BY <1>16, <1>17

-----------------------------------------------------------------------------
(* The types of the lifecycle, and its slots.                              *)

\* What a step of the lifecycle does to the server, if anything: one request
\* about one run, each with a well-formed proposal.
ServerStep(id) ==
  \/ CreateFlowRun(id) \/ UpdateInfrastructurePid(id) \/ ClockPasses(id)
  \/ \E p \in State, policy \in ClientPolicies \cup {"core", "minimal", "late"} :
       /\ policy = "late" => p = Scheduled("Late", "past")
       /\ SetFlowRunState(id, p, policy)

\* Such a step keeps the types, and no run goes away.
LEMMA ServerStepTypes ==
  ASSUME TypeOK, NEW id \in Runs, ServerStep(id)
  PROVE  TypeOK' /\ Rows \subseteq Rows'
<1>1. CASE CreateFlowRun(id)
  <2>1. TypeOK'
    BY <1>1, TypeStep DEF Next
  <2>2. \A i \in Runs : i # id => runs'[i] = runs[i]
    BY <1>1 DEF CreateFlowRun, TypeOK
  <2> QED BY <1>1, <2>1, <2>2 DEF CreateFlowRun, Rows
<1>2. CASE UpdateInfrastructurePid(id)
  <2>1. TypeOK'
    BY <1>2, TypeStep DEF Next
  <2>2. [runs[id] EXCEPT !.infrastructure_pid = TRUE] \in FlowRun
    BY <1>2, RowType DEF UpdateInfrastructurePid, FlowRun
  <2> QED BY <1>2, <2>1, <2>2, RulesAssumption DEF UpdateInfrastructurePid, Rows, TypeOK
<1>3. CASE ClockPasses(id)
  <2>1. TypeOK'
    BY <1>3, TypeStep DEF Next
  <2>2. /\ runs' = [runs EXCEPT ![id] = [runs[id] EXCEPT !.state = Elapsed(runs[id].state)]]
        /\ runs[id] \in FlowRun
    BY <1>3, RowType DEF ClockPasses
  <2> DEFINE s == [runs[id] EXCEPT !.state = Elapsed(runs[id].state)]
  <2>3. runs' = [runs EXCEPT ![id] = s] /\ s \in FlowRun \cup {None}
    BY <2>1, <2>2 DEF TypeOK
  <2>4. s # None
    <3>1. runs[id].state \in State
      BY <1>3, <2>2 DEF ClockPasses, FlowRun
    <3>2. Elapsed(runs[id].state) \in State
      BY <3>1 DEF Elapsed, State, Times
    <3> QED BY <2>2, <3>2, RulesAssumption DEF FlowRun
  <2> HIDE DEF s
  <2> QED BY <2>1, <2>3, <2>4 DEF Rows, TypeOK
<1>4. ASSUME NEW p \in State, NEW policy \in ClientPolicies \cup {"core", "minimal", "late"},
             SetFlowRunState(id, p, policy)
      PROVE  TypeOK' /\ Rows \subseteq Rows'
  <2>1. policy \in Policies
    BY OrchestrationAssumption DEF Policies
  <2>2. TypeOK'
    BY <1>4, <2>1, SetStateType
  <2>3. /\ runs' = [runs EXCEPT ![id] = RunAfter(policy, runs[id], p, limit,
                                           Verdict(policy, runs[id], p, limit))]
        /\ runs[id] \in FlowRun
    BY <1>4, RowType DEF SetFlowRunState
  <2>4. RunAfter(policy, runs[id], p, limit, Verdict(policy, runs[id], p, limit)) \in FlowRun
    BY <2>1, <2>3, VerdictState, RunAfterType DEF TypeOK
  <2> QED BY <2>2, <2>3, <2>4, RulesAssumption DEF Rows, TypeOK
<1> QED BY <1>1, <1>2, <1>3, <1>4 DEF ServerStep

\* Nor does it leak a slot, unless a client of old manages slots itself.
LEMMA ServerStepSlots ==
  ASSUME "legacy" \notin ClientPolicies, TypeOK, AtMostLeaked(0),
         NEW id \in Runs, ServerStep(id)
  PROVE  AtMostLeaked(0)'
<1>1. CASE CreateFlowRun(id) \/ UpdateInfrastructurePid(id) \/ ClockPasses(id)
  <2>1. [Next]_vars
    BY <1>1 DEF Next
  <2> QED BY <2>1, SlotStep
<1>2. ASSUME NEW p \in State, NEW policy \in ClientPolicies \cup {"core", "minimal", "late"},
             policy = "late" => p = Scheduled("Late", "past"),
             SetFlowRunState(id, p, policy)
      PROVE  AtMostLeaked(0)'
  <2>1. policy \in {"core", "minimal", "late"}
    BY OrchestrationAssumption
  <2> QED BY <1>2, <2>1, SetStateSlots
<1> QED BY <1>1, <1>2 DEF ServerStep

\* The states clients propose are well formed.
LEMMA ProposedStates ==
  /\ \A t \in StateTypes : Plain(t) \in State /\ Plain(t).transition_id = None
  /\ \A k \in Keys, t \in {None, "future"}, b \in BOOLEAN :
       /\ Paused(k, t, b) \in State /\ Paused(k, t, b).transition_id = None
       /\ Paused(k, t, b).type = "PAUSED" /\ Paused(k, t, b).pause_reschedule = b
  /\ \A n \in Names, t \in Times :
       Scheduled(n, t) \in State /\ Scheduled(n, t).transition_id = None
<1>2. ASSUME NEW k \in Keys, NEW t \in {None, "future"}, NEW b \in BOOLEAN
      PROVE  /\ Paused(k, t, b) \in State /\ Paused(k, t, b).transition_id = None
             /\ Paused(k, t, b).type = "PAUSED" /\ Paused(k, t, b).pause_reschedule = b
  <2> DEFINE q == Plain("PAUSED")
  <2>1. q \in State /\ q.type = "PAUSED" /\ q.transition_id = None
    BY WrittenStatesType DEF StateTypes, Plain
  <2>2. Paused(k, t, b) = [q EXCEPT !.pause_key = k, !.pause_timeout = t,
                                    !.pause_reschedule = b]
    BY DEF Paused
  <2> HIDE DEF q
  <2> QED BY <2>1, <2>2 DEF State, Times
<1>3. \A n \in Names, t \in Times : Scheduled(n, t).transition_id = None
  BY DEF Scheduled, Plain
<1>4. \A t \in StateTypes : Plain(t).transition_id = None
  BY DEF Plain
<1> QED BY <1>2, <1>3, <1>4, WrittenStatesType

\* An answer moves one submission.
LEMMA DeliverTypes ==
  ASSUME LifecycleTypeOK, NEW id \in Runs, NEW sender \in Workers \cup Attempts,
         NEW p, NEW a, Deliver(id, sender, p, a)
  PROVE  process' \in [Runs -> [Attempts -> ProcessStates]]
<1>1. process \in [Runs -> [Attempts -> ProcessStates]]
  BY DEF LifecycleTypeOK
<1>2. CASE sender \in Workers
  BY <1>1, <1>2 DEF Deliver, FreeAttempts, ProcessStates
<1>3. CASE sender \notin Workers
  <2>1. sender \in Attempts /\ process[id][sender] \in ProcessStates
    BY <1>1, <1>3
  <2>2. GoesOn(process[id][sender], p, a) \in ProcessStates
    BY <2>1 DEF GoesOn, ProcessStates
  <2>3. process' = [process EXCEPT ![id][sender] = GoesOn(process[id][sender], p, a)]
    BY <1>3 DEF Deliver
  <2> QED BY <1>1, <2>1, <2>2, <2>3
<1> QED BY <1>2, <1>3

\* A request and its resending change one run, by a well-formed proposal; the
\* client that gets the answer is the one that asked.
LEMMA RequestTypes ==
  ASSUME LifecycleTypeOK, NEW id \in Runs, NEW sender \in Workers \cup Attempts,
         NEW p \in State, Request(id, sender, p)
  PROVE  /\ ServerStep(id)
         /\ process' \in [Runs -> [Attempts -> ProcessStates]]
         /\ lost' \in [Runs -> [sender : Workers \cup Attempts, state : State] \cup {None}]
<1>1. CASE /\ SetFlowRunState(id, p, "core")
           /\ \E a \in {Answer(id, p, "core")} : Deliver(id, sender, p, a)
           /\ UNCHANGED lost
  <2>1. ServerStep(id)
    BY <1>1 DEF ServerStep
  <2>2. process' \in [Runs -> [Attempts -> ProcessStates]]
    BY <1>1, DeliverTypes
  <2> QED BY <1>1, <2>1, <2>2 DEF LifecycleTypeOK
<1>2. ASSUME NEW t \in TransitionIds,
             SetFlowRunState(id, [p EXCEPT !.transition_id = t], "core"),
             lost' = [lost EXCEPT ![id] =
                        [sender |-> sender, state |-> [p EXCEPT !.transition_id = t]]],
             UNCHANGED process
      PROVE  /\ ServerStep(id)
             /\ process' \in [Runs -> [Attempts -> ProcessStates]]
             /\ lost' \in [Runs -> [sender : Workers \cup Attempts, state : State] \cup {None}]
  <2> DEFINE q == [p EXCEPT !.transition_id = t]
  <2>1. q \in State
    BY DEF State
  <2> HIDE DEF q
  <2>2. ServerStep(id)
    BY <1>2, <2>1 DEF ServerStep, q
  <2>3. lost' = [lost EXCEPT ![id] = [sender |-> sender, state |-> q]]
    BY <1>2 DEF q
  <2>4. [sender |-> sender, state |-> q] \in [sender : Workers \cup Attempts, state : State]
    BY <2>1
  <2>5. lost' \in [Runs -> [sender : Workers \cup Attempts, state : State] \cup {None}]
    BY <2>3, <2>4 DEF LifecycleTypeOK
  <2>6. process' \in [Runs -> [Attempts -> ProcessStates]]
    BY <1>2 DEF LifecycleTypeOK
  <2> QED BY <2>2, <2>5, <2>6
<1> QED BY <1>1, <1>2 DEF Request

\* A request that is sent again is answered like any other.
LEMMA ResendTypes ==
  ASSUME LifecycleTypeOK, NEW id \in Runs, Resend(id)
  PROVE  /\ ServerStep(id)
         /\ process' \in [Runs -> [Attempts -> ProcessStates]]
         /\ lost' \in [Runs -> [sender : Workers \cup Attempts, state : State] \cup {None}]
<1>1. lost[id] \in [sender : Workers \cup Attempts, state : State]
  BY DEF Resend, LifecycleTypeOK
<1>2. PICK q \in State, n \in Workers \cup Attempts :
        /\ SetFlowRunState(id, q, "core")
        /\ Deliver(id, n, q, Answer(id, q, "core"))
  <2>1. lost[id].state \in State /\ lost[id].sender \in Workers \cup Attempts
    BY <1>1
  <2> QED BY <2>1 DEF Resend
<1>3. process' \in [Runs -> [Attempts -> ProcessStates]]
  BY <1>2, DeliverTypes
<1>4. ServerStep(id)
  BY <1>2 DEF ServerStep
<1> QED BY <1>3, <1>4 DEF Resend, LifecycleTypeOK


\* What the users and the services do to the server.
LEMMA UserSteps ==
  ASSUME LifecycleTypeOK, NEW id \in Runs,
         \/ Create(id) \/ Cancel(id) \/ Resume(id) \/ Rerun(id) \/ SuspendOther(id)
         \/ Service(id) \/ MarkLate(id) \/ RecordInfrastructure(id)
  PROVE  ServerStep(id)
<1> USE DEF ServerStep
<1>0. /\ \A t \in StateTypes : Plain(t) \in State
      /\ \A m \in Names, t \in Times : Scheduled(m, t) \in State
  BY WrittenStatesType
<1>1. CASE Create(id) \/ RecordInfrastructure(id)
  BY <1>1 DEF Create, RecordInfrastructure
<1>2. CASE Cancel(id)
  BY <1>0, <1>2 DEF Cancel, StateTypes
<1>3. CASE Resume(id)
  <2>1. Scheduled("Resuming", "past") \in State /\ Plain("RUNNING") \in State
    BY <1>0 DEF Names, Times, StateTypes
  <2>2. ClientPolicies \subseteq {"core", "legacy"}
    BY OrchestrationAssumption
  <2> QED BY <1>3, <2>1, <2>2 DEF Resume, ResumeFlowRun
<1>4. CASE Rerun(id)
  <2>1. Scheduled("Default", "past") \in State
    BY <1>0 DEF Names, Times
  <2> QED BY <1>4, <2>1 DEF Rerun
<1>5. CASE SuspendOther(id)
  <2>1. world.timeouts \subseteq {None, "future"}
    BY LifecycleAssumption DEF LifecycleTypeOK, World
  <2>2. \A k \in Keys, t \in world.timeouts : Paused(k, t, TRUE) \in State
    BY <2>1, ProposedStates
  <2> QED BY <1>5, <2>2 DEF SuspendOther
<1>6. CASE Service(id)
  BY <1>0, <1>6 DEF Service, FailExpiredPause, StateTypes
<1>7. CASE MarkLate(id)
  <2>1. Scheduled("Late", "past") \in State
    BY <1>0 DEF Names, Times
  <2> QED BY <1>7, <2>1 DEF MarkLate, MarkFlowRunAsLate
<1> QED BY <1>1, <1>2, <1>3, <1>4, <1>5, <1>6, <1>7

\* What runners and processes do to it without looking at the answer.
LEMMA RunnerSteps ==
  ASSUME NEW id \in Runs, NEW n \in Attempts,
         ReportCrashed(id, n) \/ MarkCancelled(id, n) \/ Terminate(id, n)
  PROVE  ServerStep(id) \/ UNCHANGED vars
<1>1. Plain("CRASHED") \in State /\ Plain("CANCELLED") \in State
  BY WrittenStatesType DEF StateTypes
<1> QED BY <1>1 DEF ServerStep, ReportCrashed, MarkCancelled, Terminate, vars

\* The requests of processes, each with the state it proposes.
LEMMA ProcessRequests ==
  ASSUME LifecycleTypeOK, NEW id \in Runs, NEW n \in Attempts,
         \/ ProposeRunning(id, n) \/ Succeed(id, n) \/ Fail(id, n)
         \/ ProposeTimedOut(id, n) \/ Pause(id, n)
  PROVE  \E p \in State : \E pcs :
           p.transition_id = None /\ ProcessRequest(id, n, pcs, p)
<1>1. \A t \in {"RUNNING", "COMPLETED", "FAILED"} :
        Plain(t) \in State /\ Plain(t).transition_id = None
  BY ProposedStates DEF StateTypes
<1>2. CASE Pause(id, n)
  <2>1. world.timeouts \subseteq {None, "future"}
    BY LifecycleAssumption DEF LifecycleTypeOK, World
  <2>2. PICK k \in Keys, t \in {None, "future"}, b \in BOOLEAN :
          ProcessRequest(id, n, {"running"}, Paused(k, t, b))
    BY <1>2, <2>1 DEF Pause
  <2> QED BY <2>2, ProposedStates
<1>3. CASE ProposeRunning(id, n)
  BY <1>1, <1>3 DEF ProposeRunning
<1>4. CASE Succeed(id, n)
  BY <1>1, <1>4 DEF Succeed
<1>5. CASE Fail(id, n) \/ ProposeTimedOut(id, n)
  BY <1>1, <1>5 DEF Fail, ProposeTimedOut
<1> QED BY <1>2, <1>3, <1>4, <1>5

\* Every step of the lifecycle keeps the types, and involves the server in one
\* request at most.
LEMMA LifecycleSteps ==
  ASSUME LifecycleTypeOK, [LifecycleNext]_lifecycleVars
  PROVE  /\ LifecycleTypeOK'
         /\ UNCHANGED vars \/ \E id \in Runs : ServerStep(id)
<1> DEFINE Goal == /\ LifecycleTypeOK'
                   /\ UNCHANGED vars \/ \E id \in Runs : ServerStep(id)
<1> DEFINE PT == [Runs -> [Attempts -> ProcessStates]]
           WT == [Runs -> [Attempts -> {"watching", "cancelling", "done"}]]
           LT == [Runs -> [sender : Workers \cup Attempts, state : State] \cup {None}]
<1>0. process \in PT /\ watcher \in WT /\ lost \in LT /\ world \in Worlds /\ TypeOK
      /\ listed \in [Workers -> SUBSET Rows]
  BY DEF LifecycleTypeOK
<1> SUFFICES Goal
  OBVIOUS
<1> HIDE DEF PT, WT, LT, Goal
\* A step that only concerns the clients, and one that involves the server.
<1>a. ASSUME UNCHANGED vars, world' = world, process' \in PT, watcher' \in WT, lost' \in LT,
             listed' \in [Workers -> SUBSET Rows]
      PROVE  Goal
  <2>1. TypeOK' /\ Rows' = Rows
    BY <1>0, <1>a DEF vars, TypeOK, Rows
  <2> QED BY <1>0, <1>a, <2>1 DEF LifecycleTypeOK, PT, WT, LT, Goal
<1>b. ASSUME NEW id \in Runs, ServerStep(id), world' = world, process' \in PT,
             watcher' \in WT, lost' \in LT, listed' \in [Workers -> SUBSET Rows]
      PROVE  Goal
  <2>1. TypeOK' /\ Rows \subseteq Rows'
    BY <1>0, <1>b, ServerStepTypes
  <2>2. listed' \in [Workers -> SUBSET Rows']
    BY <1>b, <2>1
  <2> QED BY <1>0, <1>b, <2>1, <2>2 DEF LifecycleTypeOK, PT, WT, LT, Goal
<1>c. ASSUME NEW id \in Runs, NEW n \in Attempts, NEW pc \in ProcessStates,
             process' = [process EXCEPT ![id][n] = pc]
      PROVE  process' \in PT
  BY <1>0, <1>c DEF PT
<1>1. CASE UNCHANGED lifecycleVars
  <2>1. /\ UNCHANGED vars /\ world' = world /\ listed' = listed /\ process' = process
        /\ watcher' = watcher /\ lost' = lost
    BY <1>1 DEF lifecycleVars, vars
  <2>2. process' \in PT /\ watcher' \in WT /\ lost' \in LT
        /\ listed' \in [Workers -> SUBSET Rows]
    BY <1>0, <2>1
  <2> QED BY <1>a, <2>1, <2>2
<1>2. ASSUME NEW w \in Workers, Poll(w) PROVE Goal
  <2>1. PICK soon \in SUBSET Pollable("future") :
          listed' = [listed EXCEPT ![w] = @ \cup Pollable("past") \cup soon]
    BY <1>2 DEF Poll
  <2>2. Pollable("past") \subseteq Rows /\ soon \subseteq Rows
    BY DEF Pollable
  <2>3. listed' \in [Workers -> SUBSET Rows]
    BY <1>0, <2>1, <2>2
  <2> QED BY <1>0, <1>2, <1>a, <2>3 DEF Poll, vars
<1>3. ASSUME NEW w \in Workers, NEW id \in Runs, ProposePending(w, id)
      PROVE  Goal
  <2>1. Plain("PENDING") \in State
    BY WrittenStatesType DEF StateTypes
  <2>2. ServerStep(id) /\ process' \in PT /\ lost' \in LT
    BY <1>3, <2>1, RequestTypes DEF ProposePending, PT, LT
  <2>3. listed' \in [Workers -> SUBSET Rows]
    BY <1>0, <1>3 DEF ProposePending
  <2> QED BY <1>0, <1>3, <1>b, <2>2, <2>3 DEF ProposePending
<1>4. ASSUME NEW id \in Runs, NEW n \in Attempts,
             \/ ProposeRunning(id, n) \/ Succeed(id, n) \/ Fail(id, n)
             \/ ProposeTimedOut(id, n) \/ Pause(id, n)
      PROVE  Goal
  <2>1. PICK p \in State : \E pcs : ProcessRequest(id, n, pcs, p)
    BY <1>4, ProcessRequests
  <2>2. Request(id, n, p) /\ UNCHANGED <<world, listed, watcher>>
    BY <2>1 DEF ProcessRequest
  <2>3. ServerStep(id) /\ process' \in PT /\ lost' \in LT
    BY <2>2, RequestTypes DEF PT, LT
  <2> QED BY <1>0, <1>b, <2>2, <2>3
<1>5. ASSUME NEW id \in Runs, Resend(id) PROVE Goal
  <2>1. ServerStep(id) /\ process' \in PT /\ lost' \in LT
    BY <1>5, ResendTypes DEF PT, LT
  <2> QED BY <1>0, <1>5, <1>b, <2>1 DEF Resend
<1>6. ASSUME NEW id \in Runs,
             \/ Create(id) \/ Cancel(id) \/ Resume(id) \/ Rerun(id) \/ SuspendOther(id)
             \/ Service(id) \/ MarkLate(id) \/ RecordInfrastructure(id)
      PROVE  Goal
  <2>1. ServerStep(id)
    BY <1>6, UserSteps
  <2>2. UNCHANGED clientVars
    BY <1>6 DEF Create, Cancel, Resume, Rerun, SuspendOther, Service, MarkLate,
                RecordInfrastructure
  <2> QED BY <1>0, <1>b, <2>1, <2>2 DEF clientVars
<1>7. ASSUME NEW id \in Runs, NEW n \in Attempts,
             \/ StartProcess(id, n) \/ TimeOut(id, n) \/ PollPause(id, n) \/ Crash(id, n)
             \/ DetectCancelling(id, n) \/ Reap(id, n) \/ Retire(id, n)
      PROVE  Goal
  <2>1. \E pc \in ProcessStates : process' = [process EXCEPT ![id][n] = pc]
    <3>1. process[id][n] \in ProcessStates
      BY <1>0 DEF PT
    <3> QED BY <1>7, <3>1 DEF StartProcess, TimeOut, PollPause, Crash, DetectCancelling, Reap,
                         Retire, ProcessStates
  <2>2. process' \in PT
    BY <2>1, <1>c
  <2>3. UNCHANGED vars /\ world' = world /\ listed' = listed
    BY <1>7 DEF StartProcess, TimeOut, PollPause, Crash, DetectCancelling, Reap,
                 Retire, vars
  <2>4. watcher' \in WT
    BY <1>0, <1>7 DEF StartProcess, TimeOut, PollPause, Crash, DetectCancelling, Reap,
                 Retire, WT
  <2>5. lost' \in LT
    BY <1>0, <1>7 DEF StartProcess, TimeOut, PollPause, Crash, DetectCancelling, Reap,
                 Retire, LT
  <2> QED BY <1>0, <1>a, <2>2, <2>3, <2>4, <2>5
<1>8. ASSUME NEW id \in Runs, NEW n \in Attempts,
             ReportCrashed(id, n) \/ MarkCancelled(id, n) \/ Terminate(id, n)
      PROVE  Goal
  <2>1. process' \in PT
    BY <1>0, <1>8, <1>c DEF ReportCrashed, MarkCancelled, Terminate, ProcessStates
  <2>2. watcher' \in WT
    BY <1>0, <1>8 DEF ReportCrashed, MarkCancelled, Terminate, WT
  <2>3. world' = world /\ listed' = listed /\ lost' = lost
    BY <1>8 DEF ReportCrashed, MarkCancelled, Terminate
  <2>4. ServerStep(id) \/ UNCHANGED vars
    BY <1>8, RunnerSteps
  <2> QED BY <1>0, <1>a, <1>b, <2>1, <2>2, <2>3, <2>4
<1> QED BY <1>1, <1>2, <1>3, <1>4, <1>5, <1>6, <1>7, <1>8 DEF LifecycleNext, Step, Goal

\* They hold in the beginning.
LEMMA LifecycleTypeInit == LifecycleInit => LifecycleTypeOK
BY TypeInit DEF LifecycleInit, LifecycleTypeOK, ProcessStates

\* The lifecycle keeps its types, whatever the world it is in.
THEOREM LifecycleTypeCorrect == LifecycleSpec => []LifecycleTypeOK
<1>1. LifecycleTypeOK /\ [LifecycleNext]_lifecycleVars => LifecycleTypeOK'
  BY LifecycleSteps
<1> QED BY <1>1, LifecycleTypeInit, PTL DEF LifecycleSpec

\* Nor does it leak a slot: in the company of its clients, too, the limit counts no
\* more slots than there are holders, as long as no client manages slots itself.
THEOREM LifecycleLeaksNoSlot ==
  ASSUME "legacy" \notin ClientPolicies
  PROVE  LifecycleSpec => []NoSlotLeak
<1>1. LifecycleInit => LifecycleTypeOK /\ AtMostLeaked(0)
  <2> SUFFICES ASSUME LifecycleInit PROVE AtMostLeaked(0)
    BY LifecycleTypeInit
  <2>1. limit.active_slots = 0
    BY DEF LifecycleInit, Init, NoLimit
  <2> QED BY <2>1, HoldersFinite DEF AtMostLeaked
<1>2. LifecycleTypeOK /\ AtMostLeaked(0) /\ [LifecycleNext]_lifecycleVars
        => (LifecycleTypeOK /\ AtMostLeaked(0))'
  <2> SUFFICES ASSUME LifecycleTypeOK, AtMostLeaked(0), [LifecycleNext]_lifecycleVars
               PROVE  LifecycleTypeOK' /\ AtMostLeaked(0)'
    OBVIOUS
  <2>1. CASE UNCHANGED vars
    BY <2>1, LifecycleSteps DEF vars, AtMostLeaked, Holders, Rows
  <2>2. ASSUME NEW id \in Runs, ServerStep(id) PROVE AtMostLeaked(0)'
    BY <2>2, ServerStepSlots DEF LifecycleTypeOK
  <2> QED BY <2>1, <2>2, LifecycleSteps
<1>3. AtMostLeaked(0) => NoSlotLeak
  BY HoldersFinite DEF AtMostLeaked, NoSlotLeak
<1> QED BY <1>1, <1>2, <1>3, PTL DEF LifecycleSpec

\* What a request leaves in the run's row, and what its sender is told.
LEMMA RowAfter ==
  ASSUME TypeOK, NEW id \in Runs, NEW p \in State, NEW policy \in Policies,
         SetFlowRunState(id, p, policy)
  PROVE  LET r == runs[id]
             s == runs'[id]
             v == Verdict(policy, r, p, limit)
         IN  /\ r \in FlowRun /\ s \in FlowRun
             /\ runs' = [runs EXCEPT ![id] = s]
             /\ v.state \in State \cup {NoState}
             /\ s.state = IF v.state = NoState THEN r.state ELSE v.state
             /\ Answer(id, p, policy) = [status |-> v.status, type |-> TypeOf(s)]
             /\ policy = "late" => s.retry_type = r.retry_type
             /\ v.state = NoState /\ v.status # "ACCEPT" => s.retry_type = r.retry_type
             /\ /\ v = Granted /\ policy \in {"core", "legacy"}
                /\ TypeOf(r) = "RUNNING" /\ p.type = "FAILED"
                => s.retry_type = "in_process"
<1> DEFINE r == runs[id]
           v == Verdict(policy, r, p, limit)
           s == RunAfter(policy, r, p, limit, v)
           b == PolicyBefore(policy, r, p, v)
           g == GlobalTransforms(b, v.state)
           a == PolicyAfter(policy, r, p, limit, v, g)
<1>1. r \in FlowRun /\ limit \in ConcurrencyLimit /\ runs' = [runs EXCEPT ![id] = s]
  BY RowType DEF SetFlowRunState, TypeOK
<1>2. v.state \in State \cup {NoState}
  BY <1>1, VerdictState
<1>3. /\ s \in FlowRun
      /\ s.state = IF v.state = NoState THEN r.state ELSE v.state
  <2> HIDE DEF v, r
  <2> QED BY <1>1, <1>2, RunAfterType
<1>4. runs'[id] = s
  BY <1>1 DEF TypeOK
<1>5. Answer(id, p, policy) =
        [status |-> v.status, type |-> IF v.state = NoState THEN TypeOf(r) ELSE v.state.type]
  BY DEF Answer
<1>6. TypeOf(s) = IF v.state = NoState THEN TypeOf(r) ELSE v.state.type
  <2> HIDE DEF s, v, r
  <2> QED BY <1>2, <1>3, RulesAssumption DEF TypeOf
<1>7. s.retry_type = b.retry_type
  <2> HIDE DEF b, v, r
  <2>1. g.retry_type = b.retry_type
    BY DEF GlobalTransforms
  <2> HIDE DEF g
  <2>2. a.retry_type = g.retry_type
    BY DEF PolicyAfter
  <2> HIDE DEF a
  <2>3. s = IF v.state = NoState THEN a ELSE [a EXCEPT !.state = v.state]
    BY DEF RunAfter, a, b, g
  <2> QED BY <2>1, <2>2, <2>3
<1>8. /\ policy = "late" => b.retry_type = r.retry_type
      /\ v.state = NoState /\ v.status # "ACCEPT" => b.retry_type = r.retry_type
      /\ /\ v = Granted /\ policy \in {"core", "legacy"}
         /\ TypeOf(r) = "RUNNING" /\ p.type = "FAILED"
         => b.retry_type = "in_process"
  <2> HIDE DEF v
  <2>1. /\ Granted.status # "ACCEPT" /\ Granted.state # NoState
        /\ Granted.state.type = "SCHEDULED"
        /\ TypeOf(r) = "RUNNING" => TypeOf(r) \notin TERMINAL_STATES
    BY WrittenStatesType, RulesAssumption
       DEF Granted, Reject, Scheduled, Plain, TERMINAL_STATES, Names, Times
  <2>2. ResetPause(r, "in_process").retry_type = "in_process"
    BY <1>1 DEF ResetPause, FlowRun
  <2> HIDE DEF r
  <2> QED BY <2>1, <2>2 DEF PolicyBefore
<1> HIDE DEF s, v, r
<1> QED BY <1>1, <1>2, <1>3, <1>4, <1>5, <1>6, <1>7, <1>8 DEF s, v, r

-----------------------------------------------------------------------------
(* One submission at a time: the invariant.                                *)

\* A submission that may yet change the state of its run.
Active == {"submitted", "starting", "running", "timed_out", "awaiting_retry", "polling",
           "sigterm", "failed", "reporting"}

\* Nobody is going to change the state of the run on behalf of a submission.
Quiet(id) == \A n \in Attempts : process[id][n] \notin Active

\* A run that needs nobody to go on: it is over, waits to be submitted, or is paused and
\* a resumption starts or fails it.
Settled(r) ==
  /\ TypeOf(r) \notin {"PENDING", "RUNNING"}
  /\ TypeOf(r) = "PAUSED" => r.state.pause_reschedule \/ r.state.pause_timeout = "past"

\* With many workers, the one active submission is where the run's state says.
Follows(pc, T) ==
  \/ pc \in {"submitted", "starting"} /\ T = "PENDING"
  \/ pc = "running" /\ T = "RUNNING"
  \/ pc \in {"failed", "reporting"} /\ T \in {"PENDING", "RUNNING"}

\* What holds of a run in the worlds with many workers.
ManyInv(id) ==
  /\ runs[id] # None => TypeOf(runs[id]) # "CANCELLING"
  /\ \A n \in Attempts :
       /\ process[id][n] \in Active => Follows(process[id][n], TypeOf(runs[id]))
       /\ watcher[id][n] = "watching"

\* With one worker, a run that has an active submission is on no list and gets on none.
OneInv(id) ==
  /\ ~Quiet(id) =>
       /\ \A w \in Workers : id \notin listed[w]
       /\ TypeOf(runs[id]) = "SCHEDULED" => runs[id].retry_type = "in_process"
       /\ TypeOf(runs[id]) = "PAUSED" => ~runs[id].state.pause_reschedule
  /\ \A n \in Attempts :
       process[id][n] \in Active /\ TypeOf(runs[id]) = "PAUSED" =>
         \/ process[id][n] \in {"polling", "failed", "reporting"}
         \/ runs[id].state.pause_timeout = "past"
  /\ \A n \in Attempts :
       process[id][n] = "submitted" => TypeOf(runs[id]) # "RUNNING"

\* A run has one active submission at most, and one without any needs nobody to go on.
\* This is inductive where neither SubmittedOnce nor ExecutedOnce is: whether a step may
\* submit or execute the run again depends on what its earlier submissions may still do.
OrderlyRun(id) ==
  /\ lost[id] = None
  /\ runs[id] = None => \A n \in Attempts : process[id][n] \notin Active \cup {"exited"}
  /\ runs[id] # None => runs[id].state # NoState
  /\ \A n, m \in Attempts : process[id][n] \in Active /\ process[id][m] \in Active => n = m
  /\ runs[id] # None /\ Quiet(id) => Settled(runs[id])
  /\ ManyWorkers(world) => ManyInv(id)
  /\ ~ManyWorkers(world) => OneInv(id)

\* The invariant of the lifecycle in the orderly worlds.
LifecycleInv ==
  /\ LifecycleTypeOK
  /\ Orderly(world)
  /\ \A w \in Workers \ world.workers : listed[w] = {}
  /\ \A id \in Runs : OrderlyRun(id)

\* A step that concerns one run leaves the others as they were.
LEMMA OneRun ==
  ASSUME LifecycleInv, LifecycleTypeOK', NEW id \in Runs, world' = world,
         \A w \in Workers : listed'[w] \subseteq listed[w],
         \A i \in Runs \ {id} :
           /\ runs'[i] = runs[i] /\ process'[i] = process[i]
           /\ watcher'[i] = watcher[i] /\ lost'[i] = lost[i],
         OrderlyRun(id)'
  PROVE  LifecycleInv'
<1>1. ASSUME NEW i \in Runs \ {id} PROVE OrderlyRun(i)'
  BY <1>1 DEF LifecycleInv, OrderlyRun, ManyInv, OneInv, Quiet
<1>2. \A w \in Workers \ world'.workers : listed'[w] = {}
  BY DEF LifecycleInv
<1> QED BY <1>1, <1>2 DEF LifecycleInv

-----------------------------------------------------------------------------
(* The steps of a process.                                                 *)

\* Where a process goes on an answer, and what it leaves of its run, in any world.
LEMMA GoesOnAnyway ==
  ASSUME NEW r \in FlowRun, NEW s \in FlowRun, NEW p \in State, NEW v, NEW pc,
         pc \in {"starting", "running", "awaiting_retry", "timed_out"},
         p.type \in {"RUNNING", "COMPLETED", "FAILED", "PAUSED"},
         p.type = "RUNNING" <=> pc \in {"starting", "awaiting_retry"},
         p.type \in {"COMPLETED", "PAUSED"} => pc = "running",
         r.state # NoState, s.state = IF v.state = NoState THEN r.state ELSE v.state,
         CoreOutcome(r, p, v), NEW x,
         x = GoesOn(pc, p, [status |-> v.status, type |-> TypeOf(s)])
  PROVE  /\ s.state \in State /\ s.state # NoState
         /\ TypeOf(s) = "CANCELLING" => TypeOf(r) = "CANCELLING"
         /\ x \in (Active \ {"submitted", "sigterm", "reporting"}) \cup {"exited"}
         /\ x = "exited" => /\ TypeOf(s) \notin {"PENDING", "RUNNING"}
                            /\ TypeOf(s) = "PAUSED" =>
                                 s.state = r.state \/ s.state.pause_reschedule
         /\ x # "exited" /\ TypeOf(s) = "SCHEDULED" =>
              \/ v = Granted /\ TypeOf(r) = "RUNNING" /\ p.type = "FAILED"
              \/ s.state = r.state /\ v.state = NoState /\ v.status # "ACCEPT"
         /\ x # "exited" /\ TypeOf(s) = "PAUSED" =>
              s.state = r.state \/ (x = "polling" /\ ~s.state.pause_reschedule)
<1>0. /\ r.state \in State /\ TypeOf(r) = r.state.type
      /\ NoState \notin State
  BY RulesAssumption DEF TypeOf, FlowRun
<1>s. \A t \in StateTypes : Plain(t) \in State /\ Plain(t).type = t
  BY WrittenStatesType DEF Plain
<1>t. \A m \in Names, t \in Times : Scheduled(m, t) \in State /\ Scheduled(m, t).type = "SCHEDULED"
  BY WrittenStatesType DEF Scheduled, Plain
<1> USE DEF Active, StateTypes
<1>1. ASSUME v.status = "ACCEPT", v.state \in State,
             v.state = [p EXCEPT !.scheduled_time = v.state.scheduled_time]
      PROVE  /\ s.state = v.state /\ TypeOf(s) = p.type
             /\ s.state.pause_reschedule = p.pause_reschedule
  <2>1. s.state = v.state
    BY <1>0, <1>1
  <2>2. s.state.type = p.type /\ s.state.pause_reschedule = p.pause_reschedule
    BY <1>1, <2>1 DEF State
  <2> QED BY <2>1, <2>2, <1>0, <1>1 DEF TypeOf
<1>2. CASE v.status = "ACCEPT" /\ v.state \in State
           /\ v.state = [p EXCEPT !.scheduled_time = v.state.scheduled_time]
  BY <1>0, <1>1, <1>2 DEF GoesOn
<1>3. CASE v = Abort /\ p.type = "PAUSED"
  <2>1. v.status = "ABORT" /\ v.state = NoState
    BY <1>3 DEF Abort
  <2>2. s.state = r.state /\ TypeOf(s) = TypeOf(r)
    BY <2>1 DEF TypeOf
  <2>3. x = pc
    BY <1>3, <2>1 DEF GoesOn
  <2> QED BY <1>0, <2>1, <2>2, <2>3
<1>4. CASE v = Reject(NoState)
           /\ \/ TypeOf(r) = "COMPLETED" /\ ~IsFinal(p)
              \/ TypeOf(r) \in {"CANCELLED", "CANCELLING"}
              \/ p.type = "PAUSED"
              \/ TypeOf(r) = "PAUSED"
  BY <1>0, <1>4 DEF GoesOn, Reject, TypeOf, IsFinal, TERMINAL_STATES
<1>5. CASE v = Reject(Plain("FAILED"))
  BY <1>0, <1>5, <1>s DEF GoesOn, Reject, TypeOf
<1>6. CASE v = Wait /\ TypeOf(r) \in {"SCHEDULED", "PENDING"} /\ p.type = "RUNNING"
  BY <1>0, <1>6 DEF GoesOn, Wait, TypeOf
<1>7. CASE v = Granted /\ TypeOf(r) = "RUNNING" /\ p.type = "FAILED"
  <2>1. v.status = "REJECT" /\ v.state \in State /\ v.state.type = "SCHEDULED"
    BY <1>7, <1>t DEF Granted, Reject, Names, Times
  <2>2. s.state = v.state /\ TypeOf(s) = "SCHEDULED"
    BY <1>0, <2>1 DEF TypeOf
  <2>3. x \in {"awaiting_retry", "failed"}
    BY <1>7, <2>1, <2>2 DEF GoesOn
  <2> QED BY <1>0, <1>7, <2>1, <2>2, <2>3
<1> QED BY <1>2, <1>3, <1>4, <1>5, <1>6, <1>7 DEF CoreOutcome, TERMINAL_STATES

\* In the worlds with many workers a process always knows the state of its run.
LEMMA GoesOnInStep ==
  ASSUME NEW r \in FlowRun, NEW s \in FlowRun, NEW p \in State, NEW v, NEW pc,
         pc \in {"starting", "running"}, Follows(pc, TypeOf(r)),
         p.type \in {"RUNNING", "COMPLETED", "PAUSED"},
         p.type = "PAUSED" => p.pause_reschedule,
         p.type = "RUNNING" <=> pc = "starting",
         r.state # NoState, s.state = IF v.state = NoState THEN r.state ELSE v.state,
         CoreOutcome(r, p, v), NEW x,
         x = GoesOn(pc, p, [status |-> v.status, type |-> TypeOf(s)])
  PROVE  x = "exited" \/ Follows(x, TypeOf(s))
<1>0. /\ r.state \in State /\ TypeOf(r) = r.state.type
      /\ NoState \notin State
  BY RulesAssumption DEF TypeOf, FlowRun
<1>1. CASE v.status = "ACCEPT" /\ v.state \in State
           /\ v.state = [p EXCEPT !.scheduled_time = v.state.scheduled_time]
  <2>1. s.state = v.state
    BY <1>0, <1>1
  <2>2. s.state.type = p.type /\ s.state.pause_reschedule = p.pause_reschedule
    BY <1>1, <2>1 DEF State
  <2>3. TypeOf(s) = p.type
    BY <2>1, <2>2, <1>0, <1>1 DEF TypeOf
  <2> QED BY <1>1, <2>3 DEF GoesOn, Follows
<1>2. CASE v = Abort /\ p.type = "PAUSED"
  BY <1>0, <1>2 DEF GoesOn, Abort, TypeOf, Follows
<1>3. CASE v = Reject(NoState) /\ p.type = "PAUSED"
  BY <1>0, <1>3 DEF GoesOn, Reject, TypeOf, Follows
<1>4. CASE v = Wait /\ TypeOf(r) \in {"SCHEDULED", "PENDING"} /\ p.type = "RUNNING"
  BY <1>0, <1>4 DEF GoesOn, Wait, TypeOf, Follows
<1> QED BY <1>1, <1>2, <1>3, <1>4 DEF CoreOutcome, TERMINAL_STATES, Follows

\* A request of a process keeps the invariant.
LEMMA ProcessStep ==
  ASSUME LifecycleInv, LifecycleTypeOK', NEW id \in Runs, NEW n \in Attempts, NEW p \in State,
         process[id][n] \in {"starting", "running", "awaiting_retry", "timed_out"},
         p.type \in {"RUNNING", "COMPLETED", "FAILED", "PAUSED"},
         p.type = "RUNNING" <=> process[id][n] \in {"starting", "awaiting_retry"},
         p.type \in {"COMPLETED", "PAUSED"} => process[id][n] = "running",
         p.transition_id = None,
         ManyWorkers(world) => p.type # "FAILED" /\ (p.type = "PAUSED" => p.pause_reschedule),
         Request(id, n, p), UNCHANGED <<world, listed, watcher>>
  PROVE  LifecycleInv'
<1> DEFINE r == runs[id]
           s == runs'[id]
           v == Verdict("core", r, p, limit)
           pc == process[id][n]
           x == GoesOn(pc, p, [status |-> v.status, type |-> TypeOf(s)])
<1>1. /\ SetFlowRunState(id, p, "core") /\ UNCHANGED lost
      /\ Deliver(id, n, p, Answer(id, p, "core"))
  BY DEF Request, LifecycleInv, Orderly
<1>2. TypeOK /\ "core" \in Policies /\ limit \in ConcurrencyLimit
  BY DEF LifecycleInv, LifecycleTypeOK, Policies, TypeOK
<1>3. /\ r \in FlowRun /\ s \in FlowRun /\ runs' = [runs EXCEPT ![id] = s]
      /\ s.state = IF v.state = NoState THEN r.state ELSE v.state
      /\ Answer(id, p, "core") = [status |-> v.status, type |-> TypeOf(s)]
      /\ v.state = NoState /\ v.status # "ACCEPT" => s.retry_type = r.retry_type
      /\ v = Granted /\ TypeOf(r) = "RUNNING" /\ p.type = "FAILED" => s.retry_type = "in_process"
  BY <1>1, <1>2, RowAfter
<1>4. CoreOutcome(r, p, v)
  BY <1>2, <1>3, CoreCases
<1>5. /\ r # None /\ s # None /\ r.state # NoState
      /\ OrderlyRun(id)
  BY <1>1, <1>3, RulesAssumption DEF LifecycleInv, OrderlyRun
<1>6. process' = [process EXCEPT ![id] = [process[id] EXCEPT ![n] = x]]
  BY <1>1, <1>3, LifecycleAssumption DEF Deliver
<1>7. /\ process[id] \in [Attempts -> ProcessStates]
      /\ process \in [Runs -> [Attempts -> ProcessStates]]
      /\ runs \in [Runs -> FlowRun \cup {None}]
  BY DEF LifecycleInv, LifecycleTypeOK, TypeOK
<1>8. /\ s.state # NoState
      /\ TypeOf(s) = "CANCELLING" => TypeOf(r) = "CANCELLING"
      /\ x \in (Active \ {"submitted", "sigterm", "reporting"}) \cup {"exited"}
      /\ x = "exited" => /\ TypeOf(s) \notin {"PENDING", "RUNNING"}
                         /\ TypeOf(s) = "PAUSED" =>
                              s.state = r.state \/ s.state.pause_reschedule
      /\ x # "exited" /\ TypeOf(s) = "SCHEDULED" =>
           \/ v = Granted /\ TypeOf(r) = "RUNNING" /\ p.type = "FAILED"
           \/ s.state = r.state /\ v.state = NoState /\ v.status # "ACCEPT"
      /\ x # "exited" /\ TypeOf(s) = "PAUSED" =>
           s.state = r.state \/ (x = "polling" /\ ~s.state.pause_reschedule)
  <2> HIDE DEF r, s, v, pc
  <2> QED BY <1>3, <1>4, <1>5, GoesOnAnyway DEF pc
<1>9. ManyWorkers(world) => x = "exited" \/ Follows(x, TypeOf(s))
  <2>1. ManyWorkers(world) => Follows(pc, TypeOf(r)) /\ pc \in {"starting", "running"}
    BY <1>5 DEF OrderlyRun, ManyInv, Follows, Active
  <2> HIDE DEF r, s, v, pc
  <2> QED BY <1>3, <1>4, <1>5, <2>1, GoesOnInStep DEF pc
<1> HIDE DEF x
<1>10. /\ process'[id][n] = x
       /\ \A m \in Attempts \ {n} : process'[id][m] = process[id][m]
       /\ \A i \in Runs \ {id} : process'[i] = process[i] /\ runs'[i] = runs[i]
  BY <1>3, <1>6, <1>7
<1>11. OrderlyRun(id)'
  <2>1. lost'[id] = None /\ runs'[id] # None /\ runs'[id].state # NoState
    BY <1>1, <1>5, <1>8 DEF OrderlyRun
  <2>2. pc \in Active /\ \A m \in Attempts \ {n} : process[id][m] \notin Active
    BY <1>5 DEF OrderlyRun, Active
  <2>3. \A m, k \in Attempts : process'[id][m] \in Active /\ process'[id][k] \in Active => m = k
    BY <2>2, <1>10
  <2>4. Quiet(id)' <=> x = "exited"
    BY <2>2, <1>8, <1>10 DEF Quiet, Active
  <2>5. ~Quiet(id)
    BY <2>2 DEF Quiet
  <2>6. x = "exited" => Settled(runs'[id])
    <3>1. CASE ManyWorkers(world)
      <4>1. TypeOf(r) # "PAUSED"
        BY <3>1, <1>5, <2>2 DEF OrderlyRun, ManyInv, Follows
      <4> QED BY <4>1, <1>8 DEF Settled, TypeOf
    <3>2. CASE ~ManyWorkers(world)
      <4>1. TypeOf(r) = "PAUSED" => r.state.pause_timeout = "past"
        BY <3>2, <1>5, <2>2 DEF OrderlyRun, OneInv
      <4> QED BY <4>1, <1>8 DEF Settled, TypeOf
    <3> QED BY <3>1, <3>2
  <2>7. ManyWorkers(world') => ManyInv(id)'
    BY <1>5, <1>8, <1>9, <1>10, <2>2 DEF OrderlyRun, ManyInv, Active
  <2>8. ~ManyWorkers(world') => OneInv(id)'
    <3> SUFFICES ASSUME ~ManyWorkers(world) PROVE OneInv(id)'
      OBVIOUS
    <3>1. OneInv(id)
      BY <1>5 DEF OrderlyRun
    <3>2. \A w \in Workers : id \notin listed'[w]
      BY <3>1, <2>5 DEF OneInv
    <3>3. x # "exited" /\ TypeOf(s) = "SCHEDULED" => s.retry_type = "in_process"
      BY <1>3, <1>8, <2>5, <3>1 DEF OneInv, TypeOf
    <3>4. x # "exited" /\ TypeOf(s) = "PAUSED" => ~s.state.pause_reschedule
      BY <1>8, <2>5, <3>1 DEF OneInv, TypeOf
    <3>5. x # "exited" /\ TypeOf(s) = "PAUSED" => x = "polling" \/ s.state.pause_timeout = "past"
      BY <1>8, <2>2, <3>1 DEF OneInv, TypeOf
    <3>6. \A m \in Attempts : process'[id][m] \in Active => m = n /\ x # "exited"
      BY <2>2, <1>10 DEF Active
    <3>7. \A m \in Attempts : process'[id][m] # "submitted"
      BY <1>8, <2>2, <1>10 DEF Active
    <3> HIDE DEF s
    <3>8. runs'[id] = s
      BY DEF s
    <3> QED BY <3>2, <3>3, <3>4, <3>5, <3>6, <3>7, <3>8, <1>10, <2>4 DEF OneInv
  <2> QED BY <2>1, <2>3, <2>4, <2>6, <2>7, <2>8 DEF OrderlyRun
<1> QED BY <1>1, <1>10, <1>11, OneRun

-----------------------------------------------------------------------------
(* Submitting a run.                                                       *)

\* A worker that asks for PENDING submits the run only if it took it there, and
\* changes nothing of a run that is submitted or executed.
LEMMA PendingOutcome ==
  ASSUME NEW r \in FlowRun, NEW s \in FlowRun, NEW v, r.state # NoState,
         s.state = IF v.state = NoState THEN r.state ELSE v.state,
         CoreOutcome(r, Plain("PENDING"), v), NEW a,
         a = [status |-> v.status, type |-> TypeOf(s)]
  PROVE  /\ s.state # NoState
         /\ Submits(a) => TypeOf(s) = "PENDING" /\ TypeOf(r) \notin {"PENDING", "RUNNING"}
         /\ TypeOf(r) \in {"PENDING", "RUNNING"} => s.state = r.state
         /\ ~Submits(a) =>
              s.state = r.state \/ TypeOf(s) \notin {"PENDING", "RUNNING", "PAUSED"}
         /\ TypeOf(s) = "CANCELLING" => TypeOf(r) = "CANCELLING"
<1> DEFINE p == Plain("PENDING")
<1>0. /\ r.state \in State /\ TypeOf(r) = r.state.type /\ NoState \notin State
      /\ p.type = "PENDING" /\ p \in State
  BY RulesAssumption, WrittenStatesType DEF TypeOf, FlowRun, Plain, StateTypes
<1>s. /\ \A t \in StateTypes : Plain(t) \in State /\ Plain(t).type = t
      /\ \A m \in Names, t \in Times :
           Scheduled(m, t) \in State /\ Scheduled(m, t).type = "SCHEDULED"
  BY WrittenStatesType DEF Plain, Scheduled
<1> HIDE DEF p
<1>1. CASE v.status = "ACCEPT" /\ v.state \in State
           /\ v.state = [p EXCEPT !.scheduled_time = v.state.scheduled_time]
           /\ TypeOf(r) \notin {"PENDING", "CANCELLING", "RUNNING", "CANCELLED"}
  <2>1. s.state = v.state /\ v.state.type = "PENDING"
    BY <1>0, <1>1 DEF State
  <2>2. TypeOf(s) = "PENDING"
    BY <2>1, <1>0, <1>1 DEF TypeOf
  <2> QED BY <1>0, <1>1, <2>1, <2>2 DEF Submits
<1>2. CASE v = Abort
  <2>1. v.status = "ABORT" /\ s.state = r.state /\ TypeOf(s) = TypeOf(r)
    BY <1>2 DEF Abort, TypeOf
  <2> QED BY <1>0, <2>1 DEF Submits
<1>3. CASE v = Reject(NoState) /\ TypeOf(r) \in {"COMPLETED", "CANCELLED", "CANCELLING", "PAUSED"}
  <2>1. v.status = "REJECT" /\ s.state = r.state /\ TypeOf(s) = TypeOf(r)
    BY <1>3 DEF Reject, TypeOf
  <2> QED BY <1>0, <1>3, <2>1 DEF Submits
<1>4. CASE (v = Reject(Plain("CANCELLED"))
            \/ v = Reject(Scheduled("AwaitingConcurrencySlot", "future")))
           /\ TypeOf(r) \notin SlotStates
  <2>1. v.status = "REJECT" /\ v.state \in State /\ v.state.type \in {"CANCELLED", "SCHEDULED"}
    BY <1>4, <1>s DEF Reject, StateTypes, Names, Times
  <2>2. s.state = v.state /\ TypeOf(s) = v.state.type
    BY <1>0, <2>1 DEF TypeOf
  <2> QED BY <1>0, <1>4, <2>1, <2>2 DEF Submits, SlotStates
<1>5. CASE v = Reject(Plain("FAILED")) /\ TypeOf(r) = "PAUSED"
  <2>1. v.status = "REJECT" /\ v.state \in State /\ v.state.type = "FAILED"
    BY <1>5, <1>s DEF Reject, StateTypes
  <2>2. s.state = v.state /\ TypeOf(s) = "FAILED"
    BY <1>0, <2>1 DEF TypeOf
  <2> QED BY <1>0, <1>5, <2>1, <2>2 DEF Submits
<1> QED BY <1>0, <1>1, <1>2, <1>3, <1>4, <1>5 DEF CoreOutcome, TERMINAL_STATES, p

\* Submitting a run keeps the invariant.
LEMMA SubmitStep ==
  ASSUME LifecycleInv, LifecycleTypeOK', NEW id \in Runs, NEW w \in Workers,
         ProposePending(w, id)
  PROVE  LifecycleInv'
<1> DEFINE p == Plain("PENDING")
           r == runs[id]
           s == runs'[id]
           v == Verdict("core", r, p, limit)
           a == [status |-> v.status, type |-> TypeOf(s)]
<1>0. /\ p \in State /\ p.transition_id = None
      /\ TypeOK /\ "core" \in Policies /\ limit \in ConcurrencyLimit
      /\ runs \in [Runs -> FlowRun \cup {None}]
      /\ listed \in [Workers -> SUBSET Rows]
      /\ process \in [Runs -> [Attempts -> ProcessStates]]
  BY ProposedStates DEF LifecycleInv, LifecycleTypeOK, Policies, TypeOK, StateTypes
<1>1. /\ SetFlowRunState(id, p, "core") /\ UNCHANGED lost
      /\ Deliver(id, w, p, Answer(id, p, "core"))
      /\ id \in listed[w] /\ listed' = [listed EXCEPT ![w] = @ \ {id}]
      /\ world' = world /\ watcher' = watcher
  BY DEF ProposePending, Request, LifecycleInv, Orderly
<1> HIDE DEF p
<1>2. /\ r \in FlowRun /\ s \in FlowRun /\ runs' = [runs EXCEPT ![id] = s]
      /\ s.state = IF v.state = NoState THEN r.state ELSE v.state
      /\ Answer(id, p, "core") = a
  BY <1>0, <1>1, RowAfter
<1>3. CoreOutcome(r, p, v)
  BY <1>0, <1>2, CoreCases
<1>4. /\ r # None /\ s # None /\ r.state # NoState
      /\ OrderlyRun(id)
  BY <1>1, <1>2, RulesAssumption DEF LifecycleInv, OrderlyRun
<1>5. /\ s.state # NoState
      /\ Submits(a) => TypeOf(s) = "PENDING" /\ TypeOf(r) \notin {"PENDING", "RUNNING"}
      /\ TypeOf(r) \in {"PENDING", "RUNNING"} => s.state = r.state
      /\ ~Submits(a) =>
           s.state = r.state \/ TypeOf(s) \notin {"PENDING", "RUNNING", "PAUSED"}
      /\ TypeOf(s) = "CANCELLING" => TypeOf(r) = "CANCELLING"
  <2> HIDE DEF r, s, v
  <2> QED BY <1>2, <1>3, <1>4, PendingOutcome DEF p
<1> HIDE DEF a, v
<1>6. ~ManyWorkers(world) => Quiet(id)
  BY <1>1, <1>4 DEF OrderlyRun, OneInv
<1>7. Quiet(id) \/ TypeOf(r) \in {"PENDING", "RUNNING"}
  BY <1>4, <1>6 DEF OrderlyRun, ManyInv, Follows, Quiet
<1>8. \A x \in Workers : listed'[x] \subseteq listed[x]
  BY <1>0, <1>1
<1>9. \A i \in Runs \ {id} : runs'[i] = runs[i]
  BY <1>0, <1>2
<1>10. CASE Submits(a)
  <2>1. PICK n \in Attempts : process' = [process EXCEPT ![id][n] = "submitted"]
    BY <1>1, <1>2, <1>10 DEF Deliver, FreeAttempts
  <2>2. /\ process'[id][n] = "submitted"
        /\ \A m \in Attempts \ {n} : process'[id][m] = process[id][m]
        /\ \A i \in Runs \ {id} : process'[i] = process[i]
    BY <1>0, <2>1
  <2>3. Quiet(id) /\ TypeOf(s) = "PENDING"
    BY <1>5, <1>7, <1>10
  <2>4. \A m \in Attempts : process'[id][m] \in Active <=> m = n
    BY <2>2, <2>3 DEF Quiet, Active
  <2>5. ManyWorkers(world) => ManyInv(id)'
    BY <1>1, <1>4, <2>2, <2>3, <2>4 DEF OrderlyRun, ManyInv, Follows
  <2>6. ~ManyWorkers(world) => OneInv(id)'
    <3> SUFFICES ASSUME ~ManyWorkers(world) PROVE OneInv(id)'
      OBVIOUS
    <3>1. \A x \in Workers \ {w} : listed[x] = {}
      BY <1>1 DEF LifecycleInv, Orderly, OneWorker
    <3>2. \A x \in Workers : id \notin listed'[x]
      BY <1>0, <1>1, <3>1
    <3> QED BY <2>3, <3>2 DEF OneInv
  <2>7. ~Quiet(id)'
    BY <2>4 DEF Quiet
  <2>8. OrderlyRun(id)'
    BY <1>1, <1>4, <1>5, <2>4, <2>5, <2>6, <2>7 DEF OrderlyRun
  <2> QED BY <1>1, <1>8, <1>9, <2>2, <2>8, OneRun
<1>11. CASE ~Submits(a)
  <2>1. process' = process
    BY <1>1, <1>2, <1>11 DEF Deliver
  <2>2. Quiet(id)' <=> Quiet(id)
    BY <2>1 DEF Quiet
  <2>3. Quiet(id) => Settled(s)
    BY <1>4, <1>5, <1>11 DEF OrderlyRun, Settled, TypeOf
  <2>4. ~Quiet(id) => s.state = r.state
    BY <1>5, <1>7
  <2>5. ManyWorkers(world) => ManyInv(id)'
    BY <1>1, <1>4, <1>5, <2>1, <2>4 DEF OrderlyRun, ManyInv, Quiet, TypeOf
  <2>6. ~ManyWorkers(world) => OneInv(id)'
    BY <1>6, <2>1, <2>2 DEF OneInv, Quiet, Active
  <2>7. OrderlyRun(id)'
    BY <1>1, <1>4, <1>5, <2>1, <2>2, <2>3, <2>5, <2>6 DEF OrderlyRun
  <2> QED BY <1>1, <1>8, <1>9, <2>1, <2>7, OneRun
<1> QED BY <1>10, <1>11

\* A worker that polls lists no run with an active submission, if it is the only one.
LEMMA PollStep ==
  ASSUME LifecycleInv, LifecycleTypeOK', NEW w \in Workers, Poll(w)
  PROVE  LifecycleInv'
<1>1. PICK soon \in SUBSET Pollable("future") :
        listed' = [listed EXCEPT ![w] = @ \cup Pollable("past") \cup soon]
  BY DEF Poll
<1>2. /\ w \in world.workers
      /\ world' = world /\ runs' = runs /\ process' = process /\ watcher' = watcher
      /\ lost' = lost
  BY DEF Poll
<1>3. listed \in [Workers -> SUBSET Rows]
  BY DEF LifecycleInv, LifecycleTypeOK
<1>4. ASSUME NEW id \in Runs, ~ManyWorkers(world), ~Quiet(id)
      PROVE  \A x \in Workers : id \notin listed'[x]
  <2>1. OneInv(id)
    BY <1>4 DEF LifecycleInv, OrderlyRun
  <2>2. \A t : id \notin Pollable(t)
    BY <1>4, <2>1 DEF OneInv, Pollable
  <2> QED BY <1>1, <1>3, <1>4, <2>1, <2>2 DEF OneInv
<1>5. ASSUME NEW id \in Runs PROVE OrderlyRun(id)'
  <2>1. OrderlyRun(id)
    BY DEF LifecycleInv
  <2>2. Quiet(id)' <=> Quiet(id)
    BY <1>2 DEF Quiet
  <2>3. ~ManyWorkers(world) => OneInv(id)'
    BY <1>2, <1>4, <2>1, <2>2 DEF OrderlyRun, OneInv
  <2> QED BY <1>2, <2>1, <2>2, <2>3 DEF OrderlyRun, ManyInv
<1>6. \A x \in Workers \ world'.workers : listed'[x] = {}
  BY <1>1, <1>2, <1>3 DEF LifecycleInv
<1> QED BY <1>2, <1>5, <1>6 DEF LifecycleInv

-----------------------------------------------------------------------------
(* Users and services.                                                     *)

\* A change of a run's row that its submission, if it has one, can live with.
Tolerable(r, s) ==
  /\ TypeOf(s) = "SCHEDULED" => TypeOf(r) = "SCHEDULED" /\ s.retry_type = r.retry_type
  /\ TypeOf(s) = "PAUSED" =>
       /\ TypeOf(r) = "PAUSED" /\ s.state.pause_reschedule = r.state.pause_reschedule
       /\ r.state.pause_timeout = "past" => s.state.pause_timeout = "past"
  /\ TypeOf(s) = "RUNNING" =>
       \/ TypeOf(r) = "RUNNING"
       \/ TypeOf(r) = "PAUSED" /\ r.state.pause_timeout # "past"

\* Such a change, made without moving a process, keeps the invariant.
LEMMA RowStep ==
  ASSUME LifecycleInv, LifecycleTypeOK', NEW id \in Rows, NEW s \in FlowRun,
         UNCHANGED clientVars, runs' = [runs EXCEPT ![id] = s],
         s.state # NoState,
         ManyWorkers(world) => TypeOf(s) # "CANCELLING",
         Quiet(id) => Settled(s),
         ManyWorkers(world) /\ ~Quiet(id) => TypeOf(s) = TypeOf(runs[id]),
         ~ManyWorkers(world) /\ ~Quiet(id) => Tolerable(runs[id], s)
  PROVE  LifecycleInv'
<1>1. id \in Runs /\ runs[id] # None /\ OrderlyRun(id)
  BY DEF Rows, LifecycleInv
<1>2. /\ world' = world /\ listed' = listed /\ process' = process
      /\ watcher' = watcher /\ lost' = lost
  BY DEF clientVars
<1>3. /\ runs'[id] = s /\ s # None
      /\ \A i \in Runs \ {id} : runs'[i] = runs[i]
  BY <1>1, RulesAssumption DEF LifecycleInv, LifecycleTypeOK, TypeOK
<1>4. Quiet(id)' <=> Quiet(id)
  BY <1>2 DEF Quiet
<1>5. ManyWorkers(world) => ManyInv(id)'
  BY <1>1, <1>2, <1>3 DEF OrderlyRun, ManyInv, Quiet
<1>6. ~ManyWorkers(world) => OneInv(id)'
  BY <1>1, <1>2, <1>3, <1>4 DEF OrderlyRun, OneInv, Quiet, Tolerable, Active
<1>7. OrderlyRun(id)'
  BY <1>1, <1>2, <1>3, <1>4, <1>5, <1>6 DEF OrderlyRun
<1> QED BY <1>1, <1>2, <1>3, <1>7, OneRun

\* The answer to the users' requests, and what it leaves.
LEMMA UserOutcome ==
  ASSUME NEW r \in FlowRun, NEW s \in FlowRun, NEW p \in State, NEW v, r.state # NoState,
         p.type \in {"CANCELLING", "SCHEDULED", "RUNNING"},
         s.state = IF v.state = NoState THEN r.state ELSE v.state,
         CoreOutcome(r, p, v)
  PROVE  \/ s.state = r.state /\ v.state = NoState /\ v.status # "ACCEPT"
         \/ /\ s.state \in State /\ TypeOf(s) = p.type
            /\ TypeOf(r) = "PAUSED" => r.state.pause_timeout # "past"
         \/ s.state \in State /\ TypeOf(s) \in {"CANCELLED", "FAILED"}
<1>0. /\ r.state \in State /\ TypeOf(r) = r.state.type /\ NoState \notin State
  BY RulesAssumption DEF TypeOf, FlowRun
<1>s. \A t \in StateTypes : Plain(t) \in State /\ Plain(t).type = t
  BY WrittenStatesType DEF Plain
<1>1. CASE /\ v.status = "ACCEPT" /\ v.state \in State
           /\ v.state = [p EXCEPT !.scheduled_time = v.state.scheduled_time]
           /\ TypeOf(r) = "PAUSED" => r.state.pause_timeout # "past"
  <2>1. s.state = v.state /\ v.state.type = p.type
    BY <1>0, <1>1 DEF State
  <2> QED BY <2>1, <1>0, <1>1 DEF TypeOf
<1>2. CASE v \in {Abort, Reject(NoState), Wait}
  BY <1>2 DEF Abort, Reject, Wait
<1>3. CASE v \in {Reject(Plain("CANCELLED")), Reject(Plain("FAILED"))}
  <2>1. v.state \in State /\ v.state.type \in {"CANCELLED", "FAILED"}
    BY <1>3, <1>s DEF Reject, StateTypes
  <2> QED BY <1>0, <2>1 DEF TypeOf
<1> QED BY <1>1, <1>2, <1>3 DEF CoreOutcome

\* Every user's request keeps the invariant.
LEMMA UserRequest ==
  ASSUME LifecycleInv, LifecycleTypeOK', NEW id \in Runs, UNCHANGED clientVars,
         NEW p \in State, NEW policy \in {"core", "legacy"}, p.transition_id = None,
         SetFlowRunState(id, p, policy),
         \/ p.type = "CANCELLING" /\ ~ManyWorkers(world)
         \/ p.type = "SCHEDULED" /\ Quiet(id)
         \/ /\ p.type = "RUNNING" /\ TypeOf(runs[id]) = "PAUSED"
            /\ ~runs[id].state.pause_reschedule
  PROVE  LifecycleInv'
<1> DEFINE r == runs[id]
           s == runs'[id]
           v == Verdict(policy, r, p, limit)
<1>0. TypeOK /\ policy \in Policies /\ limit \in ConcurrencyLimit /\ id \in Rows
  BY DEF LifecycleInv, LifecycleTypeOK, Policies, TypeOK, SetFlowRunState
<1>1. /\ r \in FlowRun /\ s \in FlowRun /\ runs' = [runs EXCEPT ![id] = s]
      /\ s.state = IF v.state = NoState THEN r.state ELSE v.state
      /\ v.state = NoState /\ v.status # "ACCEPT" => s.retry_type = r.retry_type
  BY <1>0, RowAfter
<1>2. CoreOutcome(r, p, v)
  BY <1>0, <1>1, CoreCases
<1>3. r # None /\ r.state # NoState /\ OrderlyRun(id)
  BY <1>0 DEF LifecycleInv, OrderlyRun, Rows
<1>4. \/ s.state = r.state /\ v.state = NoState /\ v.status # "ACCEPT"
      \/ /\ s.state \in State /\ TypeOf(s) = p.type
         /\ TypeOf(r) = "PAUSED" => r.state.pause_timeout # "past"
      \/ s.state \in State /\ TypeOf(s) \in {"CANCELLED", "FAILED"}
  <2> HIDE DEF r, s, v
  <2> QED BY <1>1, <1>2, <1>3, UserOutcome
<1> HIDE DEF v
<1>5. s.state # NoState
  BY <1>3, <1>4, RulesAssumption
<1>6. Quiet(id) => Settled(s)
  BY <1>3, <1>4 DEF OrderlyRun, Settled, TypeOf
<1>7. CASE ManyWorkers(world)
  <2>1. TypeOf(s) # "CANCELLING"
    BY <1>3, <1>4, <1>7 DEF OrderlyRun, ManyInv, TypeOf
  <2>2. Quiet(id)
    BY <1>3, <1>7 DEF OrderlyRun, ManyInv, Follows, Quiet
  <2> HIDE DEF s
  <2> QED BY <1>0, <1>1, <1>5, <1>6, <1>7, <2>1, <2>2, RowStep
<1>8. CASE ~ManyWorkers(world)
  <2>1. ~Quiet(id) => Tolerable(r, s)
    BY <1>1, <1>3, <1>4, <1>8 DEF Tolerable, TypeOf
  <2> HIDE DEF s
  <2> QED BY <1>0, <1>1, <1>5, <1>6, <1>8, <2>1, RowStep
<1> QED BY <1>7, <1>8

\* What users ask for.
LEMMA UserStep ==
  ASSUME LifecycleInv, LifecycleTypeOK', NEW id \in Runs,
         Cancel(id) \/ Resume(id) \/ Rerun(id)
  PROVE  LifecycleInv'
<1>0. /\ Plain("CANCELLING") \in State /\ Plain("CANCELLING").type = "CANCELLING"
      /\ Plain("CANCELLING").transition_id = None
      /\ Plain("RUNNING") \in State /\ Plain("RUNNING").type = "RUNNING"
      /\ Plain("RUNNING").transition_id = None
      /\ \A m \in Names : /\ Scheduled(m, "past") \in State
                          /\ Scheduled(m, "past").type = "SCHEDULED"
                          /\ Scheduled(m, "past").transition_id = None
  BY ProposedStates, WrittenFields DEF StateTypes, Times
<1>1. CASE Cancel(id)
  <2>1. ~ManyWorkers(world)
    BY <1>1 DEF Cancel, ManyWorkers
  <2> QED BY <1>0, <1>1, <2>1, UserRequest DEF Cancel
<1>2. CASE Resume(id)
  <2>1. PICK policy \in ClientPolicies :
          SetFlowRunState(id,
            IF runs[id].state.pause_reschedule THEN Scheduled("Resuming", "past")
                                               ELSE Plain("RUNNING"), policy)
    BY <1>2 DEF Resume, ResumeFlowRun
  <2>2. policy \in {"core", "legacy"} /\ UNCHANGED clientVars
        /\ id \in Rows /\ TypeOf(runs[id]) = "PAUSED" /\ OrderlyRun(id)
        /\ runs[id] # None
    BY <1>2, OrchestrationAssumption DEF Resume, ResumeFlowRun, LifecycleInv, Rows
  <2>3. runs[id].state.pause_reschedule => Quiet(id)
    BY <2>2 DEF OrderlyRun, ManyInv, OneInv, Follows, Quiet
  <2>4. CASE runs[id].state.pause_reschedule
    <3>1. SetFlowRunState(id, Scheduled("Resuming", "past"), policy)
      BY <2>1, <2>4
    <3>2. "Resuming" \in Names
      BY DEF Names
    <3> QED BY <1>0, <2>2, <2>3, <2>4, <3>1, <3>2, UserRequest
  <2>5. CASE ~runs[id].state.pause_reschedule
    <3>1. SetFlowRunState(id, Plain("RUNNING"), policy)
      BY <2>1, <2>5
    <3> QED BY <1>0, <2>2, <2>5, <3>1, UserRequest
  <2> QED BY <2>4, <2>5
<1>3. CASE Rerun(id)
  <2>1. /\ SetFlowRunState(id, Scheduled("Default", "past"), "core") /\ UNCHANGED clientVars
        /\ TypeOf(runs[id]) \in TERMINAL_STATES /\ "rerun" \in world.requests
        /\ OrderlyRun(id) /\ "Default" \in Names
    BY <1>3 DEF Rerun, LifecycleInv, Names
  <2>2. ManyWorkers(world)
    BY <2>1 DEF LifecycleInv, Orderly, OneWorker
  <2>3. Quiet(id)
    BY <2>1, <2>2 DEF OrderlyRun, ManyInv, Follows, Quiet, TERMINAL_STATES
  <2> QED BY <1>0, <2>1, <2>3, UserRequest
<1> QED BY <1>1, <1>2, <1>3

\* Nor do the services and the clock disturb a submission.
LEMMA ServiceStep ==
  ASSUME LifecycleInv, LifecycleTypeOK', NEW id \in Runs,
         Service(id) \/ MarkLate(id) \/ RecordInfrastructure(id)
  PROVE  LifecycleInv'
<1>0. /\ TypeOK /\ {"minimal", "late"} \subseteq Policies /\ UNCHANGED clientVars
      /\ OrderlyRun(id) /\ id \in Rows
  BY DEF LifecycleInv, LifecycleTypeOK, Policies, Service, MarkLate, RecordInfrastructure,
         FailExpiredPause, ClockPasses, MarkFlowRunAsLate, SetFlowRunState,
         UpdateInfrastructurePid
<1>1. /\ runs[id] \in FlowRun /\ runs[id] # None /\ runs[id].state # NoState
      /\ runs[id].state \in State
  BY <1>0, RowType DEF OrderlyRun, Rows, FlowRun
<1> DEFINE r == runs[id]
           s == runs'[id]
<1>2. CASE FailExpiredPause(id)
  <2> DEFINE p == Plain("FAILED")
             v == Verdict("minimal", r, p, limit)
  <2>0. p \in State /\ p.type = "FAILED"
    BY WrittenStatesType, WrittenFields DEF StateTypes
  <2>1. SetFlowRunState(id, p, "minimal") /\ TypeOf(r) = "PAUSED"
    BY <1>2 DEF FailExpiredPause
  <2> HIDE DEF p
  <2>2. /\ s \in FlowRun /\ runs' = [runs EXCEPT ![id] = s]
        /\ s.state = IF v.state = NoState THEN r.state ELSE v.state
    BY <1>0, <2>0, <2>1, RowAfter
  <2>3. v.state = p
    BY <2>0 DEF Verdict, BypassCancellingFlowRunsWithNoInfra, If, Pass
  <2>4. s.state # NoState /\ TypeOf(s) = "FAILED"
    BY <2>0, <2>2, <2>3, RulesAssumption DEF TypeOf
  <2>5. ManyWorkers(world) => Quiet(id)
    BY <1>0, <2>1 DEF OrderlyRun, ManyInv, Follows, Quiet
  <2> HIDE DEF s
  <2> QED BY <1>0, <2>2, <2>4, <2>5, RowStep DEF Settled, Tolerable
<1>3. CASE ClockPasses(id)
  <2> DEFINE e == Elapsed(r.state)
  <2>1. /\ e \in State /\ e.type = r.state.type
        /\ e.pause_reschedule = r.state.pause_reschedule
        /\ r.state.pause_timeout = "past" => e.pause_timeout = "past"
    BY <1>1 DEF Elapsed, State, Times
  <2>2. runs' = [runs EXCEPT ![id] = [r EXCEPT !.state = e]]
    BY <1>3 DEF ClockPasses
  <2> HIDE DEF e
  <2>3. s = [r EXCEPT !.state = e]
    BY <1>0, <2>2 DEF TypeOK, Rows
  <2>4. s \in FlowRun /\ s.state = e /\ s.retry_type = r.retry_type
    BY <1>1, <2>1, <2>3 DEF FlowRun
  <2>5. s.state # NoState /\ TypeOf(s) = TypeOf(r)
    BY <1>1, <2>1, <2>4, RulesAssumption DEF TypeOf
  <2>6. Quiet(id) => Settled(s)
    BY <1>0, <1>1, <2>1, <2>4, <2>5 DEF OrderlyRun, Settled
  <2>7. Tolerable(r, s)
    BY <2>1, <2>4, <2>5 DEF Tolerable
  <2>8. ManyWorkers(world) => TypeOf(s) # "CANCELLING"
    BY <1>0, <1>1, <2>5 DEF OrderlyRun, ManyInv
  <2>9. runs' = [runs EXCEPT ![id] = s]
    BY <2>2, <2>3
  <2> HIDE DEF s
  <2> QED BY <1>0, <2>4, <2>5, <2>6, <2>7, <2>8, <2>9, RowStep
<1>4. CASE MarkLate(id)
  <2> DEFINE p == Scheduled("Late", "past")
             v == Verdict("late", r, p, limit)
  <2>0. p \in State /\ p.type = "SCHEDULED"
    BY WrittenStatesType, WrittenFields DEF Names, Times
  <2>1. SetFlowRunState(id, p, "late")
    BY <1>4 DEF MarkLate, MarkFlowRunAsLate
  <2>2. TypeOf(r) # "SCHEDULED" => v.state = NoState
    BY <1>1, LateKeepsOthers DEF TypeOf, State
  <2> HIDE DEF p
  <2>3. /\ s \in FlowRun /\ runs' = [runs EXCEPT ![id] = s]
        /\ s.state = IF v.state = NoState THEN r.state ELSE v.state
        /\ s.retry_type = r.retry_type
    BY <1>0, <2>0, <2>1, RowAfter
  <2>4. v.state \in {NoState, p}
    BY DEF Verdict, EnsureOnlyScheduledFlowsMarkedLate, If, Pass, Reject
  <2>5. s.state = r.state \/ (TypeOf(r) = "SCHEDULED" /\ s.state = p)
    BY <2>2, <2>3, <2>4
  <2>6. s.state # NoState /\ TypeOf(s) = TypeOf(r)
    BY <1>1, <2>0, <2>5, RulesAssumption DEF TypeOf
  <2>7. Quiet(id) => Settled(s)
    BY <1>0, <1>1, <2>5, <2>6 DEF OrderlyRun, Settled
  <2>8. Tolerable(r, s)
    BY <2>3, <2>5, <2>6 DEF Tolerable
  <2>9. ManyWorkers(world) => TypeOf(s) # "CANCELLING"
    BY <1>0, <1>1, <2>6 DEF OrderlyRun, ManyInv
  <2> HIDE DEF s, v
  <2> QED BY <1>0, <2>3, <2>6, <2>7, <2>8, <2>9, RowStep
<1>5. CASE RecordInfrastructure(id)
  <2>1. runs' = [runs EXCEPT ![id] = [r EXCEPT !.infrastructure_pid = TRUE]]
    BY <1>5 DEF RecordInfrastructure, UpdateInfrastructurePid
  <2>2. s = [r EXCEPT !.infrastructure_pid = TRUE]
    BY <1>0, <2>1 DEF TypeOK, Rows
  <2>3. s \in FlowRun /\ s.state = r.state /\ s.retry_type = r.retry_type
    BY <1>1, <2>2 DEF FlowRun
  <2>4. TypeOf(s) = TypeOf(r)
    BY <2>3 DEF TypeOf
  <2>5. Quiet(id) => Settled(s)
    BY <1>0, <1>1, <2>3, <2>4 DEF OrderlyRun, Settled
  <2>6. Tolerable(r, s) /\ (ManyWorkers(world) => TypeOf(s) # "CANCELLING")
    BY <1>0, <1>1, <2>3, <2>4 DEF Tolerable, OrderlyRun, ManyInv
  <2>7. runs' = [runs EXCEPT ![id] = s]
    BY <2>1, <2>2
  <2> HIDE DEF s
  <2> QED BY <1>0, <1>1, <2>3, <2>4, <2>5, <2>6, <2>7, RowStep
<1> QED BY <1>2, <1>3, <1>4, <1>5 DEF Service

\* A run is created without a submission.
LEMMA CreateStep ==
  ASSUME \A p \in InitialStates : p.type = "SCHEDULED",
         LifecycleInv, LifecycleTypeOK', NEW id \in Runs, Create(id)
  PROVE  LifecycleInv'
<1>0. id \notin Rows /\ UNCHANGED clientVars /\ OrderlyRun(id) /\ "minimal" \in Policies
      /\ runs \in [Runs -> FlowRun \cup {None}] /\ limit \in ConcurrencyLimit
  BY DEF Create, CreateFlowRun, LifecycleInv, LifecycleTypeOK, TypeOK, Policies
<1>1. PICK p \in InitialStates :
        runs' = [runs EXCEPT ![id] = RunAfter("minimal", NewRun(id), p, limit,
                                       Verdict("minimal", NewRun(id), p, limit))]
  BY DEF Create, CreateFlowRun
<1> DEFINE r == NewRun(id)
           v == Verdict("minimal", r, p, limit)
           s == RunAfter("minimal", r, p, limit, v)
<1>2. p \in State /\ p.type = "SCHEDULED" /\ r \in FlowRun
  BY OrchestrationAssumption, NewRunType
<1>3. v.state = p
  BY <1>2 DEF Verdict, BypassCancellingFlowRunsWithNoInfra, If, Pass
<1>4. s \in FlowRun /\ s.state = p
  <2> HIDE DEF v
  <2> QED BY <1>0, <1>2, <1>3, RunAfterType, RulesAssumption
<1> HIDE DEF s
<1>5. /\ runs'[id] = s /\ \A i \in Runs \ {id} : runs'[i] = runs[i]
      /\ s # None /\ s.state # NoState /\ TypeOf(s) = "SCHEDULED"
  BY <1>0, <1>1, <1>2, <1>4, RulesAssumption DEF TypeOf, s
<1>6. /\ world' = world /\ listed' = listed /\ process' = process
      /\ watcher' = watcher /\ lost' = lost
  BY <1>0 DEF clientVars
<1>7. Quiet(id) /\ Quiet(id)'
  BY <1>0, <1>6 DEF OrderlyRun, Rows, Quiet
<1>8. OrderlyRun(id)'
  BY <1>0, <1>5, <1>6, <1>7 DEF OrderlyRun, Quiet, Settled, ManyInv, OneInv, Active
<1> QED BY <1>5, <1>6, <1>8, OneRun

\* A step of a submission that may forget its run only when this is settled.
LEMMA SubmissionStep ==
  ASSUME LifecycleInv, LifecycleTypeOK', NEW id \in Runs, NEW n \in Attempts, NEW x,
         world' = world, listed' = listed, lost' = lost,
         process' = [process EXCEPT ![id][n] = x],
         \A i \in Runs \ {id} : runs'[i] = runs[i] /\ watcher'[i] = watcher[i],
         x \in Active => process[id][n] \in Active /\ x # "submitted",
         x = "exited" => process[id][n] = "exited",
         runs[id] # None => runs'[id] # None /\ runs'[id].state # NoState,
         runs[id] = None => runs'[id] = None,
         runs'[id] # None /\ x \notin Active =>
           \/ Settled(runs'[id])
           \/ runs'[id].state = runs[id].state /\ process[id][n] \notin Active,
         ManyWorkers(world) =>
           /\ runs'[id] # None => TypeOf(runs'[id]) # "CANCELLING"
           /\ x \in Active => Follows(x, TypeOf(runs'[id]))
           /\ process[id][n] \notin Active => runs'[id] = runs[id]
           /\ \A m \in Attempts : watcher'[id][m] = "watching",
         ~ManyWorkers(world) /\ ~Quiet(id) =>
           /\ Tolerable(runs[id], runs'[id])
           /\ x \in Active /\ TypeOf(runs'[id]) = "PAUSED" =>
                \/ x \in {"polling", "failed", "reporting"}
                \/ runs'[id].state.pause_timeout = "past"
  PROVE  LifecycleInv'
<1>0. /\ OrderlyRun(id)
      /\ process \in [Runs -> [Attempts -> ProcessStates]]
  BY DEF LifecycleInv, LifecycleTypeOK
<1>1. /\ process'[id][n] = x
      /\ \A m \in Attempts \ {n} : process'[id][m] = process[id][m]
      /\ \A i \in Runs \ {id} : process'[i] = process[i]
  BY <1>0
<1>2. \A m \in Attempts : process'[id][m] \in Active => process[id][m] \in Active
  BY <1>1
<1>3. runs'[id] = None => \A m \in Attempts : process'[id][m] \notin Active \cup {"exited"}
  BY <1>0, <1>1, <1>2 DEF OrderlyRun
<1>4. runs'[id] # None /\ Quiet(id)' => Settled(runs'[id])
  <2> SUFFICES ASSUME runs'[id] # None, Quiet(id)',
                      runs'[id].state = runs[id].state, process[id][n] \notin Active
               PROVE  Settled(runs'[id])
    BY <1>1 DEF Quiet
  <2>1. Quiet(id) /\ runs[id] # None
    BY <1>1 DEF Quiet
  <2> QED BY <1>0, <2>1 DEF OrderlyRun, Settled, TypeOf
<1>5. ManyWorkers(world) => ManyInv(id)'
  BY <1>0, <1>1 DEF OrderlyRun, ManyInv
<1>6. ~ManyWorkers(world) => OneInv(id)'
  <2> SUFFICES ASSUME ~ManyWorkers(world) PROVE OneInv(id)'
    OBVIOUS
  <2>1. CASE Quiet(id)
    <3>1. \A m \in Attempts : process'[id][m] \notin Active
      BY <1>2, <2>1 DEF Quiet
    <3> QED BY <3>1 DEF OneInv, Quiet, Active
  <2>2. CASE ~Quiet(id)
    <3>1. OneInv(id) /\ Tolerable(runs[id], runs'[id])
      BY <1>0, <2>2 DEF OrderlyRun
    <3>2. \A m \in Attempts : process'[id][m] \in Active /\ TypeOf(runs'[id]) = "PAUSED" =>
            \/ process'[id][m] \in {"polling", "failed", "reporting"}
            \/ runs'[id].state.pause_timeout = "past"
      BY <1>1, <2>2, <3>1 DEF OneInv, Tolerable
    <3>3. \A m \in Attempts : process'[id][m] = "submitted" => TypeOf(runs'[id]) # "RUNNING"
      BY <1>1, <1>2, <3>1 DEF OneInv, Tolerable, Active
    <3> QED BY <2>2, <3>1, <3>2, <3>3 DEF OneInv, Tolerable
  <2> QED BY <2>1, <2>2
<1>7. OrderlyRun(id)'
  BY <1>0, <1>2, <1>3, <1>4, <1>5, <1>6 DEF OrderlyRun
<1> QED BY <1>1, <1>7, OneRun

-----------------------------------------------------------------------------
(* Processes and runners.                                                  *)

\* What happens to a process or its runner without the server.
LEMMA ClientStep ==
  ASSUME LifecycleInv, LifecycleTypeOK', NEW id \in Runs, NEW n \in Attempts,
         \/ StartProcess(id, n) \/ TimeOut(id, n) \/ PollPause(id, n) \/ Crash(id, n)
         \/ DetectCancelling(id, n) \/ Reap(id, n) \/ Retire(id, n)
  PROVE  LifecycleInv'
<1> DEFINE pc == process[id][n]
           x == process'[id][n]
<1>0. /\ OrderlyRun(id) /\ pc \in ProcessStates
      /\ process \in [Runs -> [Attempts -> ProcessStates]]
      /\ watcher \in [Runs -> [Attempts -> {"watching", "cancelling", "done"}]]
      /\ lost \in [Runs -> {None}]
  <2>1. lost \in [Runs -> [sender : Workers \cup Attempts, state : State] \cup {None}]
        /\ \A i \in Runs : lost[i] = None
    BY DEF LifecycleInv, LifecycleTypeOK, OrderlyRun
  <2> QED BY <2>1 DEF LifecycleInv, LifecycleTypeOK
<1>1. /\ world' = world /\ listed' = listed /\ runs' = runs
      /\ process' = [process EXCEPT ![id][n] = x]
  <2>1. \E y : process' = [process EXCEPT ![id][n] = y]
    BY DEF StartProcess, TimeOut, PollPause, Crash, DetectCancelling, Reap, Retire
  <2>2. process' = [process EXCEPT ![id][n] = x]
    BY <1>0, <2>1
  <2> QED BY <2>2 DEF StartProcess, TimeOut, PollPause, Crash, DetectCancelling, Reap, Retire
<1>2. lost' = lost
  <2>1. DetectCancelling(id, n) => lost' = [lost EXCEPT ![id] = None]
    BY <1>0 DEF DetectCancelling
  <2> QED BY <1>0, <2>1 DEF StartProcess, TimeOut, PollPause, Crash, Reap, Retire
<1>3. /\ \A i \in Runs \ {id} : watcher'[i] = watcher[i]
      /\ ManyWorkers(world) => \A m \in Attempts : watcher'[id][m] = "watching"
  <2>1. CASE DetectCancelling(id, n)
    <3>1. ~ManyWorkers(world)
      BY <1>0, <2>1 DEF OrderlyRun, ManyInv, DetectCancelling, Mapped, Alive, Active
    <3> QED BY <1>0, <2>1, <3>1 DEF DetectCancelling
  <2>2. CASE Retire(id, n)
    BY <1>0, <2>2 DEF Retire, OrderlyRun, ManyInv
  <2>3. CASE watcher' = watcher
    BY <1>0, <2>3 DEF OrderlyRun, ManyInv
  <2> QED BY <2>1, <2>2, <2>3 DEF StartProcess, TimeOut, PollPause, Crash, Reap
<1>m. \/ pc = "submitted" /\ x \in {"starting", "reporting"}
      \/ pc = "running" /\ x = "timed_out" /\ "timeout" \in world.behaviours
      \/ pc = "polling" /\ x = "running"
         /\ (TypeOf(runs[id]) = "PAUSED" => runs[id].state.pause_timeout = "past")
      \/ pc \in Alive /\ x = "failed"
      \/ pc \in Alive /\ x = "sigterm" /\ TypeOf(runs[id]) = "CANCELLING"
      \/ pc \in Mapped \ Alive /\ x = pc /\ TypeOf(runs[id]) = "CANCELLING"
      \/ pc = "failed" /\ x = "reporting"
      \/ pc = "exited" /\ x = "reaped"
      \/ pc = "reaped" /\ x = "unused"
  BY <1>0 DEF StartProcess, TimeOut, PollPause, Crash, DetectCancelling, Reap, Retire
<1> HIDE DEF x, pc
<1>4. /\ pc \in Active <=> x \in Active
      /\ x # "submitted" /\ (x = "exited" => pc = "exited")
  BY <1>m DEF Active, Alive, Mapped
<1>6. ManyWorkers(world) /\ x \in Active => Follows(x, TypeOf(runs[id]))
  <2> SUFFICES ASSUME ManyWorkers(world), pc \in Active
               PROVE  Follows(x, TypeOf(runs[id]))
    BY <1>4
  <2>1. Follows(pc, TypeOf(runs[id]))
    BY <1>0 DEF OrderlyRun, ManyInv, pc
  <2>2. "timeout" \notin world.behaviours
    BY DEF ManyWorkers
  <2> QED BY <1>m, <2>1, <2>2 DEF Follows, Alive, Mapped, Active
<1>7. ~ManyWorkers(world) /\ x \in Active /\ TypeOf(runs[id]) = "PAUSED" =>
        \/ x \in {"polling", "failed", "reporting"}
        \/ runs[id].state.pause_timeout = "past"
  <2> SUFFICES ASSUME ~ManyWorkers(world), pc \in Active, TypeOf(runs[id]) = "PAUSED",
                      runs[id].state.pause_timeout # "past"
               PROVE  x \in {"failed", "reporting"}
    BY <1>4
  <2>1. ~Quiet(id)
    BY DEF Quiet, pc
  <2>2. pc \in {"polling", "failed", "reporting"}
    BY <1>0 DEF OrderlyRun, OneInv, pc
  <2> QED BY <1>m, <2>2 DEF Alive, Mapped
<1>8. Tolerable(runs[id], runs'[id])
  BY <1>1 DEF Tolerable
<1>9. runs[id] # None => runs[id].state # NoState
  BY <1>0 DEF OrderlyRun
<1>10. ManyWorkers(world) /\ runs[id] # None => TypeOf(runs[id]) # "CANCELLING"
  BY <1>0 DEF OrderlyRun, ManyInv
<1> HIDE DEF x
<1> QED BY <1>1, <1>2, <1>3, <1>4, <1>6, <1>7, <1>8, <1>9, <1>10, SubmissionStep DEF pc

\* A forced state that ends a run.
LEMMA ForcedState ==
  ASSUME LifecycleInv, NEW id \in Runs, NEW t \in {"CRASHED", "CANCELLED"},
         SetFlowRunState(id, Plain(t), "minimal")
  PROVE  /\ id \in Rows /\ runs'[id] \in FlowRun
         /\ \A i \in Runs \ {id} : runs'[i] = runs[i]
         /\ runs'[id].state = Plain(t) /\ runs'[id].state # NoState
         /\ TypeOf(runs'[id]) = t
<1> DEFINE r == runs[id]
           s == runs'[id]
           p == Plain(t)
           v == Verdict("minimal", r, p, limit)
<1>0. TypeOK /\ "minimal" \in Policies /\ p \in State /\ p.type = t
      /\ runs \in [Runs -> FlowRun \cup {None}]
  BY WrittenStatesType, WrittenFields
     DEF LifecycleInv, LifecycleTypeOK, Policies, StateTypes, TypeOK
<1> HIDE DEF p
<1>1. /\ s \in FlowRun /\ runs' = [runs EXCEPT ![id] = s]
      /\ s.state = IF v.state = NoState THEN r.state ELSE v.state
  BY <1>0, RowAfter DEF p
<1>2. v.state = p
  BY <1>0 DEF Verdict, BypassCancellingFlowRunsWithNoInfra, If, Pass
<1>3. s.state = p /\ s.state # NoState
  BY <1>0, <1>1, <1>2, RulesAssumption
<1>4. TypeOf(s) = t
  BY <1>0, <1>3 DEF TypeOf
<1> QED BY <1>0, <1>1, <1>3, <1>4 DEF SetFlowRunState, p

\* A report that a process crashed leaves a settled run behind.
LEMMA ReportOutcome ==
  ASSUME NEW r \in FlowRun, NEW s \in FlowRun, NEW v, r.state # NoState,
         s.state = IF v.state = NoState THEN r.state ELSE v.state,
         CoreOutcome(r, Plain("CRASHED"), v)
  PROVE  /\ s.state # NoState /\ Settled(s)
         /\ TypeOf(s) = "CANCELLING" => TypeOf(r) = "CANCELLING"
<1> DEFINE p == Plain("CRASHED")
<1>0. /\ r.state \in State /\ TypeOf(r) = r.state.type /\ NoState \notin State
      /\ p.type = "CRASHED" /\ p \in State
  BY RulesAssumption, WrittenStatesType DEF TypeOf, FlowRun, Plain, StateTypes
<1>s. Plain("FAILED") \in State /\ Plain("FAILED").type = "FAILED"
  BY WrittenStatesType DEF Plain, StateTypes
<1> HIDE DEF p
<1>1. CASE v.status = "ACCEPT" /\ v.state \in State
           /\ v.state = [p EXCEPT !.scheduled_time = v.state.scheduled_time]
  <2>1. s.state = v.state /\ v.state.type = "CRASHED"
    BY <1>0, <1>1 DEF State
  <2> QED BY <2>1, <1>0, <1>1 DEF TypeOf, Settled
<1>2. CASE v \in {Abort, Reject(NoState)}
           /\ \/ TypeOf(r) \in TERMINAL_STATES \cup {"CANCELLED", "CANCELLING"}
              \/ TypeOf(r) = "PAUSED" /\ r.state.pause_reschedule
  <2>1. s.state = r.state
    BY <1>2 DEF Abort, Reject
  <2> QED BY <1>0, <1>2, <2>1 DEF TypeOf, Settled, TERMINAL_STATES
<1>3. CASE v = Reject(Plain("FAILED"))
  <2>1. s.state = Plain("FAILED")
    BY <1>0, <1>3, <1>s DEF Reject
  <2> QED BY <1>0, <1>s, <2>1 DEF TypeOf, Settled
<1> QED BY <1>0, <1>1, <1>2, <1>3 DEF CoreOutcome, TERMINAL_STATES, IsFinal, p

\* What processes and runners write on their way out.
LEMMA EndStep ==
  ASSUME LifecycleInv, LifecycleTypeOK', NEW id \in Runs, NEW n \in Attempts,
         Terminate(id, n) \/ ReportCrashed(id, n) \/ MarkCancelled(id, n)
  PROVE  LifecycleInv'
<1>0. /\ OrderlyRun(id) /\ world' = world /\ listed' = listed /\ lost' = lost
      /\ process \in [Runs -> [Attempts -> ProcessStates]]
      /\ watcher \in [Runs -> [Attempts -> {"watching", "cancelling", "done"}]]
      /\ runs[id] # None => runs[id].state # NoState
      /\ ManyWorkers(world) => ManyInv(id)
  BY DEF LifecycleInv, LifecycleTypeOK, OrderlyRun, Terminate, ReportCrashed, MarkCancelled
<1>1. CASE Terminate(id, n)
  <2>1. ~ManyWorkers(world) /\ ~Quiet(id)
    BY <1>0, <1>1 DEF Terminate, ManyInv, Follows, Active, Quiet
  <2>2. runs[id] # None
    BY <1>0, <2>1 DEF OrderlyRun, Quiet
  <2>3. /\ \A i \in Runs \ {id} : runs'[i] = runs[i]
        /\ Tolerable(runs[id], runs'[id])
        /\ runs'[id] # None /\ runs'[id].state # NoState
    <3>1. CASE runs' = runs
      BY <1>0, <2>2, <3>1 DEF Tolerable
    <3>2. CASE SetFlowRunState(id, Plain("CRASHED"), "minimal")
      BY <3>2, ForcedState, RulesAssumption DEF Tolerable
    <3> QED BY <1>1, <3>1, <3>2 DEF Terminate
  <2>4. process' = [process EXCEPT ![id][n] = "failed"] /\ watcher' = watcher
        /\ process[id][n] \in Active
    BY <1>1 DEF Terminate, Active
  <2> QED BY <1>0, <2>1, <2>2, <2>3, <2>4, SubmissionStep DEF Active
<1>2. CASE ReportCrashed(id, n)
  <2> DEFINE p == Plain("CRASHED")
             r == runs[id]
             s == runs'[id]
             v == Verdict("core", r, p, limit)
  <2>0. /\ TypeOK /\ "core" \in Policies /\ limit \in ConcurrencyLimit
        /\ p \in State /\ p.transition_id = None
        /\ runs \in [Runs -> FlowRun \cup {None}]
    BY ProposedStates DEF LifecycleInv, LifecycleTypeOK, Policies, StateTypes, TypeOK
  <2>1. SetFlowRunState(id, p, "core") /\ process[id][n] = "reporting"
        /\ process' = [process EXCEPT ![id][n] = "reaped"] /\ watcher' = watcher
    BY <1>2 DEF ReportCrashed
  <2> HIDE DEF p
  <2>2. /\ r \in FlowRun /\ s \in FlowRun /\ runs' = [runs EXCEPT ![id] = s]
        /\ s.state = IF v.state = NoState THEN r.state ELSE v.state
    BY <2>0, <2>1, RowAfter
  <2>3. CoreOutcome(r, p, v)
    BY <2>0, <2>2, CoreCases
  <2>4. r # None /\ s # None /\ r.state # NoState
    BY <1>0, <2>1, <2>2, RulesAssumption DEF SetFlowRunState, Rows
  <2>5. /\ s.state # NoState /\ Settled(s)
        /\ TypeOf(s) = "CANCELLING" => TypeOf(r) = "CANCELLING"
    <3> HIDE DEF r, s, v
    <3> QED BY <2>2, <2>3, <2>4, ReportOutcome DEF p
  <2> HIDE DEF v
  <2>6. \A i \in Runs \ {id} : runs'[i] = runs[i]
    BY <2>0, <2>2
  \* The submission was the active one, so its run is left alone.
  <2>7. /\ process'[id][n] = "reaped"
        /\ \A m \in Attempts \ {n} : process'[id][m] = process[id][m]
        /\ \A i \in Runs \ {id} : process'[i] = process[i]
    BY <1>0, <2>1
  <2>8. \A m \in Attempts : process'[id][m] \notin Active
    BY <1>0, <2>1, <2>7 DEF OrderlyRun, Active
  <2>9. OrderlyRun(id)'
    BY <1>0, <2>1, <2>4, <2>5, <2>8 DEF OrderlyRun, Quiet, ManyInv, OneInv, Active
  <2> QED BY <1>0, <2>1, <2>6, <2>7, <2>9, OneRun
<1>3. CASE MarkCancelled(id, n)
  <2>1. ~ManyWorkers(world)
    BY <1>0, <1>3 DEF MarkCancelled, ManyInv
  <2>2. /\ \A i \in Runs \ {id} : runs'[i] = runs[i]
        /\ TypeOf(runs'[id]) = "CANCELLED" /\ runs[id] # None
        /\ runs'[id] # None /\ runs'[id].state # NoState
    BY <1>3, ForcedState, RulesAssumption DEF MarkCancelled, Rows
  <2>3. Tolerable(runs[id], runs'[id]) /\ Settled(runs'[id])
    BY <2>2 DEF Tolerable, Settled
  <2>4. process' = process /\ \A i \in Runs \ {id} : watcher'[i] = watcher[i]
    BY <1>0, <1>3 DEF MarkCancelled
  <2>5. OrderlyRun(id)'
    BY <1>0, <2>1, <2>2, <2>3, <2>4 DEF OrderlyRun, OneInv, Quiet, Tolerable
  <2> QED BY <1>0, <2>2, <2>4, <2>5, OneRun
<1> QED BY <1>1, <1>2, <1>3

\* The requests of processes, in the worlds and in the places where they are made.
LEMMA RequestStep ==
  ASSUME LifecycleInv, LifecycleTypeOK', NEW id \in Runs, NEW n \in Attempts,
         \/ ProposeRunning(id, n) \/ Succeed(id, n) \/ Fail(id, n)
         \/ ProposeTimedOut(id, n) \/ Pause(id, n)
  PROVE  LifecycleInv'
<1>0. /\ \A t \in {"RUNNING", "COMPLETED", "FAILED"} :
           Plain(t) \in State /\ Plain(t).transition_id = None /\ Plain(t).type = t
      /\ ManyWorkers(world) => world.behaviours \subseteq {"suspend", "crash"}
      /\ OrderlyRun(id) /\ world.timeouts \subseteq {None, "future"}
  BY ProposedStates, WrittenFields, LifecycleAssumption
     DEF StateTypes, ManyWorkers, LifecycleInv, LifecycleTypeOK, World
<1>1. CASE ProposeRunning(id, n)
  BY <1>0, <1>1, ProcessStep DEF ProposeRunning, ProcessRequest
<1>2. CASE Succeed(id, n)
  BY <1>0, <1>2, ProcessStep DEF Succeed, ProcessRequest
<1>3. CASE Fail(id, n)
  BY <1>0, <1>3, ProcessStep DEF Fail, ProcessRequest
<1>4. CASE ProposeTimedOut(id, n)
  <2>1. ~ManyWorkers(world)
    BY <1>0, <1>4 DEF ProposeTimedOut, ProcessRequest, OrderlyRun, ManyInv, Follows, Active
  <2> QED BY <1>0, <1>4, <2>1, ProcessStep DEF ProposeTimedOut, ProcessRequest
<1>5. CASE Pause(id, n)
  <2>1. PICK k \in Keys, t \in {None, "future"}, b \in BOOLEAN :
          /\ (IF b THEN "suspend" ELSE "pause") \in world.behaviours
          /\ ProcessRequest(id, n, {"running"}, Paused(k, t, b))
    BY <1>0, <1>5 DEF Pause
  <2>2. /\ Paused(k, t, b) \in State /\ Paused(k, t, b).transition_id = None
        /\ Paused(k, t, b).type = "PAUSED" /\ Paused(k, t, b).pause_reschedule = b
    BY ProposedStates
  <2>3. ManyWorkers(world) => b
    BY <1>0, <2>1
  <2> QED BY <2>1, <2>2, <2>3, ProcessStep DEF ProcessRequest
<1> QED BY <1>1, <1>2, <1>3, <1>4, <1>5

-----------------------------------------------------------------------------
(* Every step.                                                             *)

\* The invariant holds in the beginning, when nothing has been created.
LEMMA LifecycleInvInit ==
  ASSUME \A w \in Worlds : Orderly(w)
  PROVE  LifecycleInit => LifecycleInv
<1> SUFFICES ASSUME LifecycleInit PROVE LifecycleInv
  OBVIOUS
<1>1. LifecycleTypeOK /\ Orderly(world)
  BY LifecycleTypeInit DEF LifecycleInit
<1>2. ASSUME NEW id \in Runs PROVE OrderlyRun(id)
  BY DEF LifecycleInit, Init, OrderlyRun, Quiet, Active, ManyInv, OneInv
<1> QED BY <1>1, <1>2 DEF LifecycleInv, LifecycleInit

\* Every step keeps it: one case for each kind of action.
LEMMA LifecycleInvStep ==
  ASSUME \A p \in InitialStates : p.type = "SCHEDULED",
         LifecycleInv, [LifecycleNext]_lifecycleVars
  PROVE  LifecycleInv'
<1>0. LifecycleTypeOK'
  BY LifecycleSteps DEF LifecycleInv
<1>1. CASE UNCHANGED lifecycleVars
  BY <1>0, <1>1 DEF LifecycleInv, OrderlyRun, Quiet, ManyInv, OneInv, lifecycleVars
<1>2. ASSUME NEW w \in Workers, Poll(w) PROVE LifecycleInv'
  BY <1>0, <1>2, PollStep
<1>3. ASSUME NEW w \in Workers, NEW id \in Runs, ProposePending(w, id) PROVE LifecycleInv'
  BY <1>0, <1>3, SubmitStep
<1>4. ASSUME NEW id \in Runs, Create(id) PROVE LifecycleInv'
  BY <1>0, <1>4, CreateStep
<1>5. ASSUME NEW id \in Runs, Cancel(id) \/ Resume(id) \/ Rerun(id) PROVE LifecycleInv'
  BY <1>0, <1>5, UserStep
<1>6. ASSUME NEW id \in Runs, Service(id) \/ MarkLate(id) \/ RecordInfrastructure(id)
      PROVE  LifecycleInv'
  BY <1>0, <1>6, ServiceStep
<1>7. ASSUME NEW id \in Runs PROVE ~SuspendOther(id) /\ ~Resend(id)
  BY DEF SuspendOther, Resend, LifecycleInv, OrderlyRun, Orderly, ManyWorkers, OneWorker
<1>8. ASSUME NEW id \in Runs, NEW n \in Attempts,
             \/ StartProcess(id, n) \/ TimeOut(id, n) \/ PollPause(id, n) \/ Crash(id, n)
             \/ DetectCancelling(id, n) \/ Reap(id, n) \/ Retire(id, n)
      PROVE  LifecycleInv'
  BY <1>0, <1>8, ClientStep
<1>9. ASSUME NEW id \in Runs, NEW n \in Attempts,
             \/ ProposeRunning(id, n) \/ Succeed(id, n) \/ Fail(id, n)
             \/ ProposeTimedOut(id, n) \/ Pause(id, n)
      PROVE  LifecycleInv'
  BY <1>0, <1>9, RequestStep
<1>10. ASSUME NEW id \in Runs, NEW n \in Attempts,
              Terminate(id, n) \/ ReportCrashed(id, n) \/ MarkCancelled(id, n)
       PROVE  LifecycleInv'
  BY <1>0, <1>10, EndStep
<1> QED BY <1>1, <1>2, <1>3, <1>4, <1>5, <1>6, <1>7, <1>8, <1>9, <1>10
        DEF LifecycleNext, Step

\* So it always holds.
LEMMA LifecycleInvariant ==
  ASSUME \A w \in Worlds : Orderly(w), \A p \in InitialStates : p.type = "SCHEDULED"
  PROVE  LifecycleSpec => []LifecycleInv
<1>1. LifecycleInit => LifecycleInv
  BY LifecycleInvInit
<1>2. LifecycleInv /\ [LifecycleNext]_lifecycleVars => LifecycleInv'
  BY LifecycleInvStep
<1> QED BY <1>1, <1>2, PTL DEF LifecycleSpec

\* A set without two different elements has at most one.
LEMMA AtMostOne ==
  ASSUME NEW S, \A n, m \in S : n = m
  PROVE  Cardinality(S) <= 1
<1>1. CASE S = {}
  BY <1>1, FS_EmptySet
<1>2. CASE S # {}
  <2>1. PICK n \in S : TRUE
    BY <1>2
  <2>2. S = {n}
    BY <2>1
  <2>3. Cardinality({n}) = 1
    BY FS_Singleton
  <2> QED BY <2>2, <2>3
<1> QED BY <1>1, <1>2

\* In the orderly worlds a run has one submission at most that has not started to run,
\* however old the lists of the workers are (PreventPendingTransitions, _submit_run).
THEOREM SubmittedAtMostOnce ==
  ASSUME \A w \in Worlds : Orderly(w), \A p \in InitialStates : p.type = "SCHEDULED"
  PROVE  LifecycleSpec => []SubmittedOnce
<1>1. LifecycleInv => SubmittedOnce
  <2> SUFFICES ASSUME LifecycleInv, NEW id \in Runs
               PROVE  Cardinality(In(id, {"submitted", "starting"})) <= 1
    BY DEF SubmittedOnce
  <2>1. \A n, m \in In(id, {"submitted", "starting"}) : n = m
    BY DEF LifecycleInv, OrderlyRun, Active, In
  <2> QED BY <2>1, AtMostOne
<1> QED BY <1>1, LifecycleInvariant, PTL

\* There, one process at most executes a run, through retries, pauses, suspensions, crashes
\* and reruns.
THEOREM ExecutedAtMostOnce ==
  ASSUME \A w \in Worlds : Orderly(w), \A p \in InitialStates : p.type = "SCHEDULED"
  PROVE  LifecycleSpec => []ExecutedOnce
<1> DEFINE pcs == {"running", "timed_out", "awaiting_retry", "polling"}
<1>1. LifecycleInv => ExecutedOnce
  <2> SUFFICES ASSUME LifecycleInv, NEW id \in Runs
               PROVE  Cardinality(In(id, pcs)) <= 1
    BY DEF ExecutedOnce
  <2>1. \A n, m \in In(id, pcs) : n = m
    BY DEF LifecycleInv, OrderlyRun, Active, In
  <2> QED BY <2>1, AtMostOne
<1> QED BY <1>1, LifecycleInvariant, PTL

\* There, a run that is RUNNING has a process, or a runner that is about to report it.
THEOREM RunningRunsHaveProcesses ==
  ASSUME \A w \in Worlds : Orderly(w), \A p \in InitialStates : p.type = "SCHEDULED"
  PROVE  LifecycleSpec => []RunningHasProcess
<1>1. LifecycleInv => RunningHasProcess
  <2> SUFFICES ASSUME LifecycleInv, NEW id \in Rows, TypeOf(runs[id]) = "RUNNING"
               PROVE  In(id, Mapped \cup {"reporting"}) # {}
    BY DEF RunningHasProcess
  <2>1. OrderlyRun(id) /\ runs[id] # None
    BY DEF LifecycleInv, Rows
  <2>2. PICK n \in Attempts : process[id][n] \in Active
    BY <2>1 DEF OrderlyRun, Settled, Quiet
  <2>3. process[id][n] # "submitted"
    BY <2>1, <2>2 DEF OrderlyRun, ManyInv, OneInv, Follows, Active
  <2> QED BY <2>2, <2>3 DEF In, Active, Mapped, Alive
<1> QED BY <1>1, LifecycleInvariant, PTL

-----------------------------------------------------------------------------
(* The limit as a pool of slots.                                           *)

\* A run that is admitted under the current policy has taken a slot.
LEMMA AdmittedTakesSlot ==
  ASSUME NEW r \in FlowRun, NEW p \in State, NEW l \in ConcurrencyLimit,
         p.type = "PENDING", r.deployment, l.limit # None, TypeOf(r) \notin SlotStates,
         NEW final \in State, final = Verdict("core", r, p, l).state, final.type = "PENDING"
  PROVE  LimitAfter("core", r, p, l, final) = [l EXCEPT !.active_slots = @ + 1]
         /\ HasFreeSlot(l)
<1> DEFINE c == CoreFlowPolicy("core", r, p, l)
           u == CoreUpToSecuring(r, p)
           q == SecureFlowConcurrencySlots(r, p, l)
           e == EnsureOnlyScheduledFlowsMarkedLate(r, p)
           h == HandlePausingFlows(r, p)
           d9 == HandleResumingPausedFlows(r, p)
           d10 == WaitForScheduledTime(r, p)
           d11 == RetryFailedFlows(r, p)
<1>0. /\ final # NoState /\ WantsSlot(r, p, l)
  BY RulesAssumption DEF WantsSlot
<1>1. c \in RuleVerdicts
  BY PoliciesClosed
<1>2. c = Pass
  <2>1. c # Pass => final = c.state
    <3> HIDE DEF c
    <3> QED BY DEF Verdict, c
  <2>2. \A w \in RuleVerdicts : w.state # NoState => w.state.type # "PENDING"
    BY WrittenFields DEF RuleVerdicts, Pass, Abort, Wait, Reject
  <2> QED BY <1>0, <1>1, <2>1, <2>2
<1>3. u = Pass /\ q = Pass
  <2> HIDE DEF u, q, e, h, d9, d10, d11, c
  <2>1. c = (u ++ (q ++ (e ++ h))) ++ (d9 ++ (d10 ++ d11))
    BY DEF CoreFlowPolicy, CoreUpToPausing, If, c, u, q, e, h, d9, d10, d11
  <2> QED BY <1>2, <2>1, ChainPass
<1>4. l.limit # 0 /\ HasFreeSlot(l)
  BY <1>0, <1>3 DEF SecureFlowConcurrencySlots, If, ++, Abort, Reject, Pass
<1>5. SlotSecured("core", r, p, l)
  BY <1>0, <1>3, <1>4 DEF SlotSecured
<1>6. ~SlotReleased("core", r, final)
  BY DEF SlotReleased
<1> QED BY <1>0, <1>4, <1>5, <1>6 DEF LimitAfter

\* The limit counts exactly the runs that hold a slot.
SlotsExact == limit.limit # None /\ limit.active_slots = Cardinality(Holders)

\* A request by which a run enters the slot states only if it asked for PENDING.
Enters(id, p, policy) ==
  /\ SetFlowRunState(id, p, policy)
  /\ policy = "late" => p = Scheduled("Late", "past")
  /\ TypeOf(runs'[id]) \in SlotStates /\ TypeOf(runs[id]) \notin SlotStates =>
       policy = "core" /\ p.type = "PENDING"

\* Such a request moves one run into the pool or out of it, if it moves any.
LEMMA ExactStep ==
  ASSUME TypeOK, SlotsExact, NEW id \in Runs, NEW p \in State,
         NEW policy \in {"core", "minimal", "late"}, Enters(id, p, policy)
  PROVE  /\ SlotsExact' /\ limit'.limit = limit.limit
         /\ \/ Holders' = Holders
            \/ /\ id \notin Holders /\ Holders' = Holders \cup {id}
               /\ Cardinality(Holders) < limit.limit
            \/ id \in Holders /\ Holders' = Holders \ {id}
<1> DEFINE r == runs[id]
           s == runs'[id]
           v == Verdict(policy, r, p, limit)
           m == LimitAfter(policy, r, p, limit, v.state)
           N == Cardinality(Holders)
           M == Cardinality(Holders')
<1>0. /\ SetFlowRunState(id, p, policy) /\ policy \in Policies
      /\ limit \in ConcurrencyLimit /\ limit.active
  BY DEF Enters, Policies, TypeOK
<1>1. /\ r \in FlowRun /\ s \in FlowRun /\ runs' = [runs EXCEPT ![id] = s]
      /\ v.state \in State \cup {NoState}
      /\ s.state = IF v.state = NoState THEN r.state ELSE v.state
  BY <1>0, RowAfter
<1>2. limit' = m
  BY <1>0 DEF SetFlowRunState
<1>3. s.deployment = r.deployment
  <2>1. s = RunAfter(policy, r, p, limit, v)
    <3>1. runs' = [runs EXCEPT ![id] = RunAfter(policy, r, p, limit, v)]
      BY <1>0 DEF SetFlowRunState
    <3> QED BY <3>1 DEF TypeOK
  <2> HIDE DEF v, r, s
  <2> QED BY <1>0, <1>1, <2>1, RunAfterType
<1>4. TypeOf(s) = IF v.state = NoState THEN TypeOf(r) ELSE v.state.type
  <2> HIDE DEF v, r, s
  <2> QED BY <1>1, RulesAssumption DEF TypeOf
<1>5. r # None /\ s # None
  BY <1>1, RulesAssumption
<1>6. /\ m \in ConcurrencyLimit /\ m.limit = limit.limit
      /\ \/ /\ m = [limit EXCEPT !.active_slots = @ + 1]
            /\ HasFreeSlot(limit)
            /\ r.deployment /\ TypeOf(r) \notin SlotStates
            /\ v.state # NoState /\ v.state.type = "PENDING"
         \/ /\ SlotReleased(policy, r, v.state) => m = Decrement(limit)
            /\ ~SlotReleased(policy, r, v.state) => m.active_slots = limit.active_slots
  <2> DEFINE l == limit
             final == v.state
  <2>1. policy \in Policies /\ r \in FlowRun /\ l \in ConcurrencyLimit
        /\ final \in State \cup {NoState}
    BY <1>0, <1>1
  <2>2. m = LimitAfter(policy, r, p, l, final)
    OBVIOUS
  <2> HIDE DEF v, r, m, l, final
  <2>3. /\ m \in ConcurrencyLimit /\ m.limit = l.limit
        /\ \/ /\ m = [l EXCEPT !.active_slots = @ + 1]
              /\ HasFreeSlot(l)
              /\ r.deployment /\ TypeOf(r) \notin SlotStates
              /\ final # NoState /\ final.type = "PENDING"
           \/ /\ SlotReleased(policy, r, final) => m = Decrement(l)
              /\ ~SlotReleased(policy, r, final) => m.active_slots = l.active_slots
    BY <2>1, <2>2, LimitAfterCases
  <2> QED BY <2>3 DEF l, final
<1>7. /\ N \in Nat /\ (id \in Holders <=> Holds(r))
      /\ Holders' = IF Holds(s) THEN Holders \cup {id} ELSE Holders \ {id}
      /\ M = IF Holds(s) /\ ~Holds(r) THEN N + 1
             ELSE IF ~Holds(s) /\ Holds(r) THEN N - 1 ELSE N
  BY <1>1, HoldersStep
<1>8. limit.active_slots = N /\ limit.limit # None /\ limit.limit \in Nat \cup {None}
  BY <1>0 DEF SlotsExact, ConcurrencyLimit
<1>9. Holds(s) /\ ~Holds(r) => m = [limit EXCEPT !.active_slots = @ + 1] /\ HasFreeSlot(limit)
  <2> SUFFICES ASSUME Holds(s), ~Holds(r)
               PROVE  m = [limit EXCEPT !.active_slots = @ + 1] /\ HasFreeSlot(limit)
    OBVIOUS
  <2>1. r.deployment /\ TypeOf(r) \notin SlotStates /\ TypeOf(s) \in SlotStates
    BY <1>3, <1>5 DEF Holds
  <2>2. policy = "core" /\ p.type = "PENDING"
    BY <2>1 DEF Enters
  <2>3. v.state # NoState /\ v.state.type \in SlotStates
    BY <1>4, <2>1
  <2>4. v.state.type = "PENDING"
    <3> HIDE DEF v, r
    <3>1. \/ v.state \in State /\ v.state.type = p.type
          \/ v \in RuleVerdicts \ {Pass}
      BY <1>0, <1>1, VerdictCases DEF v
    <3>2. \A w \in RuleVerdicts : w.state # NoState => w.state.type \notin SlotStates
      BY WrittenFields DEF RuleVerdicts, Pass, Abort, Wait, Reject, SlotStates
    <3> QED BY <2>2, <2>3, <3>1, <3>2
  <2> DEFINE f == v.state
  <2>5. f \in State /\ f = Verdict("core", r, p, limit).state /\ f.type = "PENDING"
        /\ m = LimitAfter("core", r, p, limit, f)
    BY <1>1, <2>2, <2>3, <2>4
  <2> HIDE DEF f, m, r, v
  <2> QED BY <1>0, <1>1, <1>8, <2>1, <2>2, <2>5, AdmittedTakesSlot
<1>10. ~Holds(s) /\ Holds(r) => m = Decrement(limit)
  <2> SUFFICES ASSUME ~Holds(s), Holds(r) PROVE m = Decrement(limit)
    OBVIOUS
  <2>1. r.deployment /\ TypeOf(r) \in SlotStates /\ TypeOf(s) \notin SlotStates
    BY <1>3, <1>5 DEF Holds
  <2>2. v.state # NoState /\ v.state.type \notin SlotStates
    BY <1>4, <2>1
  <2>3. policy # "late"
    BY <1>1, <2>1, <2>2, LateKeepsOthers DEF Enters, SlotStates, StateTypes
  <2>4. SlotReleased(policy, r, v.state)
    BY <2>1, <2>2, <2>3 DEF SlotReleased
  <2> HIDE DEF m, r, v
  <2> QED BY <1>6, <2>1, <2>4
<1>11. (Holds(s) <=> Holds(r)) => m.active_slots = limit.active_slots
  <2> SUFFICES ASSUME Holds(s) <=> Holds(r) PROVE m.active_slots = limit.active_slots
    OBVIOUS
  <2>1. ~SlotReleased(policy, r, v.state)
    BY <1>3, <1>4, <1>5 DEF Holds, SlotReleased
  <2>2. r.deployment /\ TypeOf(r) \notin SlotStates =>
          v.state = NoState \/ v.state.type # "PENDING"
    BY <1>3, <1>4, <1>5 DEF Holds, SlotStates
  <2> HIDE DEF m, r, v, s
  <2> QED BY <1>6, <2>1, <2>2
<1>12. Holds(r) => N > 0
  <2> SUFFICES ASSUME Holds(r) PROVE N # 0
    BY <1>7
  <2>1. id \in Holders /\ IsFiniteSet(Holders)
    BY <1>7, HoldersFinite
  <2> QED BY <2>1, FS_EmptySet
<1>13. m.active_slots = M
  <2> HIDE DEF m, r, s, N, M, Holds
  <2>1. CASE Holds(s) /\ ~Holds(r)
    BY <1>0, <1>7, <1>8, <1>9, <2>1 DEF ConcurrencyLimit
  <2>2. CASE ~Holds(s) /\ Holds(r)
    BY <1>0, <1>7, <1>8, <1>10, <1>12, <2>2, DecrementType
  <2>3. CASE Holds(s) <=> Holds(r)
    BY <1>7, <1>8, <1>11, <2>3
  <2> QED BY <2>1, <2>2, <2>3
<1>14. Holds(s) /\ ~Holds(r) => N < limit.limit
  <2> HIDE DEF m, r, s, N, Holds
  <2> QED BY <1>7, <1>8, <1>9 DEF HasFreeSlot
<1> HIDE DEF m, r, s, N, M, Holds
<1>15. SlotsExact' /\ limit'.limit = limit.limit
  BY <1>2, <1>6, <1>8, <1>13 DEF SlotsExact, M
<1> QED BY <1>7, <1>14, <1>15 DEF N

\* The worlds in which a run takes a slot whenever it starts.
Pools(w) == "pause" \notin w.behaviours /\ "cancel" \notin w.requests

\* There, a submission that has not ended is where the state of its run says.
PoolRun(id) ==
  /\ runs[id] # None =>
       /\ TypeOf(runs[id]) # "CANCELLING"
       /\ TypeOf(runs[id]) = "PAUSED" => runs[id].state.pause_reschedule
  /\ \A n \in Attempts :
       /\ process[id][n] \in Active =>
            \/ process[id][n] \in {"submitted", "starting"} /\ TypeOf(runs[id]) = "PENDING"
            \/ process[id][n] \in {"running", "timed_out"} /\ TypeOf(runs[id]) = "RUNNING"
            \/ process[id][n] \in {"failed", "reporting"}
       /\ watcher[id][n] # "cancelling"

\* The invariant of the pool.
PoolInv == LifecycleInv /\ Pools(world) /\ (\A id \in Runs : PoolRun(id)) /\ SlotsExact

\* A step keeps the pool if it only makes one run enter the slot states by asking for
\* PENDING, and leaves its submission in place.
EntersOrLeaves(id) ==
  \E p \in State, policy \in {"core", "minimal", "late"} : Enters(id, p, policy)

\* Where a process goes on an answer in these worlds, and what it leaves of its run.
LEMMA GoesOnInPool ==
  ASSUME Retries = None,
         NEW r \in FlowRun, NEW s \in FlowRun, NEW p \in State, NEW v, NEW pc,
         \/ pc = "starting" /\ TypeOf(r) = "PENDING" /\ p.type = "RUNNING"
         \/ pc = "running" /\ TypeOf(r) = "RUNNING"
            /\ p.type \in {"COMPLETED", "FAILED", "PAUSED"}
         \/ pc = "timed_out" /\ TypeOf(r) = "RUNNING" /\ p.type = "FAILED",
         p.type = "PAUSED" => p.pause_reschedule,
         r.state # NoState, s.state = IF v.state = NoState THEN r.state ELSE v.state,
         CoreOutcome(r, p, v), v # Granted, NEW x,
         x = GoesOn(pc, p, [status |-> v.status, type |-> TypeOf(s)])
  PROVE  /\ TypeOf(s) # "CANCELLING"
         /\ TypeOf(s) = "PAUSED" => s.state.pause_reschedule
         /\ \/ x = "starting" /\ TypeOf(s) = "PENDING"
            \/ x \in {"running", "timed_out"} /\ TypeOf(s) = "RUNNING"
            \/ x \in {"failed", "exited"}
<1>0. /\ r.state \in State /\ TypeOf(r) = r.state.type
      /\ NoState \notin State
  BY RulesAssumption DEF TypeOf, FlowRun
<1>1. CASE v.status = "ACCEPT" /\ v.state \in State
           /\ v.state = [p EXCEPT !.scheduled_time = v.state.scheduled_time]
  <2>1. s.state = v.state
    BY <1>0, <1>1
  <2>2. s.state.type = p.type /\ s.state.pause_reschedule = p.pause_reschedule
    BY <1>1, <2>1 DEF State
  <2>3. TypeOf(s) = p.type
    BY <2>1, <2>2, <1>0, <1>1 DEF TypeOf
  <2> QED BY <1>1, <2>2, <2>3 DEF GoesOn
<1>2. CASE v = Abort /\ p.type = "PAUSED"
  BY <1>0, <1>2 DEF GoesOn, Abort, TypeOf
<1>3. CASE v = Reject(NoState) /\ p.type = "PAUSED"
  BY <1>0, <1>3 DEF GoesOn, Reject, TypeOf
<1>4. CASE v = Wait /\ p.type = "RUNNING"
  BY <1>0, <1>4 DEF GoesOn, Wait, TypeOf
<1> QED BY <1>1, <1>2, <1>3, <1>4 DEF CoreOutcome, TERMINAL_STATES

\* The requests of processes.
LEMMA PoolRequest ==
  ASSUME Retries = None, PoolInv, NEW id \in Runs, NEW n \in Attempts,
         \/ ProposeRunning(id, n) \/ Succeed(id, n) \/ Fail(id, n)
         \/ ProposeTimedOut(id, n) \/ Pause(id, n)
  PROVE  EntersOrLeaves(id) /\ PoolRun(id)'
         /\ \A i \in Runs \ {id} : runs'[i] = runs[i] /\ process'[i] = process[i]
                                   /\ watcher'[i] = watcher[i]
<1> DEFINE pc == process[id][n]
           r == runs[id]
           s == runs'[id]
<1>0. /\ LifecycleTypeOK /\ TypeOK /\ OrderlyRun(id) /\ PoolRun(id)
      /\ "core" \in Policies /\ limit \in ConcurrencyLimit
      /\ process \in [Runs -> [Attempts -> ProcessStates]]
  BY DEF PoolInv, LifecycleInv, LifecycleTypeOK, TypeOK, Policies
<1>1. PICK p \in State :
        /\ p.transition_id = None /\ Request(id, n, p)
        /\ UNCHANGED <<world, listed, watcher>>
        /\ \/ pc \in {"starting", "awaiting_retry"} /\ p.type = "RUNNING"
           \/ pc = "running" /\ p.type \in {"COMPLETED", "FAILED", "PAUSED"}
           \/ pc = "timed_out" /\ p.type = "FAILED"
        /\ p.type = "PAUSED" => p.pause_reschedule
  <2>1. \A t \in {"RUNNING", "COMPLETED", "FAILED"} :
          Plain(t) \in State /\ Plain(t).transition_id = None /\ Plain(t).type = t
    BY ProposedStates, WrittenFields DEF StateTypes
  <2>2. CASE Pause(id, n)
    <3>1. world.timeouts \subseteq {None, "future"} /\ "pause" \notin world.behaviours
      BY <1>0, LifecycleAssumption DEF LifecycleTypeOK, World, PoolInv, Pools
    <3>2. PICK k \in Keys, t \in {None, "future"}, b \in BOOLEAN :
            /\ (IF b THEN "suspend" ELSE "pause") \in world.behaviours
            /\ ProcessRequest(id, n, {"running"}, Paused(k, t, b))
      BY <2>2, <3>1 DEF Pause
    <3>3. b
      BY <3>1, <3>2
    <3> QED BY <3>2, <3>3, ProposedStates DEF ProcessRequest
  <2>3. CASE ProposeRunning(id, n)
    BY <2>1, <2>3 DEF ProposeRunning, ProcessRequest
  <2>4. CASE Succeed(id, n)
    BY <2>1, <2>4 DEF Succeed, ProcessRequest
  <2>5. CASE Fail(id, n)
    BY <2>1, <2>5 DEF Fail, ProcessRequest
  <2>6. CASE ProposeTimedOut(id, n)
    BY <2>1, <2>6 DEF ProposeTimedOut, ProcessRequest
  <2> QED BY <2>2, <2>3, <2>4, <2>5, <2>6
<1>2. \/ pc = "starting" /\ TypeOf(r) = "PENDING" /\ p.type = "RUNNING"
      \/ pc = "running" /\ TypeOf(r) = "RUNNING"
         /\ p.type \in {"COMPLETED", "FAILED", "PAUSED"}
      \/ pc = "timed_out" /\ TypeOf(r) = "RUNNING" /\ p.type = "FAILED"
  BY <1>0, <1>1 DEF PoolRun, Active
<1>3. /\ SetFlowRunState(id, p, "core")
      /\ Deliver(id, n, p, Answer(id, p, "core"))
  BY <1>1 DEF Request, PoolInv, LifecycleInv, Orderly
<1> DEFINE v == Verdict("core", r, p, limit)
           x == GoesOn(pc, p, [status |-> v.status, type |-> TypeOf(s)])
<1>4. /\ r \in FlowRun /\ s \in FlowRun /\ runs' = [runs EXCEPT ![id] = s]
      /\ s.state = IF v.state = NoState THEN r.state ELSE v.state
      /\ Answer(id, p, "core") = [status |-> v.status, type |-> TypeOf(s)]
  BY <1>0, <1>3, RowAfter
<1>5. CoreOutcome(r, p, v)
  BY <1>0, <1>1, <1>4, CoreCases
<1>6. v # Granted
  <2>1. Granted.status = "REJECT" /\ Granted.state # NoState
        /\ Granted.state.name = "AwaitingRetry"
    BY WrittenStatesType, WrittenFields, RulesAssumption DEF Granted, Reject, Names, Times
  <2> HIDE DEF r
  <2> QED BY <1>0, <1>4, <2>1, GrantVerdict
<1>7. r # None /\ r.state # NoState /\ s # None
  BY <1>0, <1>3, <1>4, RulesAssumption DEF OrderlyRun, SetFlowRunState, Rows
<1>8. /\ TypeOf(s) # "CANCELLING"
      /\ TypeOf(s) = "PAUSED" => s.state.pause_reschedule
      /\ \/ x = "starting" /\ TypeOf(s) = "PENDING"
         \/ x \in {"running", "timed_out"} /\ TypeOf(s) = "RUNNING"
         \/ x \in {"failed", "exited"}
  <2> HIDE DEF r, s, v, pc
  <2> QED BY <1>1, <1>2, <1>4, <1>5, <1>6, <1>7, GoesOnInPool
<1>9. process' = [process EXCEPT ![id][n] = x]
  BY <1>3, <1>4, LifecycleAssumption DEF Deliver
<1> HIDE DEF x, v
<1>10. /\ process'[id][n] = x
       /\ \A m \in Attempts \ {n} : process'[id][m] = process[id][m]
       /\ \A i \in Runs \ {id} : process'[i] = process[i] /\ runs'[i] = runs[i]
  BY <1>0, <1>4, <1>9 DEF TypeOK
<1>11. \A m \in Attempts \ {n} : process[id][m] \notin Active
  BY <1>0, <1>2 DEF OrderlyRun, Active
<1>12. PoolRun(id)'
  BY <1>0, <1>1, <1>8, <1>10, <1>11 DEF PoolRun, Active
<1>13. Enters(id, p, "core")
  BY <1>2, <1>3 DEF Enters, SlotStates
<1> QED BY <1>1, <1>10, <1>12, <1>13 DEF EntersOrLeaves

\* Submitting a run.
LEMMA PoolSubmit ==
  ASSUME PoolInv, NEW id \in Runs, NEW w \in Workers, ProposePending(w, id)
  PROVE  EntersOrLeaves(id) /\ PoolRun(id)'
         /\ \A i \in Runs \ {id} : runs'[i] = runs[i] /\ process'[i] = process[i]
                                   /\ watcher'[i] = watcher[i]
<1> DEFINE p == Plain("PENDING")
           r == runs[id]
           s == runs'[id]
           v == Verdict("core", r, p, limit)
           a == [status |-> v.status, type |-> TypeOf(s)]
<1>0. /\ p \in State /\ p.transition_id = None /\ p.type = "PENDING"
      /\ TypeOK /\ "core" \in Policies /\ limit \in ConcurrencyLimit
      /\ process \in [Runs -> [Attempts -> ProcessStates]]
      /\ OrderlyRun(id) /\ PoolRun(id)
  BY ProposedStates, WrittenFields
     DEF PoolInv, LifecycleInv, LifecycleTypeOK, Policies, TypeOK, StateTypes
<1>1. /\ SetFlowRunState(id, p, "core")
      /\ Deliver(id, w, p, Answer(id, p, "core"))
      /\ watcher' = watcher
  BY DEF ProposePending, Request, PoolInv, LifecycleInv, Orderly
<1> HIDE DEF p
<1>2. /\ r \in FlowRun /\ s \in FlowRun /\ runs' = [runs EXCEPT ![id] = s]
      /\ s.state = IF v.state = NoState THEN r.state ELSE v.state
      /\ Answer(id, p, "core") = a
  BY <1>0, <1>1, RowAfter
<1>3. CoreOutcome(r, p, v)
  BY <1>0, <1>2, CoreCases
<1>4. r # None /\ s # None /\ r.state # NoState
  BY <1>0, <1>1, <1>2, RulesAssumption DEF OrderlyRun, SetFlowRunState, Rows
<1>5. /\ Submits(a) => TypeOf(s) = "PENDING"
      /\ TypeOf(r) \in {"PENDING", "RUNNING"} => s.state = r.state
      /\ ~Submits(a) =>
           s.state = r.state \/ TypeOf(s) \notin {"PENDING", "RUNNING", "PAUSED"}
      /\ TypeOf(s) = "CANCELLING" => TypeOf(r) = "CANCELLING"
  <2> HIDE DEF r, s, v
  <2> QED BY <1>2, <1>3, <1>4, PendingOutcome DEF p
<1> HIDE DEF a, v
<1>6. \E n \in Attempts :
        /\ \A m \in Attempts \ {n} : process'[id][m] = process[id][m]
        /\ \/ process'[id][n] = process[id][n]
           \/ process'[id][n] = "submitted" /\ TypeOf(s) = "PENDING"
              /\ Submits(a)
  <2>1. CASE Submits(a)
    <3>1. PICK n \in Attempts : process' = [process EXCEPT ![id][n] = "submitted"]
      BY <1>1, <1>2, <2>1 DEF Deliver, FreeAttempts
    <3> QED BY <1>0, <1>5, <2>1, <3>1
  <2>2. CASE ~Submits(a)
    <3>1. process' = process /\ Attempts # {}
      BY <1>1, <1>2, <2>2 DEF Deliver, ProposePending, FreeAttempts
    <3> QED BY <3>1
  <2> QED BY <2>1, <2>2
<1>7. \A i \in Runs \ {id} : runs'[i] = runs[i] /\ process'[i] = process[i]
  <2>1. process' = process \/ \E n : process' = [process EXCEPT ![id][n] = "submitted"]
    BY <1>1, <1>2 DEF Deliver
  <2> QED BY <1>0, <1>2, <2>1 DEF TypeOK
<1>8. TypeOf(r) \in {"PENDING", "RUNNING"} => TypeOf(s) = TypeOf(r)
  BY <1>5 DEF TypeOf
<1>9. TypeOf(s) # "CANCELLING" /\ (TypeOf(s) = "PAUSED" => s.state.pause_reschedule)
  BY <1>0, <1>4, <1>5 DEF PoolRun, TypeOf
<1> HIDE DEF s, r
<1>10. s = runs'[id] /\ r = runs[id]
  BY DEF s, r
<1>11. PoolRun(id)'
  BY <1>0, <1>1, <1>6, <1>8, <1>9, <1>10 DEF PoolRun, Active
<1>12. Enters(id, p, "core")
  BY <1>0, <1>1 DEF Enters
<1> QED BY <1>0, <1>1, <1>7, <1>11, <1>12 DEF EntersOrLeaves

\* What users, services and runners ask for.
LEMMA PoolUser ==
  ASSUME "legacy" \notin ClientPolicies, PoolInv, NEW id \in Runs,
         \/ Resume(id) \/ Rerun(id) \/ MarkLate(id)
         \/ (FailExpiredPause(id) /\ UNCHANGED clientVars)
  PROVE  EntersOrLeaves(id) /\ PoolRun(id)'
         /\ \A i \in Runs \ {id} : runs'[i] = runs[i] /\ process'[i] = process[i]
                                   /\ watcher'[i] = watcher[i]
<1> DEFINE r == runs[id]
           s == runs'[id]
<1>0. /\ TypeOK /\ {"core", "minimal", "late"} \subseteq Policies /\ limit \in ConcurrencyLimit
      /\ OrderlyRun(id) /\ PoolRun(id) /\ id \in Rows
      /\ r \in FlowRun /\ r # None /\ r.state # NoState
  <2>1. id \in Rows
    BY DEF Resume, ResumeFlowRun, Rerun, FailExpiredPause, MarkLate, MarkFlowRunAsLate,
           SetFlowRunState
  <2> QED BY <2>1, RowType
          DEF PoolInv, LifecycleInv, LifecycleTypeOK, TypeOK, Policies, OrderlyRun, Rows
<1>1. UNCHANGED clientVars
  BY DEF Resume, Rerun, MarkLate
\* It is enough that the request leaves runs alone that are being executed.
<1>2. ASSUME NEW p \in State, NEW policy \in {"core", "minimal", "late"},
             SetFlowRunState(id, p, policy),
             policy = "late" => p = Scheduled("Late", "past"),
             TypeOf(s) \in {"PENDING", "RUNNING", "CANCELLING"} => TypeOf(s) = TypeOf(r),
             TypeOf(s) = "PAUSED" => s.state = r.state,
             TypeOf(r) \in {"PENDING", "RUNNING"} => TypeOf(s) = TypeOf(r)
      PROVE  EntersOrLeaves(id) /\ PoolRun(id)'
             /\ \A i \in Runs \ {id} : runs'[i] = runs[i] /\ process'[i] = process[i]
                                       /\ watcher'[i] = watcher[i]
  <2>1. runs' = [runs EXCEPT ![id] = s]
    BY <1>0, <1>2, RowAfter
  <2>2. \A i \in Runs \ {id} : runs'[i] = runs[i]
    BY <1>0, <2>1 DEF TypeOK
  <2>3. process' = process /\ watcher' = watcher
    BY <1>1 DEF clientVars
  <2>4. TypeOf(s) = "PAUSED" => TypeOf(r) = "PAUSED" /\ s.state.pause_reschedule
    BY <1>0, <1>2 DEF PoolRun, TypeOf
  <2>5. PoolRun(id)'
    BY <1>0, <1>2, <2>3, <2>4 DEF PoolRun
  <2>6. Enters(id, p, policy)
    BY <1>2 DEF Enters, SlotStates
  <2> QED BY <2>2, <2>3, <2>5, <2>6 DEF EntersOrLeaves
<1>3. /\ \A t \in StateTypes : Plain(t) \in State
      /\ \A m \in Names : /\ Scheduled(m, "past") \in State
                          /\ Scheduled(m, "past").type = "SCHEDULED"
                          /\ Scheduled(m, "past").transition_id = None
  BY ProposedStates, WrittenFields DEF Times
<1>4. CASE Resume(id) \/ Rerun(id)
  <2>1. PICK m \in Names : /\ SetFlowRunState(id, Scheduled(m, "past"), "core")
                           /\ TypeOf(r) \in {"PAUSED"} \cup TERMINAL_STATES
    <3>1. CASE Resume(id)
      <4>1. r.state.pause_reschedule /\ TypeOf(r) = "PAUSED"
        BY <1>0, <3>1 DEF Resume, ResumeFlowRun, PoolRun
      <4>2. ClientPolicies \subseteq {"core"}
        BY OrchestrationAssumption
      <4>3. SetFlowRunState(id, Scheduled("Resuming", "past"), "core")
        BY <3>1, <4>1, <4>2 DEF Resume, ResumeFlowRun
      <4> QED BY <4>1, <4>3 DEF Names
    <3>2. CASE Rerun(id)
      BY <3>2 DEF Rerun, Names
    <3> QED BY <1>4, <3>1, <3>2
  <2> DEFINE p == Scheduled(m, "past")
             v == Verdict("core", r, p, limit)
  <2>2. p \in State /\ p.type = "SCHEDULED" /\ p.transition_id = None
    BY <1>3
  <2>3. SetFlowRunState(id, p, "core")
    BY <2>1
  <2> HIDE DEF p
  <2>4. /\ s \in FlowRun
        /\ s.state = IF v.state = NoState THEN r.state ELSE v.state
    BY <1>0, <2>2, <2>3, RowAfter
  <2>5. CoreOutcome(r, p, v)
    BY <1>0, <2>2, CoreCases
  <2>6. s.state = r.state \/ (s.state \in State /\ TypeOf(s) \in {"SCHEDULED", "CANCELLED", "FAILED"})
    <3> HIDE DEF r, s, v
    <3> QED BY <1>0, <2>2, <2>4, <2>5, UserOutcome
  <2>7. TypeOf(s) = TypeOf(r) \/ TypeOf(s) \in {"SCHEDULED", "CANCELLED", "FAILED"}
    BY <2>6 DEF TypeOf
  <2> HIDE DEF r, s, v
  <2>8. TypeOf(r) \notin {"PENDING", "RUNNING"}
    BY <2>1 DEF TERMINAL_STATES
  <2> QED BY <1>2, <2>2, <2>3, <2>6, <2>7, <2>8 DEF r, s
<1>5. CASE FailExpiredPause(id)
  <2> DEFINE p == Plain("FAILED")
             v == Verdict("minimal", r, p, limit)
  <2>0. p \in State /\ p.type = "FAILED"
    BY <1>3, WrittenFields DEF StateTypes
  <2>1. SetFlowRunState(id, p, "minimal") /\ TypeOf(r) = "PAUSED"
    BY <1>5 DEF FailExpiredPause
  <2> HIDE DEF p
  <2>2. /\ s \in FlowRun
        /\ s.state = IF v.state = NoState THEN r.state ELSE v.state
    BY <1>0, <2>0, <2>1, RowAfter
  <2>3. v.state = p
    BY <2>0 DEF Verdict, BypassCancellingFlowRunsWithNoInfra, If, Pass
  <2>4. TypeOf(s) = "FAILED"
    BY <2>0, <2>2, <2>3, RulesAssumption DEF TypeOf
  <2> QED BY <1>2, <2>0, <2>1, <2>4
<1>6. CASE MarkLate(id)
  <2> DEFINE p == Scheduled("Late", "past")
             v == Verdict("late", r, p, limit)
  <2>0. p \in State /\ p.type = "SCHEDULED"
    BY <1>3 DEF Names
  <2>1. SetFlowRunState(id, p, "late")
    BY <1>6 DEF MarkLate, MarkFlowRunAsLate
  <2>2. TypeOf(r) # "SCHEDULED" => v.state = NoState
    BY <1>0, LateKeepsOthers DEF TypeOf, State, FlowRun
  <2>3. /\ s \in FlowRun
        /\ s.state = IF v.state = NoState THEN r.state ELSE v.state
    BY <1>0, <2>0, <2>1, RowAfter
  <2> HIDE DEF p
  <2>4. v.state \in {NoState, p}
    BY DEF Verdict, EnsureOnlyScheduledFlowsMarkedLate, If, Pass, Reject, p
  <2>5. s.state = r.state \/ (TypeOf(r) = "SCHEDULED" /\ s.state = p)
    BY <2>2, <2>3, <2>4
  <2>6. TypeOf(s) = TypeOf(r) /\ (TypeOf(s) = "PAUSED" => s.state = r.state)
    BY <1>0, <2>0, <2>5, RulesAssumption DEF TypeOf
  <2> HIDE DEF r, s, v
  <2> QED BY <1>2, <2>0, <2>1, <2>6 DEF r, s, p
<1> QED BY <1>4, <1>5, <1>6

\* A report that a process crashed.
LEMMA PoolReport ==
  ASSUME PoolInv, NEW id \in Runs, NEW n \in Attempts, ReportCrashed(id, n)
  PROVE  EntersOrLeaves(id) /\ PoolRun(id)'
         /\ \A i \in Runs \ {id} : runs'[i] = runs[i] /\ process'[i] = process[i]
                                   /\ watcher'[i] = watcher[i]
<1> DEFINE p == Plain("CRASHED")
           r == runs[id]
           s == runs'[id]
           v == Verdict("core", r, p, limit)
<1>0. /\ TypeOK /\ "core" \in Policies /\ limit \in ConcurrencyLimit
      /\ p \in State /\ p.transition_id = None
      /\ process \in [Runs -> [Attempts -> ProcessStates]]
      /\ OrderlyRun(id) /\ PoolRun(id)
  BY ProposedStates DEF PoolInv, LifecycleInv, LifecycleTypeOK, Policies, StateTypes, TypeOK
<1>1. SetFlowRunState(id, p, "core") /\ process[id][n] = "reporting"
      /\ process' = [process EXCEPT ![id][n] = "reaped"] /\ watcher' = watcher
  BY DEF ReportCrashed
<1> HIDE DEF p
<1>2. /\ r \in FlowRun /\ s \in FlowRun /\ runs' = [runs EXCEPT ![id] = s]
      /\ s.state = IF v.state = NoState THEN r.state ELSE v.state
  BY <1>0, <1>1, RowAfter
<1>3. CoreOutcome(r, p, v)
  BY <1>0, <1>2, CoreCases
<1>4. r # None /\ s # None /\ r.state # NoState
  BY <1>0, <1>1, <1>2, RulesAssumption DEF OrderlyRun, SetFlowRunState, Rows
<1>5. /\ TypeOf(s) \notin {"PENDING", "RUNNING"}
      /\ TypeOf(s) = "CANCELLING" => TypeOf(r) = "CANCELLING"
  <2> HIDE DEF r, s, v
  <2> QED BY <1>2, <1>3, <1>4, ReportOutcome DEF p, Settled
<1>6. TypeOf(s) = "PAUSED" => s.state = r.state
  <2>1. \/ v.state = NoState \/ v.state = Plain("CANCELLED") \/ v.state = Plain("FAILED")
        \/ v.state = Scheduled("AwaitingConcurrencySlot", "future")
        \/ v.state = Scheduled("AwaitingRetry", "future")
        \/ v.state \in State /\ v.state.type = "CRASHED"
    <3> HIDE DEF r, v
    <3>1. \/ v.state \in State /\ v.state.type = p.type
          \/ v \in RuleVerdicts \ {Pass}
      BY <1>0, <1>2, VerdictCases DEF v
    <3> QED BY <3>1, WrittenFields DEF RuleVerdicts, Abort, Wait, Reject, p
  <2> QED BY <1>2, <2>1, WrittenFields DEF TypeOf
<1>7. TypeOf(s) # "CANCELLING" /\ (TypeOf(s) = "PAUSED" => s.state.pause_reschedule)
  BY <1>0, <1>4, <1>5, <1>6 DEF PoolRun, TypeOf
<1>8. /\ \A m \in Attempts : process'[id][m] \notin Active
      /\ \A i \in Runs \ {id} : process'[i] = process[i] /\ runs'[i] = runs[i]
  BY <1>0, <1>1, <1>2 DEF OrderlyRun, Active, TypeOK
<1>9. Enters(id, p, "core")
  BY <1>1, <1>5, <1>7 DEF Enters, SlotStates
<1>10. PoolRun(id)'
  BY <1>0, <1>1, <1>7, <1>8 DEF PoolRun
<1> QED BY <1>0, <1>1, <1>8, <1>9, <1>10 DEF EntersOrLeaves

\* Every step keeps the pool.
LEMMA PoolSteps ==
  ASSUME "legacy" \notin ClientPolicies, Retries = None,
         \A p \in InitialStates : p.type = "SCHEDULED",
         PoolInv, [LifecycleNext]_lifecycleVars
  PROVE  /\ \A id \in Runs : PoolRun(id)'
         /\ UNCHANGED <<limit, Holders>> \/ \E id \in Runs : EntersOrLeaves(id)
<1> DEFINE Kept == \A id \in Runs : PoolRun(id)'
           Server == UNCHANGED <<limit, Holders>> \/ \E id \in Runs : EntersOrLeaves(id)
<1> SUFFICES Kept /\ Server
  OBVIOUS
<1>0. /\ \A id \in Runs : PoolRun(id) /\ OrderlyRun(id)
      /\ LifecycleTypeOK /\ TypeOK
      /\ process \in [Runs -> [Attempts -> ProcessStates]]
      /\ watcher \in [Runs -> [Attempts -> {"watching", "cancelling", "done"}]]
  BY DEF PoolInv, LifecycleInv, LifecycleTypeOK
\* A step that concerns one run.
<1>a. ASSUME NEW id \in Runs, PoolRun(id)',
             \A i \in Runs \ {id} : runs'[i] = runs[i] /\ process'[i] = process[i]
                                    /\ watcher'[i] = watcher[i]
      PROVE  Kept
  BY <1>0, <1>a DEF PoolRun
\* A step that leaves the rows' states alone.
<1>b. ASSUME limit' = limit,
             \A i \in Runs : /\ runs'[i] = None <=> runs[i] = None
                             /\ runs[i] # None => /\ runs'[i].deployment = runs[i].deployment
                                                  /\ TypeOf(runs'[i]) = TypeOf(runs[i])
      PROVE  Server
  BY <1>b DEF Holders, Rows
<1> HIDE DEF Kept, Server
<1>1. CASE UNCHANGED vars /\ UNCHANGED clientVars
  <2>1. Kept
    BY <1>0, <1>1 DEF PoolRun, vars, clientVars, Kept
  <2> QED BY <1>1, <1>b, <2>1 DEF vars
<1>2. ASSUME NEW w \in Workers, Poll(w) PROVE Kept /\ Server
  <2>1. Kept
    BY <1>0, <1>2 DEF PoolRun, Poll, Kept
  <2> QED BY <1>2, <1>b, <2>1 DEF Poll
<1>3. ASSUME NEW w \in Workers, NEW id \in Runs, ProposePending(w, id)
      PROVE  Kept /\ Server
  BY <1>3, <1>a, PoolSubmit DEF Server
<1>4. ASSUME NEW id \in Runs, NEW n \in Attempts,
             \/ ProposeRunning(id, n) \/ Succeed(id, n) \/ Fail(id, n)
             \/ ProposeTimedOut(id, n) \/ Pause(id, n)
      PROVE  Kept /\ Server
  BY <1>4, <1>a, PoolRequest DEF Server
<1>5. ASSUME NEW id \in Runs,
             \/ Resume(id) \/ Rerun(id) \/ MarkLate(id)
             \/ (FailExpiredPause(id) /\ UNCHANGED clientVars)
      PROVE  Kept /\ Server
  BY <1>5, <1>a, PoolUser DEF Server
<1>6. ASSUME NEW id \in Runs, NEW n \in Attempts, ReportCrashed(id, n)
      PROVE  Kept /\ Server
  BY <1>6, <1>a, PoolReport DEF Server
<1>7. ASSUME NEW id \in Runs, Create(id) PROVE Kept /\ Server
  <2>0. id \notin Rows /\ UNCHANGED clientVars /\ "minimal" \in Policies
        /\ runs \in [Runs -> FlowRun \cup {None}] /\ limit \in ConcurrencyLimit
        /\ limit' = limit
    BY <1>0, <1>7 DEF Create, CreateFlowRun, TypeOK, Policies
  <2>1. PICK p \in InitialStates :
          runs' = [runs EXCEPT ![id] = RunAfter("minimal", NewRun(id), p, limit,
                                         Verdict("minimal", NewRun(id), p, limit))]
    BY <1>7 DEF Create, CreateFlowRun
  <2> DEFINE r == NewRun(id)
             v == Verdict("minimal", r, p, limit)
             s == RunAfter("minimal", r, p, limit, v)
  <2>2. p \in State /\ p.type = "SCHEDULED" /\ r \in FlowRun
    BY OrchestrationAssumption, NewRunType
  <2>3. v.state = p
    BY <2>2 DEF Verdict, BypassCancellingFlowRunsWithNoInfra, If, Pass
  <2>4. s \in FlowRun /\ s.state = p
    <3> HIDE DEF v
    <3> QED BY <2>0, <2>2, <2>3, RunAfterType, RulesAssumption
  <2> HIDE DEF s
  <2>5. /\ runs'[id] = s /\ \A i \in Runs \ {id} : runs'[i] = runs[i]
        /\ s # None /\ TypeOf(s) = "SCHEDULED"
    BY <2>0, <2>1, <2>2, <2>4, RulesAssumption DEF TypeOf, s
  <2>6. \A i \in Runs \ {id} : process'[i] = process[i] /\ watcher'[i] = watcher[i]
    BY <2>0 DEF clientVars
  <2>7. PoolRun(id)'
    BY <1>0, <2>0, <2>5 DEF PoolRun, OrderlyRun, Rows, clientVars
  <2>8. Kept
    BY <1>a, <2>5, <2>6, <2>7
  <2>9. Holders' = Holders
    BY <2>0, <2>5 DEF Holders, Rows, SlotStates
  <2> QED BY <2>0, <2>8, <2>9 DEF Server
<1>8. ASSUME NEW id \in Runs,
             RecordInfrastructure(id) \/ (ClockPasses(id) /\ UNCHANGED clientVars)
      PROVE  Kept /\ Server
  <2> DEFINE s == runs'[id]
  <2>0. /\ UNCHANGED clientVars /\ limit' = limit /\ id \in Rows
        /\ runs \in [Runs -> FlowRun \cup {None}]
    BY <1>0, <1>8 DEF RecordInfrastructure, ClockPasses, UpdateInfrastructurePid, TypeOK
  <2>1. /\ runs[id] \in FlowRun /\ runs[id] # None /\ runs[id].state \in State
    BY <1>0, <2>0, RowType DEF OrderlyRun, Rows, FlowRun
  <2>2. /\ runs' = [runs EXCEPT ![id] = s] /\ s \in FlowRun
        /\ s.deployment = runs[id].deployment
        /\ TypeOf(s) = TypeOf(runs[id])
        /\ TypeOf(s) = "PAUSED" => s.state.pause_reschedule = runs[id].state.pause_reschedule
    <3>1. CASE RecordInfrastructure(id)
      <4> DEFINE t == [runs[id] EXCEPT !.infrastructure_pid = TRUE]
      <4>0. t.state = runs[id].state /\ t \in FlowRun /\ t.deployment = runs[id].deployment
        BY <2>1 DEF FlowRun
      <4>1. s = t /\ runs' = [runs EXCEPT ![id] = t]
        BY <2>0, <3>1 DEF RecordInfrastructure, UpdateInfrastructurePid, Rows
      <4> HIDE DEF t
      <4>2. s.state = runs[id].state /\ s \in FlowRun /\ s.deployment = runs[id].deployment
        BY <4>0, <4>1
      <4>3. TypeOf(s) = TypeOf(runs[id])
        BY <4>2 DEF TypeOf
      <4> HIDE DEF s
      <4> QED BY <4>1, <4>2, <4>3
    <3>2. CASE ClockPasses(id)
      <4> DEFINE e == Elapsed(runs[id].state)
      <4>1. e \in State /\ e.type = runs[id].state.type
            /\ e.pause_reschedule = runs[id].state.pause_reschedule
        BY <2>1 DEF Elapsed, State, Times
      <4>2. s = [runs[id] EXCEPT !.state = e]
            /\ runs' = [runs EXCEPT ![id] = [runs[id] EXCEPT !.state = e]]
        BY <2>0, <3>2 DEF ClockPasses, Rows
      <4> HIDE DEF e
      <4>3. s \in FlowRun /\ s.state = e /\ s.deployment = runs[id].deployment
        BY <2>1, <4>1, <4>2 DEF FlowRun
      <4> QED BY <2>1, <4>1, <4>2, <4>3, RulesAssumption DEF TypeOf
    <3> QED BY <1>8, <3>1, <3>2
  <2> HIDE DEF s
  <2>3. /\ runs'[id] = s /\ \A i \in Runs \ {id} : runs'[i] = runs[i]
        /\ s # None
    BY <2>0, <2>2, RulesAssumption
  <2>4. PoolRun(id)'
    BY <1>0, <2>0, <2>1, <2>2, <2>3 DEF PoolRun, clientVars
  <2>5. Kept
    BY <1>a, <2>0, <2>3, <2>4 DEF clientVars
  <2> QED BY <1>b, <2>0, <2>1, <2>2, <2>3, <2>5
<1>9. ASSUME NEW id \in Runs, NEW n \in Attempts,
             \/ StartProcess(id, n) \/ TimeOut(id, n) \/ PollPause(id, n) \/ Crash(id, n)
             \/ DetectCancelling(id, n) \/ Reap(id, n) \/ Retire(id, n)
      PROVE  Kept /\ Server
  <2>1. runs' = runs /\ limit' = limit
    BY <1>9 DEF StartProcess, TimeOut, PollPause, Crash, DetectCancelling, Reap, Retire
  <2>2. ~PollPause(id, n) /\ ~DetectCancelling(id, n)
    BY <1>0 DEF PollPause, DetectCancelling, PoolRun, OrderlyRun, Mapped, Alive, Active
  <2>3. \A i \in Runs \ {id} : process'[i] = process[i] /\ watcher'[i] = watcher[i]
    BY <1>0, <1>9, <2>2 DEF StartProcess, TimeOut, Crash, Reap, Retire
  <2>4. /\ \A m \in Attempts \ {n} : process'[id][m] = process[id][m]
        /\ \A m \in Attempts : watcher'[id][m] # "cancelling"
    BY <1>0, <1>9, <2>2 DEF StartProcess, TimeOut, Crash, Reap, Retire, PoolRun
  <2>5. \/ process[id][n] = "submitted" /\ process'[id][n] \in {"starting", "reporting"}
        \/ process[id][n] = "running" /\ process'[id][n] = "timed_out"
        \/ process'[id][n] \in {"failed", "reporting"}
        \/ process'[id][n] \in {"reaped", "unused"}
    BY <1>0, <1>9, <2>2 DEF StartProcess, TimeOut, Crash, Reap, Retire
  <2>6. PoolRun(id)'
    BY <1>0, <2>1, <2>4, <2>5 DEF PoolRun, Active
  <2>7. Kept
    BY <1>a, <2>1, <2>3, <2>6
  <2> QED BY <1>b, <2>1, <2>7
<1>10. ASSUME NEW id \in Runs
       PROVE  /\ ~Cancel(id) /\ ~SuspendOther(id) /\ ~Resend(id)
              /\ \A n \in Attempts : ~Terminate(id, n) /\ ~MarkCancelled(id, n)
  <2>1. ~Cancel(id) /\ ~SuspendOther(id) /\ ~Resend(id)
    BY <1>0 DEF Cancel, SuspendOther, Resend, OrderlyRun, PoolInv, Pools, LifecycleInv,
                Orderly, ManyWorkers, OneWorker
  <2>2. \A n \in Attempts : ~Terminate(id, n) /\ ~MarkCancelled(id, n)
    BY <1>0 DEF Terminate, MarkCancelled, PoolRun, Active
  <2> QED BY <2>1, <2>2
<1> USE <1>1, <1>2, <1>3, <1>4, <1>5, <1>6, <1>7, <1>8, <1>9, <1>10
<1>11. CASE UNCHANGED lifecycleVars
  BY <1>11 DEF lifecycleVars, vars, clientVars
<1>12. ASSUME NEW id \in Runs, Service(id) PROVE Kept /\ Server
  BY <1>12 DEF Service
<1> QED BY <1>11, <1>12 DEF LifecycleNext, Step

\* Nothing changes the world.
LEMMA WorldKept == [LifecycleNext]_lifecycleVars => world' = world
<1> SUFFICES ASSUME [LifecycleNext]_lifecycleVars PROVE world' = world
  OBVIOUS
<1>1. CASE UNCHANGED lifecycleVars
  BY <1>1 DEF lifecycleVars
<1>2. ASSUME NEW w \in Workers, Poll(w) PROVE world' = world
  BY <1>2 DEF Poll
<1>3. ASSUME NEW w \in Workers, NEW id \in Runs, ProposePending(w, id) PROVE world' = world
  BY <1>3 DEF ProposePending
<1>4. ASSUME NEW id \in Runs,
             \/ Create(id) \/ Cancel(id) \/ Resume(id) \/ Rerun(id) \/ SuspendOther(id)
             \/ Service(id) \/ MarkLate(id) \/ RecordInfrastructure(id)
      PROVE  world' = world
  <2>1. UNCHANGED clientVars
    BY <1>4 DEF Create, Cancel, Resume, Rerun, SuspendOther, Service, MarkLate,
                RecordInfrastructure
  <2> QED BY <2>1 DEF clientVars
<1>5. ASSUME NEW id \in Runs, Resend(id) PROVE world' = world
  BY <1>5 DEF Resend
<1>6. ASSUME NEW id \in Runs, NEW n \in Attempts, Step(id, n) PROVE world' = world
  <2>1. ASSUME NEW pcs, NEW p, ProcessRequest(id, n, pcs, p) PROVE world' = world
    BY <2>1 DEF ProcessRequest
  <2>2. CASE \/ ProposeRunning(id, n) \/ Succeed(id, n) \/ Fail(id, n)
             \/ ProposeTimedOut(id, n) \/ Pause(id, n)
    BY <2>1, <2>2 DEF ProposeRunning, Succeed, Fail, ProposeTimedOut, Pause
  <2>3. CASE StartProcess(id, n) \/ TimeOut(id, n) \/ PollPause(id, n) \/ Terminate(id, n)
    BY <2>3 DEF StartProcess, TimeOut, PollPause, Terminate
  <2> QED BY <1>6, <2>2, <2>3 DEF Step
<1>7. ASSUME NEW id \in Runs, NEW n \in Attempts,
             \/ Crash(id, n) \/ DetectCancelling(id, n) \/ Reap(id, n)
             \/ ReportCrashed(id, n) \/ MarkCancelled(id, n) \/ Retire(id, n)
      PROVE  world' = world
  BY <1>7 DEF Crash, DetectCancelling, Reap, ReportCrashed, MarkCancelled, Retire
<1> QED BY <1>1, <1>2, <1>3, <1>4, <1>5, <1>6, <1>7 DEF LifecycleNext

\* Every step keeps it, and takes a slot, gives one back or leaves the pool alone.
LEMMA PoolInvStep ==
  ASSUME "legacy" \notin ClientPolicies, Retries = None,
         \A p \in InitialStates : p.type = "SCHEDULED",
         PoolInv, [LifecycleNext]_lifecycleVars
  PROVE  /\ PoolInv' /\ limit'.limit = limit.limit
         /\ \/ Holders' = Holders
            \/ \E id \in Runs :
                 \/ /\ id \notin Holders /\ Holders' = Holders \cup {id}
                    /\ Cardinality(Holders) < limit.limit
                 \/ id \in Holders /\ Holders' = Holders \ {id}
<1>1. /\ \A id \in Runs : PoolRun(id)'
      /\ UNCHANGED <<limit, Holders>> \/ \E id \in Runs : EntersOrLeaves(id)
  BY PoolSteps
<1>2. LifecycleInv' /\ TypeOK
  BY LifecycleInvStep DEF PoolInv, LifecycleInv, LifecycleTypeOK
<1>3. world' = world
  BY WorldKept
<1>4. CASE UNCHANGED <<limit, Holders>>
  <2>1. SlotsExact'
    BY <1>4 DEF PoolInv, SlotsExact
  <2> QED BY <1>1, <1>2, <1>3, <1>4, <2>1 DEF PoolInv
<1>5. CASE \E id \in Runs : EntersOrLeaves(id)
  <2>1. PICK id \in Runs, p \in State, policy \in {"core", "minimal", "late"} :
          Enters(id, p, policy)
    BY <1>5 DEF EntersOrLeaves
  <2>2. /\ SlotsExact' /\ limit'.limit = limit.limit
        /\ \/ Holders' = Holders
           \/ /\ id \notin Holders /\ Holders' = Holders \cup {id}
              /\ Cardinality(Holders) < limit.limit
           \/ id \in Holders /\ Holders' = Holders \ {id}
    BY <1>2, <2>1, ExactStep DEF PoolInv
  <2> QED BY <1>1, <1>2, <1>3, <2>2 DEF PoolInv
<1> QED BY <1>1, <1>4, <1>5

\* The limit is a pool of slots.
THEOREM LimitIsSlotPool ==
  ASSUME \A w \in Worlds : Orderly(w), \A p \in InitialStates : p.type = "SCHEDULED",
         "legacy" \notin ClientPolicies, Retries = None,
         NEW N \in Nat, Limits = {N}
  PROVE  LifecycleSpec => SlotPoolKept
<1> DEFINE Cap == CHOOSE n \in Limits : TRUE
           Kept == /\ LifecycleInv
                   /\ Pools(world) => PoolInv /\ limit.limit = Cap
<1>0. Cap = N
  OBVIOUS
<1>1. LifecycleInit => Kept /\ Pool!Init
  <2> SUFFICES ASSUME LifecycleInit PROVE Kept /\ Pool!Init
    OBVIOUS
  <2>1. LifecycleInv
    BY LifecycleInvInit
  <2>2. Holders = {}
    BY DEF LifecycleInit, Init, Holders, Rows
  <2>3. limit.limit = N /\ limit.active_slots = 0
    BY DEF LifecycleInit, Init, NoLimit
  <2>4. SlotsExact
    BY <2>2, <2>3, FS_EmptySet, RulesAssumption DEF SlotsExact
  <2>5. ASSUME NEW id \in Runs PROVE PoolRun(id)
    BY DEF LifecycleInit, Init, PoolRun, Active
  <2>6. Pooled = {}
    BY <2>2 DEF Pooled
  <2> HIDE DEF Cap
  <2> QED BY <1>0, <2>1, <2>3, <2>4, <2>5, <2>6 DEF PoolInv, Pool!Init
<1>2. Kept /\ [LifecycleNext]_lifecycleVars => Kept' /\ [Pool!Next]_Pooled
  <2> SUFFICES ASSUME Kept, [LifecycleNext]_lifecycleVars
               PROVE  Kept' /\ [Pool!Next]_Pooled
    OBVIOUS
  <2>1. LifecycleInv' /\ world' = world
    BY WorldKept, LifecycleInvStep
  <2>2. CASE Pools(world)
    <3>1. PoolInv' /\ limit'.limit = Cap
      BY <2>2, PoolInvStep
    <3>2. Pooled = Holders /\ Pooled' = Holders'
      BY <2>1, <2>2 DEF Pooled, Pools
    <3>3. \/ Pooled' = Pooled
          \/ \E id \in Runs :
               \/ /\ id \notin Pooled /\ Pooled' = Pooled \cup {id}
                  /\ Cardinality(Pooled) < Cap
               \/ id \in Pooled /\ Pooled' = Pooled \ {id}
      BY <2>2, <3>2, PoolInvStep
    <3> HIDE DEF Cap
    <3>4. [Pool!Next]_Pooled
      BY <3>3 DEF Pool!Next, Pool!Acquire, Pool!Release, Pool!Cardinality, Cardinality, Pool!IsFiniteSet, IsFiniteSet, Cap
    <3> QED BY <2>1, <3>1, <3>4
  <2>3. CASE ~Pools(world)
    <3>1. Pooled = {} /\ Pooled' = {}
      BY <2>1, <2>3 DEF Pooled, Pools
    <3> QED BY <2>1, <2>3, <3>1 DEF Pools
  <2> QED BY <2>2, <2>3
<1> HIDE DEF Kept
<1> QED BY <1>1, <1>2, PTL DEF LifecycleSpec, SlotPoolKept, Pool!Spec
=============================================================================
