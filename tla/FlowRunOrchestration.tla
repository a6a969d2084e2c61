------------------------ MODULE FlowRunOrchestration ------------------------
(***************************************************************************)
(* The server side of flow run orchestration: the flow runs of one         *)
(* deployment, the row of its concurrency limit, and the requests that     *)
(* change them.  Each request is one database transaction, hence one       *)
(* action: set_flow_run_state locks the run's row before it reads it.      *)
(* FailExpiredPauses, resume_flow_run and delete_flow_run read it without  *)
(* a lock first; that they are one action is what SQLite guarantees, and   *)
(* FlowRunSessions says what they do on PostgreSQL.                        *)
(*                                                                         *)
(* The module makes no assumption about the order in which clients send    *)
(* their requests: any proposal of the constant Proposals may reach any    *)
(* run at any time, as it does when workers hold old lists of runs, flow   *)
(* run processes outlive their run, and users act through the UI.  What    *)
(* is shown here therefore holds whatever the clients do.                  *)
(***************************************************************************)
EXTENDS FlowRunRules, FiniteSets

CONSTANTS
  Runs,            \* the identities flow runs may have
  Deployed,        \* those created with a deployment_id
  Subflows,        \* those created with a parent_task_run_id
  InitialStates,   \* the states a run may be created in
  Proposals,       \* the states clients propose
  ClientPolicies,  \* the policies their requests select: "core", "legacy"
  ForceAllowed,    \* whether clients use force=True
  Limits,          \* the values an administrator gives the limit
  MaxRunCount      \* bound: no request takes a run_count beyond it

ASSUME OrchestrationAssumption ==
  /\ IsFiniteSet(Runs)
  /\ Deployed \subseteq Runs /\ Subflows \subseteq Runs
  /\ InitialStates \subseteq State /\ Proposals \subseteq State
  /\ ClientPolicies \subseteq {"core", "legacy"}
  /\ ForceAllowed \in BOOLEAN
  /\ Limits \subseteq Nat \cup {None}
  /\ MaxRunCount \in Nat

VARIABLES
  runs,     \* the stored run of each identity, or None: no such row
  limit,    \* the concurrency limit of the deployment
  retried   \* history: in-process retries granted to each run

vars == <<runs, limit, retried>>

Rows == {id \in Runs : runs[id] # None}

\* The deployed runs that are in a state which counts against the limit.
Holders == {id \in Rows : runs[id].deployment /\ TypeOf(runs[id]) \in SlotStates}

NewRun(id) ==
  [state |-> NoState, deployment |-> id \in Deployed,
   parent_task_run |-> id \in Subflows, infrastructure_pid |-> FALSE,
   run_count |-> 0, resuming |-> FALSE, pause_keys |-> {}, retry_type |-> None]

NoLimit == [limit |-> None, active |-> TRUE, active_slots |-> 0]

Init ==
  /\ runs = [id \in Runs |-> None]
  /\ \E n \in Limits : limit = [NoLimit EXCEPT !.limit = n]
  /\ retried = [id \in Runs |-> 0]

-----------------------------------------------------------------------------

\* create_flow_run: the row, and its first state with force=True.
CreateFlowRun(id) ==
  /\ id \notin Rows
  /\ \E p \in InitialStates :
       LET v == Verdict("minimal", NewRun(id), p, limit)
       IN  runs' = [runs EXCEPT
                      ![id] = RunAfter("minimal", NewRun(id), p, limit, v)]
  /\ retried' = [retried EXCEPT ![id] = 0]
  /\ UNCHANGED limit

\* set_flow_run_state: the verdict, and what it leaves in both rows.
SetFlowRunState(id, p, policy) ==
  /\ id \in Rows
  /\ \E v \in {Verdict(policy, runs[id], p, limit)} :
       LET r == runs[id]
           s == RunAfter(policy, r, p, limit, v)
       IN  /\ s.run_count <= MaxRunCount
           /\ runs' = [runs EXCEPT ![id] = s]
           /\ limit' = LimitAfter(policy, r, p, limit, v.state)
           /\ retried' = IF /\ v.status = "REJECT" /\ v.state # NoState
                            /\ v.state.name = "AwaitingRetry"
                           THEN [retried EXCEPT ![id] = @ + 1] ELSE retried

\* A client request, under the policy its version selects or forced.
ClientRequest(id) ==
  \E p \in Proposals, policy \in ClientPolicies
                        \cup (IF ForceAllowed THEN {"minimal"} ELSE {}) :
    SetFlowRunState(id, p, policy)

\* POST /flow_runs/{id}/resume
ResumeFlowRun(id) ==
  /\ id \in Rows /\ TypeOf(runs[id]) = "PAUSED"
  /\ \E policy \in ClientPolicies :
       SetFlowRunState(id,
         IF runs[id].state.pause_reschedule THEN Scheduled("Resuming", "past")
                                            ELSE Plain("RUNNING"), policy)

\* MarkLateRuns: the run was selected by an earlier read without a lock, so
\* by the time its row is locked it may be in any state.
MarkFlowRunAsLate(id) == SetFlowRunState(id, Scheduled("Late", "past"), "late")

\* FailExpiredPauses on a pause whose timeout has passed; the service forces
\* the failure.
FailExpiredPause(id) ==
  /\ id \in Rows /\ TypeOf(runs[id]) = "PAUSED"
  /\ runs[id].state.pause_timeout = "past"
  /\ SetFlowRunState(id, Plain("FAILED"), "minimal")

\* PATCH /flow_runs/{id} by a worker that started infrastructure for the run.
UpdateInfrastructurePid(id) ==
  /\ id \in Rows
  /\ runs' = [runs EXCEPT ![id].infrastructure_pid = TRUE]
  /\ UNCHANGED <<limit, retried>>

\* delete_flow_run, with the state it read still current.
DeleteFlowRun(id) ==
  /\ id \in Rows
  /\ runs' = [runs EXCEPT ![id] = None]
  /\ limit' = IF id \in Holders THEN Decrement(limit) ELSE limit
  /\ UNCHANGED retried

\* _create_or_update_deployment_concurrency_limit: no limit deletes the row,
\* a first limit creates one, another limit keeps the active slots.
UpdateDeploymentLimit(n) ==
  /\ limit' = IF n = None THEN NoLimit ELSE [limit EXCEPT !.limit = n]
  /\ UNCHANGED <<runs, retried>>

Elapsed(s) ==
  LET Passed(t) == IF t = "future" THEN "past" ELSE t
  IN  [s EXCEPT !.scheduled_time = Passed(@), !.pause_timeout = Passed(@)]

\* The clock passes the scheduled time or the pause timeout of a run.
ClockPasses(id) ==
  /\ id \in Rows /\ runs[id].state # NoState
  /\ "future" \in {runs[id].state.scheduled_time, runs[id].state.pause_timeout}
  /\ runs' = [runs EXCEPT ![id].state = Elapsed(runs[id].state)]
  /\ UNCHANGED <<limit, retried>>

Next ==
  \/ \E id \in Runs :
       \/ CreateFlowRun(id) \/ ClientRequest(id) \/ ResumeFlowRun(id)
       \/ MarkFlowRunAsLate(id) \/ FailExpiredPause(id)
       \/ UpdateInfrastructurePid(id) \/ DeleteFlowRun(id) \/ ClockPasses(id)
  \/ \E n \in Limits : UpdateDeploymentLimit(n)

Spec == Init /\ [][Next]_vars

-----------------------------------------------------------------------------
(* Properties.                                                             *)

\* Every variable keeps its type: rows and limit stay well-formed records.
TypeOK ==
  /\ runs \in [Runs -> FlowRun \cup {None}]
  /\ limit \in ConcurrencyLimit /\ limit.active
  /\ retried \in [Runs -> Nat]

\* No slot is leaked: the limit's row never counts more slots than there are
\* runs in PENDING, RUNNING or CANCELLING, and no slots when the limit was
\* removed.  A leaked slot would be lost for good, for no later transition
\* gives it back (SecureFlowConcurrencySlots, ReleaseFlowConcurrencySlots).
NoSlotLeak ==
  /\ limit.active_slots <= Cardinality(Holders)
  /\ limit.limit = None => limit.active_slots = 0

\* A run is retried in process at most `retries` times over its whole life,
\* whatever pauses, resumptions and reruns happen in between
\* (RetryFailedFlows, IncrementFlowRunCount).
RetriesBounded ==
  \A id \in Rows : retried[id] <= (IF Retries = None THEN 0 ELSE Retries)

\* A cancellation is final: unless it is forced, no request takes a run out of
\* CANCELLING except to CANCELLED, nor out of CANCELLED, not even the service
\* that marks runs as late, which selected them earlier
\* (EnforceCancellingToCancelledTransition, EnsureOnlyScheduledFlowsMarkedLate).
CancellationFinal ==
  [][\A id \in Rows :
       TypeOf(runs[id]) \in {"CANCELLING", "CANCELLED"}
       => \/ runs'[id] = None
          \/ TypeOf(runs'[id]) \in {TypeOf(runs[id]), "CANCELLED"}]_vars

\* A run that is queued, paused or finished only reaches PENDING by taking a
\* slot, so a limit that is full admits nobody: the number of slots never
\* grows past the limit in a step that adds one (bulk_increment_active_slots).
NoAdmissionBeyondLimit ==
  [][limit'.active_slots > limit.active_slots
       => /\ limit'.active_slots <= limit'.limit
          /\ \E id \in Rows : /\ id \notin Holders /\ id \in Holders'
                              /\ TypeOf(runs'[id]) = "PENDING"]_vars

=============================================================================
