---------------------------- MODULE FlowRunRules ----------------------------
(***************************************************************************)
(* The orchestration rules that govern flow run state transitions          *)
(* (server/orchestration/core_policy.py, rules.py, global_policy.py) as    *)
(* constant-level operators.                                               *)
(*                                                                         *)
(* A transition is proposed as a pair (r, p): the flow run r as it is      *)
(* stored, and the state p a client asks for.  A policy is an ordered list *)
(* of rules; the first rule that changes the transition decides it,        *)
(* because every later rule then finds a transition other than the one it  *)
(* was compiled for and does nothing.  The outcome is a verdict: the       *)
(* status sent to the client and the state to be written, or NoState.      *)
(***************************************************************************)
EXTENDS Naturals

CONSTANTS
  Keys,          \* explicit pause keys a flow may use
  TransitionIds, \* ids a client attaches to a request that it may resend
  Retries,       \* empirical_policy.retries, or None
  Strategy,      \* collision strategy of the deployment's concurrency limit
  None,          \* an absent value
  NoState        \* an absent state

StateTypes == {"SCHEDULED", "PENDING", "RUNNING", "COMPLETED", "FAILED",
               "CANCELLED", "CRASHED", "PAUSED", "CANCELLING"}

TERMINAL_STATES == {"COMPLETED", "CANCELLED", "FAILED", "CRASHED"}

\* The states in which a deployed run counts against its deployment's limit.
SlotStates == {"PENDING", "RUNNING", "CANCELLING"}

\* A time is compared with the server's clock only.
Times == {None, "future", "past"}

(***************************************************************************)
(* A state: its type, its name where a rule or a query looks at it, the    *)
(* scheduled_time, pause_timeout, pause_reschedule, pause_key and          *)
(* transition_id of its details, and whether it carries persisted data.    *)
(***************************************************************************)
Names == {"Default", "Late", "Resuming", "AwaitingRetry",
          "AwaitingConcurrencySlot"}

State == [type : StateTypes, name : Names, scheduled_time : Times,
          pause_timeout : Times, pause_reschedule : BOOLEAN,
          pause_key : Keys \cup {None}, transition_id : TransitionIds \cup {None},
          persisted : BOOLEAN]

\* A state of the given type with every optional detail absent.
Plain(type) ==
  [type |-> type, name |-> "Default", scheduled_time |-> None,
   pause_timeout |-> None, pause_reschedule |-> FALSE, pause_key |-> None,
   transition_id |-> None, persisted |-> FALSE]

\* A Scheduled state always has a scheduled time (now, if none was given).
Scheduled(name, time) ==
  [Plain("SCHEDULED") EXCEPT !.name = name, !.scheduled_time = time]

Paused(key, timeout, reschedule) ==
  [Plain("PAUSED") EXCEPT !.pause_key = key, !.pause_timeout = timeout,
                          !.pause_reschedule = reschedule]

IsFinal(s) == s.type \in TERMINAL_STATES

(***************************************************************************)
(* A stored flow run: its current state, whether a deployment and a parent *)
(* task run are attached, whether an infrastructure_pid was recorded, and  *)
(* the counters the rules read: run_count and empirical_policy.            *)
(***************************************************************************)
FlowRun == [state : State \cup {NoState}, deployment : BOOLEAN,
            parent_task_run : BOOLEAN, infrastructure_pid : BOOLEAN,
            run_count : Nat, resuming : BOOLEAN, pause_keys : SUBSET Keys,
            retry_type : {None, "in_process", "reschedule"}]

\* The values the constants may have: the absent ones are none of the others.
ASSUME RulesAssumption ==
  /\ Retries \in Nat \cup {None}
  /\ Strategy \in {"ENQUEUE", "CANCEL_NEW"}
  /\ None \notin Nat /\ None \notin StateTypes /\ None \notin Keys
  /\ None \notin TransitionIds
  /\ None \notin FlowRun /\ NoState \notin State

TypeOf(r) == IF r.state = NoState THEN None ELSE r.state.type

\* The concurrency limit row of the deployment; limit = None: no such row.
ConcurrencyLimit == [limit : Nat \cup {None}, active : BOOLEAN,
                     active_slots : Nat]

-----------------------------------------------------------------------------
(* Verdicts and how a list of rules composes.                              *)

Pass == [status |-> "ACCEPT", state |-> NoState]
Reject(s) == [status |-> "REJECT", state |-> s]
Abort == [status |-> "ABORT", state |-> NoState]
Wait == [status |-> "WAIT", state |-> NoState]

\* The earlier rule decides; a later one is consulted only if it passed.
a ++ b == IF a = Pass THEN b ELSE a

If(condition, verdict) == IF condition THEN verdict ELSE Pass

-----------------------------------------------------------------------------
(* The rules, in the order of CoreFlowPolicy.                              *)

\* A variant that does not recognise a request that is resent, for
\* ScheduledRunsEnd.
PreventDuplicateTransitionsMutant(r, p) == Pass

PreventDuplicateTransitions(r, p) ==
  If(/\ r.state # NoState
     /\ p.transition_id # None
     /\ p.transition_id = r.state.transition_id, Reject(NoState))

HandleFlowTerminalStateTransitions(r, p) ==
  If(TypeOf(r) \in TERMINAL_STATES,
     If(p.type \in {"CANCELLING", "PAUSED", "CRASHED"}, Abort)
     ++ If(/\ TypeOf(r) = "COMPLETED"
           /\ ~IsFinal(p)
           /\ r.state.persisted, Reject(NoState))
     ++ If(p.type = "SCHEDULED" /\ ~r.deployment, Abort))

EnforceCancellingToCancelledTransition(r, p) ==
  If(TypeOf(r) \in {"CANCELLED", "CANCELLING"} /\ p.type # "CANCELLED",
     Reject(NoState))

BypassCancellingFlowRunsWithNoInfra(r, p) ==
  If(/\ TypeOf(r) \in {"SCHEDULED", "PAUSED"} /\ p.type = "CANCELLING"
     /\ \/ r.state.name = "Resuming"
        \/ TypeOf(r) = "SCHEDULED" /\ ~r.infrastructure_pid
        \/ TypeOf(r) = "PAUSED" /\ r.state.pause_reschedule,
     Reject(Plain("CANCELLED")))

\* A variant that lets PENDING through unless the run is cancelled, for
\* SubmittedOnce and ExecutedOnce.
PreventPendingTransitionsMutant(r, p) ==
  If(TypeOf(r) \in {"CANCELLING", "CANCELLED"} /\ p.type = "PENDING", Abort)

PreventPendingTransitions(r, p) ==
  If(/\ TypeOf(r) \in {"PENDING", "CANCELLING", "RUNNING", "CANCELLED"}
     /\ p.type = "PENDING", Abort)

\* A variant with an off-by-one, for NoAdmissionBeyondLimit.
HasFreeSlotMutant(l) == l.active /\ l.active_slots <= l.limit

\* bulk_increment_active_slots: one conditional UPDATE of the limit's row.
HasFreeSlot(l) == l.active /\ l.active_slots + 1 <= l.limit

\* The transitions for which SecureFlowConcurrencySlots asks for a slot.
WantsSlot(r, p, l) ==
  /\ TypeOf(r) \notin SlotStates /\ p.type = "PENDING"
  /\ r.deployment /\ l.limit # None

SecureFlowConcurrencySlots(r, p, l) ==
  If(WantsSlot(r, p, l),
     If(l.limit = 0, Abort)
     ++ If(~HasFreeSlot(l),
           Reject(IF Strategy = "ENQUEUE"
                    THEN Scheduled("AwaitingConcurrencySlot", "future")
                    ELSE Plain("CANCELLED"))))

\* A variant that trusts the selection of the service, for CancellationFinal.
EnsureOnlyScheduledFlowsMarkedLateMutant(r, p) == Pass

EnsureOnlyScheduledFlowsMarkedLate(r, p) ==
  If(/\ r.state # NoState /\ TypeOf(r) # "SCHEDULED"
     /\ p.type = "SCHEDULED" /\ p.name = "Late", Reject(NoState))

HandlePausingFlows(r, p) ==
  If(p.type = "PAUSED",
     If(r.state = NoState, Abort)
     ++ If(TypeOf(r) # "RUNNING", Reject(NoState))
     ++ If(p.pause_key \in r.pause_keys, Reject(NoState))
     ++ If(p.pause_reschedule /\ (r.parent_task_run \/ ~r.deployment), Abort))

HandleResumingPausedFlows(r, p) ==
  If(TypeOf(r) = "PAUSED",
     If(~(p.type \in {"RUNNING", "SCHEDULED"} \/ IsFinal(p)), Reject(NoState))
     ++ If(r.state.pause_reschedule /\ ~r.deployment, Reject(NoState))
     ++ If(r.state.pause_timeout = "past", Reject(Plain("FAILED"))))

\* A variant that compares the times the wrong way round, for ScheduledRunsEnd.
WaitForScheduledTimeMutant(r, p) ==
  If(/\ TypeOf(r) \in {"SCHEDULED", "PENDING"} /\ p.type = "RUNNING"
     /\ r.state.scheduled_time = "past", Wait)

WaitForScheduledTime(r, p) ==
  If(/\ TypeOf(r) \in {"SCHEDULED", "PENDING"} /\ p.type = "RUNNING"
     /\ r.state.scheduled_time = "future", Wait)

RetryFailedFlows(r, p) ==
  If(/\ TypeOf(r) = "RUNNING" /\ p.type = "FAILED"
     /\ Retries # None /\ r.run_count <= Retries,
     Reject(Scheduled("AwaitingRetry", "future")))

\* CopyScheduledTime: the only rule that edits an accepted state in place.
CopyScheduledTime(r, p) ==
  IF TypeOf(r) = "SCHEDULED" /\ p.type = "PENDING" /\ p.scheduled_time = None
    THEN [p EXCEPT !.scheduled_time = r.state.scheduled_time]
    ELSE p

-----------------------------------------------------------------------------
(***************************************************************************)
(* The policies.  "core" governs requests of current clients, "legacy"     *)
(* those of the client versions that manage deployment concurrency         *)
(* themselves, "minimal" every forced transition (and those made without a *)
(* policy), "late" the MarkLateRuns service.                               *)
(***************************************************************************)
Policies == {"core", "legacy", "minimal", "late"}

\* The rules a core policy consults before SecureFlowConcurrencySlots ...
CoreUpToSecuring(r, p) ==
  PreventDuplicateTransitions(r, p)
  ++ (HandleFlowTerminalStateTransitions(r, p)
  ++ (EnforceCancellingToCancelledTransition(r, p)
  ++ (BypassCancellingFlowRunsWithNoInfra(r, p)
  ++ PreventPendingTransitions(r, p))))

\* ... and before HandleResumingPausedFlows.
CoreUpToPausing(policy, r, p, l) ==
  CoreUpToSecuring(r, p)
  ++ (If(policy = "core", SecureFlowConcurrencySlots(r, p, l))
  ++ (EnsureOnlyScheduledFlowsMarkedLate(r, p)
  ++ HandlePausingFlows(r, p)))

CoreFlowPolicy(policy, r, p, l) ==
  CoreUpToPausing(policy, r, p, l)
  ++ (HandleResumingPausedFlows(r, p)
  ++ (WaitForScheduledTime(r, p)
  ++ RetryFailedFlows(r, p)))

\* The verdict on a proposal; an accepted one carries the state to write.
Verdict(policy, r, p, l) ==
  LET v == CASE policy = "minimal" -> BypassCancellingFlowRunsWithNoInfra(r, p)
             [] policy = "late"    -> EnsureOnlyScheduledFlowsMarkedLate(r, p)
             [] OTHER              -> CoreFlowPolicy(policy, r, p, l)
      accepted == IF policy \in {"core", "legacy"}
                    THEN CopyScheduledTime(r, p) ELSE p
  IN  IF v = Pass THEN [v EXCEPT !.state = accepted] ELSE v

-----------------------------------------------------------------------------
(* The slots of the deployment's limit.                                    *)

\* A variant without the clamp, for LifecycleTypeOK.
DecrementMutant(l) ==
  IF l.limit # None /\ l.active THEN [l EXCEPT !.active_slots = @ - 1] ELSE l

\* bulk_decrement_active_slots: clamped at zero, skipped while inactive.
Decrement(l) ==
  IF l.limit # None /\ l.active /\ l.active_slots > 0
    THEN [l EXCEPT !.active_slots = @ - 1] ELSE l

\* before_transition of SecureFlowConcurrencySlots, where it is reached.
SlotSecured(policy, r, p, l) ==
  /\ policy = "core" /\ CoreUpToSecuring(r, p) = Pass
  /\ WantsSlot(r, p, l) /\ l.limit # 0 /\ HasFreeSlot(l)

\* A variant that forgets runs which never started, for NoSlotLeak.
SlotReleasedMutant(policy, r, final) ==
  /\ policy \in {"core", "minimal"}
  /\ r.deployment
  /\ final # NoState
  /\ TypeOf(r) \in {"RUNNING", "CANCELLING"} /\ final.type \notin SlotStates

\* A variant that gives the slot back when a run starts to be cancelled, for
\* SlotPoolKept.
SlotReleasedEarlyMutant(policy, r, final) ==
  /\ policy \in {"core", "minimal"}
  /\ r.deployment
  /\ final # NoState
  /\ TypeOf(r) \in SlotStates /\ final.type \notin {"PENDING", "RUNNING"}

\* A variant in which a suspended run keeps its slot, for ResumedRunsStart.
SlotReleasedLateMutant(policy, r, final) ==
  /\ policy \in {"core", "minimal"}
  /\ r.deployment
  /\ final # NoState
  /\ TypeOf(r) \in SlotStates /\ IsFinal(final)

\* after_transition of ReleaseFlowConcurrencySlots.
SlotReleased(policy, r, final) ==
  /\ policy \in {"core", "minimal"}
  /\ r.deployment
  /\ final # NoState
  /\ TypeOf(r) \in SlotStates /\ final.type \notin SlotStates

(***************************************************************************)
(* The limit after the transition: Secure takes a slot before the          *)
(* transition, and gives it back (cleanup) when a later rule changed it;   *)
(* Release gives one back when the run leaves the slot states.             *)
(***************************************************************************)
LimitAfter(policy, r, p, l, final) ==
  LET secured == SlotSecured(policy, r, p, l)
      taken   == IF secured THEN [l EXCEPT !.active_slots = @ + 1] ELSE l
      fizzled == secured /\ (final = NoState \/ final.type # "PENDING")
  IN  IF fizzled \/ SlotReleased(policy, r, final) THEN Decrement(taken)
                                                   ELSE taken

-----------------------------------------------------------------------------
(* The run's counters and pause metadata.                                  *)

\* A variant that leaves the resuming mark of an earlier pause in place, for
\* RetriesBounded.
ResetPauseMutant(r, retry_type) ==
  [r EXCEPT !.pause_keys = {}, !.retry_type = retry_type]

\* A rerun or a retry starts without the pause metadata of the last attempt,
\* and records who is to start it: the query of the workers skips runs whose
\* retry_type is "in_process".
ResetPause(r, retry_type) ==
  [r EXCEPT !.resuming = FALSE, !.pause_keys = {}, !.retry_type = retry_type]

\* The metadata written by the rules' before_transition hooks that survive:
\* HandleFlowTerminalStateTransitions restores it if a later rule objects.
PolicyBefore(policy, r, p, v) ==
  IF policy \notin {"core", "legacy"} THEN r
  ELSE IF TypeOf(r) \in TERMINAL_STATES /\ ~IsFinal(p) /\ v.status = "ACCEPT"
    THEN ResetPause(r, IF p.type = "SCHEDULED" THEN "reschedule" ELSE None)
  ELSE IF /\ TypeOf(r) = "RUNNING" /\ p.type = "FAILED"
          /\ v.state # NoState /\ v.state.type = "SCHEDULED"
    THEN ResetPause(r, "in_process")
  ELSE r

\* IncrementFlowRunCount, then RemoveResumingIndicator: they see the state
\* about to be written, after every rule's before_transition hook.
GlobalTransforms(r, final) ==
  IF final = NoState THEN r
  ELSE [r EXCEPT
          !.run_count = IF final.type = "RUNNING" /\ ~r.resuming
                          THEN @ + 1 ELSE @,
          !.resuming = @ /\ ~(final.type = "RUNNING" \/ IsFinal(final))]

\* The after_transition hooks of the pausing and the resuming rule; the
\* latter also runs when the rule itself rejected the transition.  The cleanup of
\* HandleFlowTerminalStateTransitions comes after RemoveResumingIndicator, and brings
\* the mark back if a later rule cancels the run instead.
PolicyAfter(policy, r, p, l, v, run) ==
  IF policy \notin {"core", "legacy"} THEN run
  ELSE IF v.status = "ACCEPT" /\ p.type = "PAUSED" /\ p.pause_key # None
    THEN [run EXCEPT !.pause_keys = @ \cup {p.pause_key}]
  ELSE IF TypeOf(r) = "PAUSED" /\ CoreUpToPausing(policy, r, p, l) = Pass
    THEN [run EXCEPT !.resuming = TRUE]
  ELSE IF TypeOf(r) \in TERMINAL_STATES /\ v.state # NoState /\ v.state.type # p.type
    THEN [run EXCEPT !.resuming = r.resuming]
  ELSE run

\* The stored run after the transition; NoState leaves its state alone.
RunAfter(policy, r, p, l, v) ==
  LET run == PolicyAfter(policy, r, p, l, v,
               GlobalTransforms(PolicyBefore(policy, r, p, v), v.state))
  IN  IF v.state = NoState THEN run ELSE [run EXCEPT !.state = v.state]

=============================================================================
