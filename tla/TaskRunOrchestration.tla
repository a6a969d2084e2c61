-------------------------- MODULE TaskRunOrchestration --------------------------
(***************************************************************************)
(* Task runs and the concurrency limits of their tags.  A task run's state *)
(* is set by requests that CoreTaskPolicy governs, or, for the runs of     *)
(* Engine, by a task engine that keeps its state itself and asks the       *)
(* server for slots only.  Both kinds take slots in the same rows, which   *)
(* name the task runs that hold them.  A request is one transaction, as    *)
(* under SQLite, which has one writer at a time.                           *)
(***************************************************************************)
EXTENDS Integers, FiniteSets

CONSTANTS
  TaskRuns,
  Engine,       \* the task runs of task engines
  Orchestrated, \* the task runs whose states clients propose
  Flows,        \* the flow runs they belong to
  FlowOf,       \* FlowOf[r]: the flow run of r, or None
  Tags,         \* tags, numbered in the order in which rows are locked
  TagsOf,       \* TagsOf[r]: the tags of r
  Limits,       \* the limits a tag may be given, None among them for no limit
  Proposals,    \* what clients propose, see Proposal
  Retries,      \* the retries of a task run
  CacheKeys,
  MaxRunCount,  \* a bound on a task run's executions
  MayLose,      \* whether answers to requests for slots may get lost
  Populations,  \* what there is at first: sets of task runs and of flow runs
  None

StateTypes == {"SCHEDULED", "PENDING", "RUNNING", "PAUSED", "CANCELLING",
               "COMPLETED", "FAILED", "CRASHED", "CANCELLED"}
TERMINAL_STATES == {"COMPLETED", "FAILED", "CRASHED", "CANCELLED"}

\* early: the scheduled time is in the future; persisted: the result is stored.
State == [type : StateTypes, early : BOOLEAN, persisted : BOOLEAN]
Proposal == [type : StateTypes, early : BOOLEAN, persisted : BOOLEAN,
             cache_key : CacheKeys \cup {None}, retriable : BOOLEAN]
Row == [type : StateTypes, early : BOOLEAN, persisted : BOOLEAN, run_count : Nat]

ASSUME TaskRunAssumption ==
  /\ Engine \subseteq TaskRuns /\ Orchestrated \subseteq TaskRuns \ Engine
  /\ FlowOf \in [TaskRuns -> Flows \cup {None}]
  /\ Tags \subseteq Nat
  /\ TagsOf \in [TaskRuns -> SUBSET Tags]
  /\ Limits \subseteq Nat \cup {None}
  /\ None \notin Nat \cup State \cup Row
  /\ Proposals \subseteq Proposal
  /\ Retries \in Nat /\ MaxRunCount \in Nat
  /\ MayLose \in BOOLEAN
  /\ Populations \subseteq [runs : SUBSET TaskRuns, flows : SUBSET Flows, cleanup : BOOLEAN]

VARIABLES
  task,     \* the table of task runs: a state and run_count, None if deleted
  limit,    \* per tag, its limit or None if it has none
  slots,    \* per tag, active_slots: the task runs that hold a slot
  cached,   \* the cache keys of completed states
  flow,     \* the state of each flow run
  client,   \* where the task engine of each run of Engine is
  delayed   \* history: the runs that were last told to wait or give up for a tag

vars == <<task, limit, slots, cached, flow, client, delayed>>
tagVars == <<limit, slots>>

TaskInit(population) ==
  /\ task = [r \in TaskRuns |->
       IF r \in population.runs
         THEN [type |-> "PENDING", early |-> FALSE, persisted |-> FALSE, run_count |-> 0]
         ELSE None]
  /\ limit \in [Tags -> Limits]
  /\ slots = [t \in Tags |-> {}]
  /\ cached = {}
  /\ flow = [f \in Flows |-> IF f \in population.flows THEN "RUNNING" ELSE None]
  /\ client = [r \in TaskRuns |-> "idle"]
  /\ delayed = {}

-----------------------------------------------------------------------------
(* The rules of CoreTaskPolicy, in its order: from a task run's row and a   *)
(* proposal to what becomes of the proposal.                               *)

Pass == [status |-> "ACCEPT", state |-> None]
Reject(s) == [status |-> "REJECT", state |-> s]
Abort == [status |-> "ABORT", state |-> None]
Wait == [status |-> "WAIT", state |-> None]

\* The earlier rule decides; a later one is consulted only if it passed.
a ++ b == IF a = Pass THEN b ELSE a
If(condition, verdict) == IF condition THEN verdict ELSE Pass
Plain(type) == [type |-> type, early |-> FALSE, persisted |-> FALSE]

\* A result that is cached is persisted.
CacheRetrieval(p) ==
  If(p.type = "RUNNING" /\ p.cache_key \in cached,
     Reject([type |-> "COMPLETED", early |-> FALSE, persisted |-> TRUE]))

HandleTaskTerminalStateTransitions(r, p) ==
  If(task[r].type \in TERMINAL_STATES,
     If(p.type \in {"CANCELLING", "PAUSED", "CRASHED"}, Abort)
     ++ If(task[r].type = "COMPLETED" /\ task[r].persisted, Reject(None)))

PreventRunningTasksFromStoppedFlows(r, p) ==
  If(p.type = "RUNNING" /\ FlowOf[r] # None,
     If(flow[FlowOf[r]] = "PAUSED", Reject(Plain("PAUSED")))
     ++ If(flow[FlowOf[r]] # "RUNNING", Abort))

Limited(r) == {t \in TagsOf[r] : limit[t] # None}

\* A variant with an off-by-one, for AdmittedWithinLimits.
FullMutant(r) == {t \in Limited(r) : Cardinality(slots[t]) > limit[t]}

\* The tags whose limit has been reached, be it by r itself.
Full(r) == {t \in Limited(r) : Cardinality(slots[t]) >= limit[t]}

\* SecureTaskConcurrencySlots goes on to the tags behind one that is full, and its
\* last word counts.
SecureTaskConcurrencySlots(r, p) ==
  If(p.type = "RUNNING" /\ Full(r) # {},
     LET last == CHOOSE t \in Full(r) : \A u \in Full(r) : u <= t
     IN  IF limit[last] = 0 THEN Abort ELSE Wait)

WaitForScheduledTime(r, p) ==
  If(task[r].type \in {"SCHEDULED", "PENDING"} /\ p.type = "RUNNING" /\ task[r].early,
     Wait)

RetryFailedTasks(r, p) ==
  If(/\ task[r].type = "RUNNING" /\ p.type = "FAILED"
     /\ p.retriable /\ task[r].run_count <= Retries,
     Reject([type |-> "SCHEDULED", early |-> TRUE, persisted |-> FALSE]))

BeforeSlots(r, p) ==
  CacheRetrieval(p) ++ HandleTaskTerminalStateTransitions(r, p)
  ++ PreventRunningTasksFromStoppedFlows(r, p)

AfterSlots(r, p) == WaitForScheduledTime(r, p) ++ RetryFailedTasks(r, p)

Verdict(r, p) ==
  BeforeSlots(r, p) ++ SecureTaskConcurrencySlots(r, p) ++ AfterSlots(r, p)

\* The state that is written, None for none; CopyScheduledTime edits it in place.
Written(r, p) ==
  LET v == Verdict(r, p)
  IN  IF v = Pass
        THEN [type |-> p.type, persisted |-> p.persisted,
              early |-> IF task[r].type = "SCHEDULED" /\ p.type = "PENDING"
                          THEN p.early \/ task[r].early ELSE p.early]
        ELSE v.state

\* IncrementTaskRunCount; run_count starts again when a terminal state is left, which
\* is undone where a later rule decides otherwise.
RunCount(r, p, s) ==
  LET left == /\ Verdict(r, p) = Pass
              /\ task[r].type \in TERMINAL_STATES /\ p.type \notin TERMINAL_STATES
      base == IF left THEN 0 ELSE task[r].run_count
  IN  IF s.type = "RUNNING" THEN base + 1 ELSE base

-----------------------------------------------------------------------------
(* The slots of tags.                                                      *)

Without(holders, r, tags) ==
  [t \in Tags |-> IF t \in tags THEN holders[t] \ {r} ELSE holders[t]]

\* What the loop of SecureTaskConcurrencySlots leaves behind: a full tag takes back
\* the slots of the tags before it, and not those of the tags after it.
SlotsSecured(r) ==
  [t \in Tags |->
     IF t \in Limited(r) \ Full(r)
       THEN IF \E u \in Full(r) : t < u THEN slots[t] \ {r} ELSE slots[t] \cup {r}
       ELSE slots[t]]

\* A variant without the rule's cleanup, for SlotsHaveOwners.
SlotsAskedMutant(r, p) ==
  IF p.type # "RUNNING" \/ BeforeSlots(r, p) # Pass THEN slots ELSE SlotsSecured(r)

\* The rule's part in a transition, with its cleanup if a rule after it decides.
SlotsAsked(r, p) ==
  IF p.type # "RUNNING" \/ BeforeSlots(r, p) # Pass THEN slots
  ELSE IF Full(r) = {} /\ AfterSlots(r, p) # Pass THEN Without(slots, r, Limited(r))
  ELSE SlotsSecured(r)

\* A variant that takes CANCELLING for the end of an execution, for KeptWhileExecuting.
ReleaseTaskConcurrencySlotsMutant(r, s, holders) ==
  IF s.type = "RUNNING" THEN holders ELSE Without(holders, r, Limited(r))

\* ReleaseTaskConcurrencySlots, of every policy.
ReleaseTaskConcurrencySlots(r, s, holders) ==
  IF s.type \in {"RUNNING", "CANCELLING"} THEN holders
                                         ELSE Without(holders, r, Limited(r))

-----------------------------------------------------------------------------
(* Requests to the server.                                                 *)

\* set_task_run_state under CoreTaskPolicy, in one transaction; CacheInsertion follows an acceptance.
SetTaskRunState(r, p) ==
  /\ task[r] # None
  /\ LET s == Written(r, p)
         asks == p.type = "RUNNING" /\ BeforeSlots(r, p) = Pass
     IN  /\ IF s = None
              THEN UNCHANGED task /\ slots' = SlotsAsked(r, p)
              ELSE /\ task' = [task EXCEPT ![r] =
                                 [type |-> s.type, early |-> s.early,
                                  persisted |-> s.persisted,
                                  run_count |-> RunCount(r, p, s)]]
                   /\ slots' = ReleaseTaskConcurrencySlots(r, s, SlotsAsked(r, p))
         /\ cached' = cached \cup (IF Verdict(r, p) = Pass /\ p.type = "COMPLETED"
                                     THEN {p.cache_key} \ {None} ELSE {})
         /\ delayed' = IF asks /\ Full(r) # {} THEN delayed \cup {r}
                       ELSE IF s # None THEN delayed \ {r} ELSE delayed
  /\ UNCHANGED <<limit, flow, client>>

\* With force, MinimalTaskPolicy and the transforms are all there is, also for the runs
\* of engines.
ForceTaskRunState(r, s) ==
  /\ task' = [task EXCEPT ![r] =
       [type |-> s.type, early |-> s.early, persisted |-> s.persisted,
        run_count |-> IF s.type = "RUNNING" THEN @.run_count + 1 ELSE @.run_count]]
  /\ slots' = ReleaseTaskConcurrencySlots(r, s, slots)
  /\ delayed' = IF r \in Engine THEN delayed ELSE delayed \ {r}

Propose(r) ==
  /\ r \in Orchestrated /\ task[r] # None
  /\ \E p \in Proposals : /\ p.type = "RUNNING" => task[r].run_count < MaxRunCount
                          /\ SetTaskRunState(r, p)

\* delete_task_run looks at no limit.
DeleteTaskRun(r) ==
  /\ task[r] # None
  /\ task' = [task EXCEPT ![r] = None]
  /\ UNCHANGED <<tagVars, cached, flow, client, delayed>>

\* create_concurrency_limit, which keeps the slots of a limit that exists,
\* delete_concurrency_limit_by_tag and reset_concurrency_limit_by_tag.
SetLimit(t) ==
  \E n \in Limits :
    /\ limit[t] # n
    /\ limit' = [limit EXCEPT ![t] = n]
    /\ slots' = IF n = None THEN [slots EXCEPT ![t] = {}] ELSE slots
    /\ UNCHANGED <<task, cached, flow, client, delayed>>

ResetLimit(t) ==
  /\ limit[t] # None /\ slots[t] # {}
  /\ slots' = [slots EXCEPT ![t] = {}]
  /\ UNCHANGED <<task, limit, cached, flow, client, delayed>>

-----------------------------------------------------------------------------
(* The task engine: call_task_fn within concurrency(tags, task_run.id).    *)

ClientAt(r, place) == client' = [client EXCEPT ![r] = place]

\* The engine's states reach the table without orchestration; a row that was
\* deleted is inserted again.
Recorded(r, type) ==
  task' = [task EXCEPT ![r] = [type |-> type, early |-> FALSE, persisted |-> FALSE,
                               run_count |-> 1]]

StartTask(r) ==
  /\ r \in Engine /\ client[r] = "idle" /\ task[r] # None
  /\ ClientAt(r, "acquiring")
  /\ Recorded(r, "RUNNING")
  /\ UNCHANGED <<tagVars, cached, flow, delayed>>

\* resending: the answer to an earlier request, which took the slots, was lost.
Asking(r) == client[r] \in {"acquiring", "resending"}

\* A variant that keeps what it took before it came to a full tag, for WaitersServed.
LockedMutant(r) ==
  /\ Asking(r) /\ Full(r) # {}
  /\ slots' = [t \in Tags |->
       IF t \in Limited(r) /\ \A u \in Full(r) : t < u THEN slots[t] \cup {r}
                                                      ELSE slots[t]]
  /\ UNCHANGED <<task, limit, cached, flow, client, delayed>>

\* increment_concurrency_limits_v1 stops at the first full tag, and its transaction is
\* rolled back.  The engine asks again, or fails if the limit is 0.
Locked(r) ==
  /\ Asking(r) /\ Full(r) # {}
  /\ LET first == CHOOSE t \in Full(r) : \A u \in Full(r) : t <= u
     IN  IF limit[first] = 0
           THEN ClientAt(r, "done") /\ Recorded(r, "FAILED") /\ delayed' = delayed \cup {r}
           ELSE UNCHANGED <<client, task, delayed>>
  /\ UNCHANGED <<tagVars, cached, flow>>

\* All tags have a slot.  If the answer gets lost the request is sent again.
Acquired(r) ==
  /\ Asking(r) /\ Full(r) = {}
  /\ slots' = [t \in Tags |-> IF t \in Limited(r) THEN slots[t] \cup {r} ELSE slots[t]]
  /\ \/ ClientAt(r, "inside")
     \/ MayLose /\ ClientAt(r, "resending")
  /\ UNCHANGED <<task, limit, cached, flow, delayed>>

\* decrement_concurrency_limits_v1, whether the task has returned or raised.
FinishTask(r) ==
  /\ client[r] = "inside"
  /\ slots' = Without(slots, r, Limited(r))
  /\ ClientAt(r, "done")
  /\ \E type \in {"COMPLETED", "FAILED"} : Recorded(r, type)
  /\ UNCHANGED <<limit, cached, flow, delayed>>

CrashTask(r) ==
  /\ Asking(r) \/ client[r] = "inside"
  /\ ClientAt(r, "crashed")
  /\ UNCHANGED <<task, tagVars, cached, flow, delayed>>

EngineStep(r) == Locked(r) \/ Acquired(r) \/ FinishTask(r)

\* Times pass; a task run that waited for its scheduled time waits no more.
ClockPasses(r) ==
  /\ task[r] # None /\ task[r].early
  /\ task' = [task EXCEPT ![r].early = FALSE]
  /\ UNCHANGED <<tagVars, cached, flow, client, delayed>>

TaskNext ==
  \/ \E r \in TaskRuns : \/ Propose(r) \/ DeleteTaskRun(r) \/ ClockPasses(r)
                         \/ StartTask(r) \/ EngineStep(r) \/ CrashTask(r)
  \/ \E t \in Tags : SetLimit(t) \/ ResetLimit(t)

-----------------------------------------------------------------------------
(* Properties.                                                             *)

\* The types of the variables of this module, a part of those of CancellationCleanup.
TaskTypeOK ==
  /\ task \in [TaskRuns -> [type : StateTypes, early : BOOLEAN, persisted : BOOLEAN,
                            run_count : 0..MaxRunCount] \cup {None}]
  /\ limit \in [Tags -> Limits]
  /\ slots \in [Tags -> SUBSET TaskRuns]
  /\ cached \subseteq CacheKeys
  /\ client \in [TaskRuns -> {"idle", "acquiring", "resending", "inside", "done", "crashed"}]
  /\ delayed \subseteq TaskRuns

\* Whoever holds a slot of a tag has a use for it: the run is RUNNING or CANCELLING,
\* or its engine executes it.  The exceptions are runs whose row was deleted, engines
\* that crashed or whose answer got lost, and runs that were told to wait for another
\* tag (SecureTaskConcurrencySlots and its cleanup, ReleaseTaskConcurrencySlots).
SlotsHaveOwners ==
  \A t \in Tags : \A r \in slots[t] :
    \/ task[r] = None
    \/ r \in delayed
    \/ IF r \in Engine THEN client[r] \in {"inside", "crashed", "resending"}
                       ELSE task[r].type \in {"RUNNING", "CANCELLING"}

Enters(r) ==
  IF r \in Engine
    THEN client[r] # "inside" /\ client'[r] = "inside"
    ELSE /\ task[r] # None /\ task'[r] # None /\ task'[r].type = "RUNNING"
         /\ task[r].type # "RUNNING" \/ task[r].run_count # task'[r].run_count

\* Whoever enters its execution has from then on a slot of each limited tag, and no
\* tag of it more holders than its limit (SecureTaskConcurrencySlots,
\* increment_concurrency_limits_v1).
AdmittedWithinLimits ==
  [][\A r \in TaskRuns : Enters(r) =>
       \A t \in Limited(r) : r \in slots'[t] /\ Cardinality(slots'[t]) <= limit[t]]_vars

Executing(r) ==
  IF r \in Engine THEN client'[r] = "inside"
                 ELSE task'[r] # None /\ task'[r].type \in {"RUNNING", "CANCELLING"}

\* Nobody loses a slot while it executes, cancellation included, unless a user removes
\* the limit or resets it.  There are two exceptions: a run that asks for RUNNING once
\* more, and waits for itself; and a run of an engine that goes on although the service
\* that follows its cancelled flow run has forced its state (ReleaseTaskConcurrencySlots,
\* decrement_concurrency_limits_v1).
KeptWhileExecuting ==
  [][\A t \in Tags : \A r \in slots[t] \ slots'[t] :
       Executing(r) => \/ limit'[t] = None \/ ResetLimit(t) \/ r \in delayed'
                       \/ r \in Engine /\ task'[r].type = "CANCELLED"]_vars

=============================================================================
