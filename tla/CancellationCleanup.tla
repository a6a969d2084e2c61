-------------------------- MODULE CancellationCleanup --------------------------
(***************************************************************************)
(* The service that follows a cancelled flow run down to its task runs and *)
(* subflows.  It reads batches of rows, and acts on each row in a          *)
(* transaction of its own, while users and clients go on.                  *)
(***************************************************************************)
EXTENDS TaskRunOrchestration

CONSTANTS
  ParentTask,   \* ParentTask[f]: the task run of the flow run above f, or None
  Deployed,     \* the flow runs of deployments
  FlowChanges,  \* the pairs of states between which clients move flow runs
  BatchSize

\* Ids of flow runs are ordered, as the high-water mark asks for.  The task run above a
\* subflow is a dummy that no engine executes.
ASSUME CleanupAssumption ==
  /\ Flows \subseteq Nat \ {0}
  /\ ParentTask \in [Flows -> (TaskRuns \ Engine) \cup {None}]
  /\ Deployed \subseteq Flows
  /\ FlowChanges \subseteq StateTypes \X StateTypes
  /\ BatchSize \in Nat \ {0}

VARIABLES
  enabled,    \* whether the service is enabled
  at,         \* where the service is
  batch,      \* the flow runs of its batch that it has not looked at
  full,       \* whether that batch had BatchSize rows
  children,   \* the task runs of the current flow run that it is to cancel
  mark,       \* the high-water mark of subflows
  doomed      \* the subflow it has decided to cancel, or None

serviceVars == <<enabled, at, batch, full, children, mark, doomed>>
cleanupVars == <<task, limit, slots, cached, flow, client, delayed,
                 enabled, at, batch, full, children, mark, doomed>>

Init ==
  /\ \E population \in Populations :
       TaskInit(population) /\ enabled = population.cleanup
  /\ at = "idle" /\ batch = {} /\ full = FALSE
  /\ children = {} /\ mark = 0 /\ doomed = None

\* UpdateSubflowParentTask: the state of a flow run is forced upon its parent task.
SetFlow(f, type) ==
  /\ flow' = [flow EXCEPT ![f] = type]
  /\ IF ParentTask[f] # None /\ task[ParentTask[f]] # None
       THEN ForceTaskRunState(ParentTask[f], Plain(type))
       ELSE UNCHANGED <<task, slots, delayed>>
  /\ UNCHANGED <<limit, cached, client>>

ChangeFlow(f) ==
  /\ \E change \in FlowChanges : flow[f] = change[1] /\ SetFlow(f, change[2])
  /\ UNCHANGED serviceVars

-----------------------------------------------------------------------------
(* clean_up_cancelled_flow_run_task_runs.                                  *)

Cancelled == {f \in Flows : flow[f] = "CANCELLED"}
Live(r) == task[r] # None /\ task[r].type \notin TERMINAL_STATES

\* A batch has no order, and no flow run leaves the query by being looked at.
ReadCancelled ==
  /\ enabled
  /\ at = "idle" \/ (at = "flows" /\ batch = {} /\ children = {} /\ full)
  /\ \E B \in SUBSET Cancelled :
       /\ \/ Cardinality(B) = BatchSize
          \/ B = Cancelled /\ Cardinality(B) < BatchSize
       /\ batch' = B
       /\ full' = (Cardinality(B) = BatchSize)
  /\ at' = "flows"
  /\ UNCHANGED <<vars, enabled, children, mark, doomed>>

\* A variant that takes a pause for the end of a task run, for CancellationsSpread.
ReadChildrenMutant ==
  /\ at = "flows" /\ children = {}
  /\ \E f \in batch :
       /\ children' = {r \in TaskRuns : FlowOf[r] = f /\ Live(r) /\ task[r].type # "PAUSED"}
       /\ batch' = batch \ {f}
  /\ UNCHANGED <<vars, enabled, at, full, mark, doomed>>

ReadChildren ==
  /\ at = "flows" /\ children = {}
  /\ \E f \in batch :
       /\ children' = {r \in TaskRuns : FlowOf[r] = f /\ Live(r)}
       /\ batch' = batch \ {f}
  /\ UNCHANGED <<vars, enabled, at, full, mark, doomed>>

\* One forced transition per child, whatever has become of it.  If it was deleted the
\* service's round ends with an error.
CancelChild ==
  /\ at = "flows"
  /\ \E r \in children :
       IF task[r] = None
         THEN /\ at' = "idle" /\ batch' = {} /\ children' = {}
              /\ UNCHANGED <<task, slots, delayed>>
         ELSE /\ ForceTaskRunState(r, Plain("CANCELLED"))
              /\ children' = children \ {r}
              /\ UNCHANGED <<at, batch>>
  /\ UNCHANGED <<limit, cached, flow, client, enabled, full, mark, doomed>>

-----------------------------------------------------------------------------
(* clean_up_cancelled_subflow_runs.                                        *)

Subflows ==
  {f \in Flows : /\ ParentTask[f] # None /\ f > mark
                 /\ flow[f] \notin TERMINAL_STATES \cup {None}}

\* The next BatchSize subflows above the mark.
ReadSubflows ==
  /\ batch = {} /\ children = {} /\ doomed = None
  /\ (at = "flows" /\ ~full) \/ (at = "subflows" /\ full)
  /\ batch' = {f \in Subflows : Cardinality({g \in Subflows : g < f}) < BatchSize}
  /\ full' = (Cardinality(batch') = BatchSize)
  /\ at' = "subflows"
  /\ UNCHANGED <<vars, enabled, children, mark, doomed>>

\* _cancel_subflow decides by the flow run above, as it is now.
ConsiderSubflow ==
  /\ at = "subflows" /\ doomed = None
  /\ \E f \in batch :
       LET parent == ParentTask[f]
       IN  /\ \A g \in batch : f <= g
           /\ batch' = batch \ {f}
           /\ mark' = f
           /\ doomed' = IF /\ task[parent] # None /\ FlowOf[parent] # None
                           /\ flow[FlowOf[parent]] = "CANCELLED"
                          THEN f ELSE None
  /\ UNCHANGED <<vars, enabled, at, full, children>>

\* It sets the state in a second transaction, under MinimalFlowPolicy, which lets a
\* flow run leave any state.  One that is paused has its process.
CancelSubflow ==
  /\ doomed # None
  /\ SetFlow(doomed, IF doomed \in Deployed THEN "CANCELLING" ELSE "CANCELLED")
  /\ doomed' = None
  /\ UNCHANGED <<enabled, at, batch, full, children, mark>>

EndRound ==
  /\ at = "subflows" /\ batch = {} /\ doomed = None /\ ~full
  /\ at' = "idle" /\ mark' = 0
  /\ UNCHANGED <<vars, enabled, batch, full, children, doomed>>

Service ==
  \/ ReadCancelled \/ ReadChildren \/ CancelChild
  \/ ReadSubflows \/ ConsiderSubflow \/ CancelSubflow \/ EndRound

Next ==
  \/ TaskNext /\ UNCHANGED serviceVars
  \/ \E f \in Flows : ChangeFlow(f)
  \/ Service

Spec == Init /\ [][Next]_cleanupVars

\* The service's loop runs as long as the server does, and a task engine that is
\* alive goes on.
FairSpec ==
  /\ Spec
  /\ WF_cleanupVars(Service)
  /\ \A r \in TaskRuns : WF_cleanupVars(EngineStep(r) /\ UNCHANGED serviceVars)

-----------------------------------------------------------------------------
(* Properties.                                                             *)

\* The types of the variables. They hold in the instance of tags, which leaves them out
\* for its other properties; SlotInv of the proofs implies those of the task runs.
TypeOK ==
  /\ TaskTypeOK
  /\ flow \in [Flows -> StateTypes \cup {None}]
  /\ enabled \in BOOLEAN
  /\ at \in {"idle", "flows", "subflows"}
  /\ batch \subseteq Flows /\ full \in BOOLEAN
  /\ children \subseteq TaskRuns
  /\ mark \in Flows \cup {0} /\ doomed \in Flows \cup {None}

\* The task runs of a cancelled flow run end, unless more flow runs were cancelled of
\* late than fit in a batch, which may leave out the same ones for ever. Its subflows are
\* cancelled or told to, unless a batch's worth of flow runs were cancelled: then the
\* first loop of the service never ends and the second is not reached
\* (clean_up_cancelled_flow_run_task_runs, clean_up_cancelled_subflow_runs).
ChildrenEnd(r) ==
  (enabled /\ Live(r) /\ flow[FlowOf[r]] = "CANCELLED")
    ~> (~Live(r) \/ Cardinality(Cancelled) > BatchSize)

SubflowEnds(f, parent) ==
  (/\ enabled /\ task[parent] # None /\ flow[FlowOf[parent]] = "CANCELLED"
   /\ flow[f] \notin TERMINAL_STATES \cup {None})
    ~> (\/ task[parent] = None
        \/ flow[f] \in TERMINAL_STATES \cup {"CANCELLING"}
        \/ Cardinality(Cancelled) >= BatchSize)

CancellationsSpread ==
  /\ \A r \in TaskRuns : FlowOf[r] # None => ChildrenEnd(r)
  /\ \A f \in Flows : ParentTask[f] # None => SubflowEnds(f, ParentTask[f])

\* A task engine that asks for slots gets all of them or an error, unless somebody
\* holds a slot of its tags who is not sure to give it back: engines never hold some
\* of their tags while they wait for others.  An engine whose answer got lost holds
\* slots and waits for itself.
WaitersServed ==
  \A r \in Engine :
    client[r] = "acquiring"
      ~> \/ client[r] # "acquiring"
         \/ \E t \in Limited(r) : \E q \in slots[t] : client[q] \notin {"inside", "acquiring"}

=============================================================================
