--------------------------- MODULE WorkerSubmission ---------------------------
(***************************************************************************)
(* One worker that limits how many flow runs it has in progress            *)
(* (prefect worker start --limit): the poll loop, and for each run it      *)
(* picks up two coroutines, _submit_run and the monitor of the             *)
(* infrastructure, _submit_run_and_capture_errors.  They share the tokens  *)
(* of an anyio.CapacityLimiter, which belong to run ids, and take turns at *)
(* every await; what happens between two awaits is one action here.        *)
(*                                                                         *)
(* The limiter raises a RuntimeError when an id takes a second token, or   *)
(* gives back one that it does not hold; a set raises a KeyError when it   *)
(* has not got what is to be removed.  Nobody catches them: the task group *)
(* they are raised in is cancelled, and the worker stops.                  *)
(***************************************************************************)
EXTENDS Naturals, FiniteSets

CONSTANTS
  Runs,
  Limit,       \* --limit
  MayFail,     \* whether the infrastructure may fail to start
  None

ASSUME WorkerAssumption ==
  /\ IsFiniteSet(Runs) /\ Limit \in Nat \ {0}
  /\ MayFail \in BOOLEAN
  /\ None \notin {"already holding", "not holding", "not cancelling"}

VARIABLES
  state,       \* what the server has each run in, as far as a worker can tell
  answer,      \* the runs of the poll that is being answered, or None
  submission,  \* where _submit_run is for each run
  monitor,     \* where _submit_run_and_capture_errors is
  borrowers,   \* the run ids that hold a token
  cancelled,   \* runs to be removed from _cancelling_flow_run_ids later
  error        \* the exception that stopped the worker, or None

workerVars == <<state, answer, submission, monitor, borrowers, cancelled, error>>

\* _cancelling_flow_run_ids: nothing in the worker adds to this set.
CancellingFlowRunIds == {}

\* The steps of _submit_run during which the run is in _submitting_flow_run_ids.
InSubmission == {"reading", "proposing", "starting", "waiting", "recording",
                 "not_started"}

WorkerInit ==
  /\ state = [id \in Runs |-> "scheduled"]
  /\ answer = None
  /\ submission = [id \in Runs |-> "idle"]
  /\ monitor = [id \in Runs |-> "idle"]
  /\ borrowers = {} /\ cancelled = {} /\ error = None

-----------------------------------------------------------------------------
(* The tokens.                                                             *)

\* _release_limit_slot
Release(id) ==
  IF id \in borrowers
    THEN borrowers' = borrowers \ {id} /\ UNCHANGED error
    ELSE error' = "not holding" /\ UNCHANGED borrowers

Submission(id, from, to) ==
  /\ error = None /\ submission[id] = from
  /\ submission' = [submission EXCEPT ![id] = to]

Monitor(id, from, to) ==
  /\ error = None /\ monitor[id] = from
  /\ monitor' = [monitor EXCEPT ![id] = to]

-----------------------------------------------------------------------------
(* The poll loop.                                                          *)

\* The server answers a poll; the worker has the answer later.
GetScheduledFlowRuns ==
  /\ error = None /\ answer = None
  /\ answer' = {id \in Runs : state[id] = "scheduled"}
  /\ UNCHANGED <<state, submission, monitor, borrowers, error, cancelled>>

\* _submit_scheduled_flow_runs, which awaits nothing.  It takes the runs in the
\* server's order until no token is left; a run that still holds one is an error.
SubmitScheduledFlowRuns ==
  LET new == {id \in answer : submission[id] \notin InSubmission}
  IN  /\ error = None /\ answer # None /\ answer' = None
      /\ \/ \E taken \in SUBSET (new \ borrowers) :
              /\ Cardinality(borrowers \cup taken) <= Limit
              /\ \/ taken = new
                 \/ /\ Cardinality(borrowers \cup taken) = Limit
                    /\ ~(new \subseteq borrowers \cup taken)
              /\ borrowers' = borrowers \cup taken
              /\ submission' = [id \in Runs |-> IF id \in taken
                                  THEN "reading" ELSE submission[id]]
              /\ UNCHANGED error
         \/ /\ new \cap borrowers # {}
            /\ error' = "already holding"
            /\ UNCHANGED <<borrowers, submission>>
      /\ UNCHANGED <<state, monitor, cancelled>>

-----------------------------------------------------------------------------
(* _submit_run.                                                            *)

ReadDeployment(id) ==
  /\ \/ Submission(id, "reading", "proposing")
     \/ Submission(id, "reading", "cancelling")
  /\ UNCHANGED <<state, answer, monitor, borrowers, error, cancelled>>

\* The run whose deployment is gone is cancelled, and that is all; its id is to
\* be forgotten in ten minutes.
MarkFlowRunAsCancelled(id) ==
  /\ Submission(id, "cancelling", "idle")
  /\ state' = [state EXCEPT ![id] = "ended"]
  /\ cancelled' = cancelled \cup {id}
  /\ UNCHANGED <<answer, monitor, borrowers, error>>

\* _cancelling_flow_run_ids.remove, called by _schedule_task.
ForgetCancelled(id) ==
  /\ error = None /\ id \in cancelled
  /\ cancelled' = cancelled \ {id}
  /\ error' = IF id \in CancellingFlowRunIds THEN None ELSE "not cancelling"
  /\ UNCHANGED <<state, answer, submission, monitor, borrowers>>

\* A variant that returns without the release, for NoSlotLost.
ProposePendingStateMutant(id) ==
  /\ \/ /\ Submission(id, "proposing", "starting")
        /\ state[id] = "scheduled"
        /\ state' = [state EXCEPT ![id] = "pending"]
     \/ Submission(id, "proposing", "idle") /\ UNCHANGED state
  /\ UNCHANGED <<answer, monitor, borrowers, error, cancelled>>

\* The server accepts, or it does not: the run is somebody else's by now, its
\* deployment's limit is reached, the request failed.
ProposePendingState(id) ==
  /\ \/ /\ Submission(id, "proposing", "starting")
        /\ state[id] = "scheduled"
        /\ state' = [state EXCEPT ![id] = "pending"]
        /\ UNCHANGED <<borrowers, error>>
     \/ /\ Submission(id, "proposing", "idle")
        /\ Release(id)
        /\ UNCHANGED state
  /\ UNCHANGED <<answer, monitor, cancelled>>

\* _runs_task_group.start: the monitor runs until it calls started.
StartMonitor(id) ==
  /\ Submission(id, "starting", "waiting")
  /\ Monitor(id, "idle", "submitting")
  /\ UNCHANGED <<state, answer, borrowers, error, cancelled>>

RecordInfrastructurePid(id) ==
  /\ Submission(id, "recording", "idle")
  /\ UNCHANGED <<state, answer, monitor, borrowers, error, cancelled>>

\* The monitor has called started with an exception.
GiveUp(id) ==
  /\ Submission(id, "not_started", "idle")
  /\ Release(id)
  /\ UNCHANGED <<state, answer, monitor, cancelled>>

-----------------------------------------------------------------------------
(* _submit_run_and_capture_errors.                                         *)

Started(id) ==
  /\ Monitor(id, "submitting", "running")
  /\ Submission(id, "waiting", "recording")
  /\ UNCHANGED <<state, answer, borrowers, error, cancelled>>

FailToStart(id) ==
  /\ MayFail
  /\ Monitor(id, "submitting", "failed")
  /\ Submission(id, "waiting", "not_started")
  /\ UNCHANGED <<state, answer, borrowers, error, cancelled>>

\* _propose_crashed_state, awaited before the finally clause.
ProposeCrashedState(id) ==
  /\ Monitor(id, "failed", "reported")
  /\ state' = [state EXCEPT ![id] = IF @ = "pending" THEN "ended" ELSE @]
  /\ UNCHANGED <<answer, submission, borrowers, error, cancelled>>

\* The finally clause, when the infrastructure has ended and when it failed.
Finish(id) ==
  /\ Monitor(id, "running", "idle") \/ Monitor(id, "reported", "idle")
  /\ Release(id)
  /\ UNCHANGED <<state, answer, submission, cancelled>>

-----------------------------------------------------------------------------
(* Everybody else, as the worker sees them through the server.             *)

Others(id) ==
  /\ \/ state[id] = "scheduled" /\ state' = [state EXCEPT ![id] = "pending"]
     \/ state[id] = "pending" /\ state' = [state EXCEPT ![id] = "ended"]
     \/ state[id] = "ended" /\ state' = [state EXCEPT ![id] = "scheduled"]
  /\ UNCHANGED <<answer, submission, monitor, borrowers, error, cancelled>>

WorkerNext ==
  \/ GetScheduledFlowRuns \/ SubmitScheduledFlowRuns
  \/ \E id \in Runs :
       \/ ReadDeployment(id) \/ MarkFlowRunAsCancelled(id) \/ ForgetCancelled(id)
       \/ ProposePendingState(id) \/ StartMonitor(id)
       \/ RecordInfrastructurePid(id) \/ GiveUp(id)
       \/ Started(id) \/ FailToStart(id) \/ ProposeCrashedState(id) \/ Finish(id)
       \/ Others(id)

WorkerSpec == WorkerInit /\ [][WorkerNext]_workerVars

-----------------------------------------------------------------------------
(* Properties.                                                             *)

\* No token is lost, whatever the two coroutines of a run do and fail to do:
\* whoever holds one is being submitted or monitored, so that the token comes
\* back (_submit_run, _submit_run_and_capture_errors).  The exception is a run
\* whose deployment was deleted: it keeps its token until the worker stops.
NoSlotLost ==
  error = None =>
    \A id \in borrowers :
      \/ submission[id] \in InSubmission \cup {"cancelling"}
      \/ monitor[id] # "idle"
      \/ id \in cancelled

\* The worker has at most Limit runs in progress, although its tokens do not
\* say which coroutine took them (the --limit of worker start).
LimitHonoured ==
  Cardinality({id \in Runs : monitor[id] \in {"submitting", "running"}}) <= Limit

\* The two coroutines of a run give its token back once between them
\* (_release_limit_slot). It is false, as section 4 of README.md explains, and no run
\* checks it.
NeverReleasedTwice == error # "not holding"

=============================================================================
