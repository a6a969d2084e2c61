---------------------------- MODULE FlowRunLifecycle ----------------------------
(***************************************************************************)
(* The server of FlowRunOrchestration in the company it really keeps:      *)
(* workers that poll for scheduled runs and submit them, a runner per      *)
(* submission that watches its process for cancellation and reports its    *)
(* exit, the flow engine in that process, users, and the server's          *)
(* services.  A client here proposes only what its code proposes, and      *)
(* follows the answer the way its code does.                               *)
(***************************************************************************)
EXTENDS FlowRunOrchestration

CONSTANTS
  Workers,
  Attempts,       \* bound: the submissions of one run alive at the same time
  Worlds          \* the worlds that the server may find itself in, see World

\* The runs that are created, the workers there are, what flows do besides completing,
\* what users ask for, the timeouts of pauses ("future", or None for no timeout), and
\* whether the answer to a request may be lost.
World ==
  [runs : SUBSET Runs, workers : SUBSET Workers,
   behaviours : SUBSET {"fail", "timeout", "pause", "suspend", "crash"},
   requests : SUBSET {"cancel", "resume", "rerun", "suspend"},
   timeouts : SUBSET {None, "future"}, may_lose : BOOLEAN]

ASSUME LifecycleAssumption ==
  /\ Worlds \subseteq World
  /\ Workers \cap Attempts = {}
  /\ Retries # None => Retries < MaxRunCount

VARIABLES
  world,    \* one of Worlds, for good
  listed,   \* the runs each worker was told of and has not dealt with
  process,  \* where the process of each submission of each run is
  watcher,  \* where its runner is
  lost      \* the request about a run whose answer was lost, if any

lifecycleVars == <<world, runs, limit, retried, listed, process, watcher, lost>>
clientVars == <<world, listed, process, watcher, lost>>

\* In its process map the runner has the processes it started and has not reaped.
Alive == {"starting", "running", "timed_out", "awaiting_retry", "polling"}
Mapped == Alive \cup {"sigterm", "exited", "failed"}

LifecycleInit ==
  /\ Init
  /\ world \in Worlds
  /\ listed = [w \in Workers |-> {}]
  /\ process = [id \in Runs |-> [n \in Attempts |-> "unused"]]
  /\ watcher = [id \in Runs |-> [n \in Attempts |-> "watching"]]
  /\ lost = [id \in Runs |-> None]

-----------------------------------------------------------------------------
(* Requests and their answers.                                             *)

\* The answer a client sees; a rejection without a state shows the current one.
Answer(id, p, policy) ==
  LET v == Verdict(policy, runs[id], p, limit)
  IN  [status |-> v.status,
       type   |-> IF v.state = NoState THEN TypeOf(runs[id]) ELSE v.state.type]

\* propose_state and its callers in the flow engine and in pause_flow_run:
\* where a process goes on an answer.  Abort and Pause exit with code 0; any
\* other state that is not RUNNING ends the loop, and result() then raises.
GoesOn(pc, p, a) ==
  CASE a.status = "WAIT" -> pc
    [] a.status = "ABORT" -> IF p.type = "PAUSED" THEN pc ELSE "exited"
    [] a.status = "REJECT" /\ a.type = "PAUSED" -> "exited"
    [] p.type = "PAUSED" /\ a.status = "ACCEPT" ->
         IF p.pause_reschedule THEN "exited" ELSE "polling"
    [] p.type = "PAUSED" /\ a.status = "REJECT" /\ a.type # "PAUSED" -> pc
    [] a.type = "RUNNING" -> "running"
    [] a.type = "PENDING" /\ pc = "starting" -> "starting"
    [] p.type = "COMPLETED" \/ (a.type = "COMPLETED" /\ pc = "starting") -> "exited"
    [] a.type = "SCHEDULED" /\ p.type = "FAILED" /\ pc = "running" -> "awaiting_retry"
    [] OTHER -> "failed"

\* A worker submits the run if it is PENDING now, whoever made it so.
Submits(a) == a.status # "ABORT" /\ a.type = "PENDING"

FreeAttempts(id) == {n \in Attempts : process[id][n] = "unused"}

\* What the answer does to the client that asked.
Deliver(id, sender, p, a) ==
  IF sender \in Workers
    THEN IF Submits(a)
           THEN \E n \in FreeAttempts(id) :
                  /\ \A m \in FreeAttempts(id) : n <= m
                  /\ process' = [process EXCEPT ![id][n] = "submitted"]
           ELSE UNCHANGED process
    ELSE process' = [process EXCEPT ![id][sender] = GoesOn(@, p, a)]

\* A request is answered, or its answer is lost and the client resends it
\* later with the transition id it had; other requests get ids of their own.
\* A request that changed nothing and is sent again is one that is sent later.
Request(id, sender, p) ==
  /\ lost[id] = None
  /\ \/ /\ SetFlowRunState(id, p, "core")
        /\ \E a \in {Answer(id, p, "core")} : Deliver(id, sender, p, a)
        /\ UNCHANGED lost
     \/ \E t \in TransitionIds :
          LET q == [p EXCEPT !.transition_id = t]
          IN  /\ world.may_lose /\ runs[id].state.transition_id # t
              /\ SetFlowRunState(id, q, "core") /\ ~UNCHANGED <<runs, limit>>
              /\ lost' = [lost EXCEPT ![id] = [sender |-> sender, state |-> q]]
              /\ UNCHANGED process

\* PrefectHttpxSyncClient resends the same request after an error.
Resend(id) ==
  /\ lost[id] # None
  /\ LET q == lost[id].state
     IN  /\ SetFlowRunState(id, q, "core")
         /\ \E a \in {Answer(id, q, "core")} : Deliver(id, lost[id].sender, q, a)
  /\ lost' = [lost EXCEPT ![id] = None]
  /\ UNCHANGED <<world, listed, watcher>>

-----------------------------------------------------------------------------
(* Workers.                                                                *)

\* The query of the workers: what is scheduled, unless it is to be retried by
\* the process it has.
Pollable(time) ==
  {id \in Rows : /\ TypeOf(runs[id]) = "SCHEDULED"
                 /\ runs[id].deployment
                 /\ runs[id].retry_type # "in_process"
                 /\ runs[id].state.scheduled_time = time}

\* Runs that are due, and some that are due before the prefetch time.
Poll(w) ==
  /\ w \in world.workers
  /\ \E soon \in SUBSET Pollable("future") :
       listed' = [listed EXCEPT ![w] = @ \cup Pollable("past") \cup soon]
  /\ UNCHANGED <<world, runs, limit, retried, process, watcher, lost>>

\* _submit_run: PENDING is proposed for a run of the list, however old that is.
ProposePending(w, id) ==
  /\ id \in listed[w] /\ FreeAttempts(id) # {}
  /\ Request(id, w, Plain("PENDING"))
  /\ listed' = [listed EXCEPT ![w] = @ \ {id}]
  /\ UNCHANGED <<world, watcher>>

\* The infrastructure starts the process of the run, or fails to.
StartProcess(id, n) ==
  /\ process[id][n] = "submitted"
  /\ \E pc \in {"starting"} \cup
               (IF "crash" \in world.behaviours THEN {"reporting"} ELSE {}) :
       process' = [process EXCEPT ![id][n] = pc]
  /\ UNCHANGED <<world, runs, limit, retried, listed, watcher, lost>>

\* update_flow_run, once the infrastructure has started.
RecordInfrastructure(id) ==
  /\ \E n \in Attempts : process[id][n] \in Mapped
  /\ ~runs[id].infrastructure_pid
  /\ UpdateInfrastructurePid(id)
  /\ UNCHANGED clientVars

-----------------------------------------------------------------------------
(* The process of a run.                                                   *)

\* One request of the process, made where its code makes it.
ProcessRequest(id, n, pcs, p) ==
  /\ process[id][n] \in pcs
  /\ Request(id, n, p)
  /\ UNCHANGED <<world, listed, watcher>>

\* A variant whose process does not come back from a retry, for
\* GrantedRetriesHappen.
ProposeRunningMutant(id, n) ==
  ProcessRequest(id, n, {"starting"}, Plain("RUNNING"))

\* begin_run, and the retry at the end of handle_exception.
ProposeRunning(id, n) ==
  ProcessRequest(id, n, {"starting", "awaiting_retry"}, Plain("RUNNING"))

\* handle_success
Succeed(id, n) == ProcessRequest(id, n, {"running"}, Plain("COMPLETED"))

\* handle_exception
Fail(id, n) ==
  /\ "fail" \in world.behaviours
  /\ ProcessRequest(id, n, {"running"}, Plain("FAILED"))

\* handle_timeout, which ignores the answer: two steps, to tell the answers apart.
TimeOut(id, n) ==
  /\ "timeout" \in world.behaviours /\ lost[id] = None
  /\ process[id][n] = "running"
  /\ process' = [process EXCEPT ![id][n] = "timed_out"]
  /\ UNCHANGED <<world, runs, limit, retried, listed, watcher, lost>>

ProposeTimedOut(id, n) ==
  ProcessRequest(id, n, {"timed_out"}, Plain("FAILED"))

\* pause_flow_run and suspend_flow_run, called by the flow.
Pause(id, n) ==
  \E k \in Keys, t \in world.timeouts, reschedule \in BOOLEAN :
    /\ (IF reschedule THEN "suspend" ELSE "pause") \in world.behaviours
    /\ ProcessRequest(id, n, {"running"}, Paused(k, t, reschedule))

\* The loop of _in_process_pause: it ends when the run is RUNNING again, or at
\* the timeout of the pause; then the flow has an exception to handle.
PollPause(id, n) ==
  /\ process[id][n] = "polling" /\ lost[id] = None
  /\ \/ TypeOf(runs[id]) = "RUNNING"
     \/ "future" \in world.timeouts
        /\ (TypeOf(runs[id]) = "PAUSED" => runs[id].state.pause_timeout = "past")
  /\ process' = [process EXCEPT ![id][n] = "running"]
  /\ UNCHANGED <<world, runs, limit, retried, listed, watcher, lost>>

\* The process dies without a word.
Crash(id, n) ==
  /\ "crash" \in world.behaviours /\ lost[id] = None
  /\ process[id][n] \in Alive
  /\ process' = [process EXCEPT ![id][n] = "failed"]
  /\ UNCHANGED <<world, runs, limit, retried, listed, watcher, lost>>

\* On SIGTERM the engine forces CRASHED (handle_crash), if it is given the time.
Terminate(id, n) ==
  /\ process[id][n] = "sigterm"
  /\ process' = [process EXCEPT ![id][n] = "failed"]
  /\ \/ SetFlowRunState(id, Plain("CRASHED"), "minimal")
     \/ UNCHANGED <<runs, limit, retried>>
  /\ UNCHANGED <<world, listed, watcher, lost>>

Step(id, n) ==
  \/ StartProcess(id, n) \/ ProposeRunning(id, n) \/ Succeed(id, n)
  \/ Fail(id, n) \/ TimeOut(id, n) \/ ProposeTimedOut(id, n) \/ Pause(id, n)
  \/ PollPause(id, n) \/ Terminate(id, n)

-----------------------------------------------------------------------------
(* Its runner.                                                             *)

\* _check_for_cancelled_flow_runs looks up the runs of its process map only,
\* and _cancel_run kills what it finds; a process that is gone is no obstacle.
DetectCancelling(id, n) ==
  /\ process[id][n] \in Mapped /\ watcher[id][n] = "watching"
  /\ TypeOf(runs[id]) = "CANCELLING"
  /\ watcher' = [watcher EXCEPT ![id][n] = "cancelling"]
  /\ process' = [process EXCEPT ![id][n] = IF @ \in Alive THEN "sigterm" ELSE @]
  /\ lost' = [lost EXCEPT ![id] =
                IF lost[id] # None /\ lost[id].sender = n THEN None ELSE @]
  /\ UNCHANGED <<world, runs, limit, retried, listed>>

\* A variant whose runner takes every exit for a success, for RunningHasProcess.
ReapMutant(id, n) ==
  /\ process[id][n] \in {"exited", "failed"}
  /\ process' = [process EXCEPT ![id][n] = "reaped"]
  /\ UNCHANGED <<world, runs, limit, retried, listed, watcher, lost>>

\* _submit_run_and_capture_errors: the process leaves the map, then an exit
\* code other than 0 is reported.
Reap(id, n) ==
  /\ process[id][n] \in {"exited", "failed"}
  /\ process' = [process EXCEPT ![id][n] =
                   IF @ = "failed" THEN "reporting" ELSE "reaped"]
  /\ UNCHANGED <<world, runs, limit, retried, listed, watcher, lost>>

ReportCrashed(id, n) ==
  /\ process[id][n] = "reporting"
  /\ SetFlowRunState(id, Plain("CRASHED"), "core")
  /\ process' = [process EXCEPT ![id][n] = "reaped"]
  /\ UNCHANGED <<world, listed, watcher, lost>>

\* _mark_flow_run_as_cancelled, forced, once the process is dead.
MarkCancelled(id, n) ==
  /\ watcher[id][n] = "cancelling" /\ process[id][n] \notin Alive \cup {"sigterm"}
  /\ SetFlowRunState(id, Plain("CANCELLED"), "minimal")
  /\ watcher' = [watcher EXCEPT ![id][n] = "done"]
  /\ UNCHANGED <<world, listed, process, lost>>

\* The submission is over; its number is free for another.
Retire(id, n) ==
  /\ process[id][n] = "reaped" /\ watcher[id][n] # "cancelling"
  /\ process' = [process EXCEPT ![id][n] = "unused"]
  /\ watcher' = [watcher EXCEPT ![id][n] = "watching"]
  /\ UNCHANGED <<world, runs, limit, retried, listed, lost>>

-----------------------------------------------------------------------------
(* Users and services.                                                     *)

Create(id) == id \in world.runs /\ CreateFlowRun(id) /\ UNCHANGED clientVars

Cancel(id) ==
  /\ "cancel" \in world.requests
  /\ SetFlowRunState(id, Plain("CANCELLING"), "core")
  /\ UNCHANGED clientVars

Resume(id) ==
  /\ "resume" \in world.requests
  /\ ResumeFlowRun(id)
  /\ UNCHANGED clientVars

\* The UI offers a retry of runs that ended; MaxRunCount bounds them.
Rerun(id) ==
  /\ "rerun" \in world.requests
  /\ id \in Rows /\ TypeOf(runs[id]) \in TERMINAL_STATES
  /\ runs[id].run_count < MaxRunCount
  /\ SetFlowRunState(id, Scheduled("Default", "past"), "core")
  /\ UNCHANGED clientVars

\* suspend_flow_run for another run, with a key of its own.
SuspendOther(id) ==
  /\ "suspend" \in world.requests
  /\ \E k \in Keys, t \in world.timeouts :
       SetFlowRunState(id, Paused(k, t, TRUE), "core")
  /\ UNCHANGED clientVars

Service(id) ==
  /\ FailExpiredPause(id) \/ ClockPasses(id)
  /\ UNCHANGED clientVars

MarkLate(id) == MarkFlowRunAsLate(id) /\ UNCHANGED clientVars

LifecycleNext ==
  \/ \E w \in Workers : Poll(w) \/ \E id \in Runs : ProposePending(w, id)
  \/ \E id \in Runs :
       \/ Create(id) \/ Cancel(id) \/ Resume(id) \/ Rerun(id) \/ SuspendOther(id)
       \/ Service(id) \/ MarkLate(id) \/ RecordInfrastructure(id) \/ Resend(id)
       \/ \E n \in Attempts :
            \/ Step(id, n) \/ Crash(id, n) \/ DetectCancelling(id, n)
            \/ Reap(id, n) \/ ReportCrashed(id, n) \/ MarkCancelled(id, n)
            \/ Retire(id, n)

LifecycleSpec == LifecycleInit /\ [][LifecycleNext]_lifecycleVars

\* Workers keep polling, processes and runners keep running, clients resend,
\* the services' loops come round and time passes.  Users need do nothing.
LifecycleFairness ==
  /\ \A w \in Workers :
       /\ WF_lifecycleVars(Poll(w))
       /\ \A id \in Runs : WF_lifecycleVars(ProposePending(w, id))
  /\ \A id \in Runs :
       /\ WF_lifecycleVars(Service(id))
       /\ WF_lifecycleVars(Resend(id))
       /\ \A n \in Attempts :
            /\ WF_lifecycleVars(Step(id, n))
            /\ WF_lifecycleVars(DetectCancelling(id, n))
            /\ WF_lifecycleVars(Reap(id, n))
            /\ WF_lifecycleVars(ReportCrashed(id, n))
            /\ WF_lifecycleVars(MarkCancelled(id, n))
            /\ WF_lifecycleVars(Retire(id, n))

FairLifecycle == LifecycleSpec /\ LifecycleFairness

-----------------------------------------------------------------------------
(* Properties.                                                             *)

ProcessStates == {"unused", "submitted", "starting", "running", "timed_out",
                  "awaiting_retry", "polling", "sigterm", "exited", "failed",
                  "reporting", "reaped"}

\* Every variable keeps its type.
LifecycleTypeOK ==
  /\ TypeOK
  /\ world \in Worlds
  /\ listed \in [Workers -> SUBSET Rows]
  /\ process \in [Runs -> [Attempts -> ProcessStates]]
  /\ watcher \in [Runs -> [Attempts -> {"watching", "cancelling", "done"}]]
  /\ lost \in [Runs -> [sender : Workers \cup Attempts, state : State] \cup {None}]

\* The worlds in which a run is never taken from a list that is out of date while a
\* process of it may still report; section 4 of README.md has what happens in the
\* others.  There may be any number of workers if runs only suspend themselves or
\* crash and nobody cancels them, or one worker, if no run is started again.
ManyWorkers(w) ==
  w.behaviours \subseteq {"suspend", "crash"} /\ w.requests \subseteq {"resume", "rerun"}
OneWorker(w) ==
  (\A v1, v2 \in w.workers : v1 = v2) /\ w.requests \subseteq {"resume", "cancel"}
Orderly(w) == ~w.may_lose /\ (ManyWorkers(w) \/ OneWorker(w))

In(id, pcs) == {n \in Attempts : process[id][n] \in pcs}

\* However many workers hold the run in their lists, and however old these are, it
\* is submitted once for each time it is scheduled: there are never two submissions
\* that have not yet started to run (PreventPendingTransitions, _submit_run).
SubmittedOnce ==
  \A id \in Runs : Cardinality(In(id, {"submitted", "starting"})) <= 1

\* A run is executed by one process at a time, through retries, suspensions,
\* crashes and reruns.
ExecutedOnce ==
  \A id \in Runs :
    Cardinality(In(id, {"running", "timed_out", "awaiting_retry", "polling"})) <= 1

\* A run that is RUNNING is somebody's: a process executes it, or its runner is
\* about to report how it ended.  Otherwise it stays RUNNING for good.
RunningHasProcess ==
  \A id \in Rows : TypeOf(runs[id]) = "RUNNING" => In(id, Mapped \cup {"reporting"}) # {}

\* Where no run is retried or paused in its process, and nobody cancels, the limit is a
\* pool of slots held by the runs in PENDING, RUNNING or CANCELLING, and is never
\* exceeded (SecureFlowConcurrencySlots).
Pooled ==
  {id \in Holders : "pause" \notin world.behaviours /\ "cancel" \notin world.requests}
Pool == INSTANCE SlotPool WITH held <- Pooled, Capacity <- CHOOSE n \in Limits : TRUE
SlotPoolKept == Pool!Spec

\* The deployment never has more runs in progress than its limit
\* (SecureFlowConcurrencySlots). It is false, as section 4 of README.md explains, and no
\* run checks it.
LimitRespected == limit.limit # None => Cardinality(Holders) <= limit.limit

StateIn(id, types) == id \in Rows /\ TypeOf(runs[id]) \in types

StateNamed(id, name) == id \in Rows /\ runs[id].state.name = name

\* Every scheduled run ends, or is paused until a user resumes it: none waits
\* for a slot, for a worker or for its retry for ever.
ScheduledRunsEnd ==
  \A id \in Runs :
    StateIn(id, {"SCHEDULED"}) ~> StateIn(id, TERMINAL_STATES \cup {"PAUSED"})

\* A run that was suspended and resumed is started again.
ResumedRunsStart ==
  \A id \in Runs : StateNamed(id, "Resuming") ~> ~StateIn(id, {"SCHEDULED"})

\* A retry that was granted takes place, unless the run is cancelled first.
GrantedRetriesHappen ==
  \A id \in Runs :
    StateNamed(id, "AwaitingRetry")
      ~> StateIn(id, {"RUNNING", "CANCELLING", "CANCELLED"})

\* A cancellation that was accepted is carried out. It is false as well.
CancellationsComplete ==
  \A id \in Runs :
    StateIn(id, {"CANCELLING"}) ~> StateIn(id, {"CANCELLED"})

=============================================================================
