-------------------------------- MODULE TaskQueue --------------------------------
(***************************************************************************)
(* Deferred task runs on their way to task workers: the server's queues in *)
(* memory, a subscription per connected worker, which sends one task run   *)
(* at a time and waits for its acknowledgement, and the workers, which     *)
(* acknowledge a run and then wait for a token to execute it.              *)
(***************************************************************************)
EXTENDS Integers, Sequences, FiniteSets

CONSTANTS
  TaskRuns,
  Keys,
  KeyOf,         \* KeyOf[r]: the task key of r
  Workers,
  Subscribed,    \* Subscribed[w]: the keys w subscribes to, in the order they are tried
  Limit,         \* Limit[w]: how many task runs w executes at once, or None
  ScheduledSize, \* the capacity of a key's queue of scheduled runs, 1000 by default
  RetrySize,     \* the capacity of a key's queue of retries, 100 by default
  MaxTroubles,   \* a bound on connections that break, workers that die and restarts
  None

ASSUME TaskQueueAssumption ==
  /\ None \notin TaskRuns /\ KeyOf \in [TaskRuns -> Keys]
  /\ Subscribed \in [Workers -> Seq(Keys)]
  /\ Limit \in [Workers -> (Nat \ {0}) \cup {None}]
  /\ ScheduledSize \in Nat \ {0} /\ RetrySize \in Nat \ {0}
  /\ MaxTroubles \in Nat

VARIABLES
  submission, \* per task run: "none", "putting" while its request waits, "put"
  scheduled,  \* per key, the queue of scheduled task runs
  retry,      \* per key, the queue of task runs to be delivered again
  server,     \* per worker, the server's side of its connection: "down", "waiting" or
              \* "delivering"
  hand,       \* per worker, the task run that its subscription delivers
  wire,       \* per worker, the task run on its way to it
  ack,        \* per worker, whether an acknowledgement is on its way
  stale,      \* per worker, subscriptions that have not noticed that their connection
              \* broke
  orphans,    \* per task run, how often it waits to be put back after a disconnect
  worker,     \* per worker: "listening", "acquiring" a token, or "dead"
  received,   \* per worker, the task run it acquires a token for
  running,    \* per worker and task run, how many executions go on
  started,    \* history: the task runs whose execution has begun
  unsure,     \* history: those put back although a worker had received them
  lost,       \* history: those in the memory of a server or worker that stopped
  troubles

queues == <<scheduled, retry>>
connection == <<server, hand, wire, ack>>
execution == <<worker, received, running, started>>
vars ==
  <<submission, scheduled, retry, server, hand, wire, ack, stale, orphans, worker,
    received, running, started, unsure, lost, troubles>>

Init ==
  /\ submission = [r \in TaskRuns |-> "none"]
  /\ scheduled = [k \in Keys |-> <<>>] /\ retry = [k \in Keys |-> <<>>]
  /\ server = [w \in Workers |-> "down"]
  /\ hand = [w \in Workers |-> None]
  /\ wire = [w \in Workers |-> None] /\ ack = [w \in Workers |-> FALSE]
  /\ stale = [w \in Workers |-> 0]
  /\ orphans = [r \in TaskRuns |-> 0]
  /\ worker = [w \in Workers |-> "listening"]
  /\ received = [w \in Workers |-> None]
  /\ running = [w \in Workers |-> [r \in TaskRuns |-> 0]]
  /\ started = {} /\ unsure = {} /\ lost = {}
  /\ troubles = 0

-----------------------------------------------------------------------------
(* Requests that schedule a task run: EnqueueScheduledTasks.               *)

Submit(r) ==
  /\ submission[r] = "none"
  /\ submission' = [submission EXCEPT ![r] = "putting"]
  /\ UNCHANGED <<queues, connection, stale, orphans, execution, unsure, lost, troubles>>

\* The request waits for as long as the queue is full.
Put(r) ==
  /\ submission[r] = "putting"
  /\ Len(scheduled[KeyOf[r]]) < ScheduledSize
  /\ submission' = [submission EXCEPT ![r] = "put"]
  /\ scheduled' = [scheduled EXCEPT ![KeyOf[r]] = Append(@, r)]
  /\ UNCHANGED <<retry, connection, stale, orphans, execution, unsure, lost, troubles>>

-----------------------------------------------------------------------------
(* scheduled_task_subscription, one per connection.                        *)

\* A new connection starts a subscription, whatever has become of the last one.
Subscribe(w) ==
  /\ server[w] = "down" /\ worker[w] = "listening"
  /\ server' = [server EXCEPT ![w] = "waiting"]
  /\ UNCHANGED <<submission, queues, hand, wire, ack, stale, orphans, execution, unsure,
                 lost, troubles>>

Waiting(k) == retry[k] \o scheduled[k]

\* A variant that waits for the first key alone, for TasksBegin.
GetNowaitMutant(w, r) ==
  LET k == Subscribed[w][1]
  IN  /\ Waiting(k) # <<>> /\ r = Head(Waiting(k))
      /\ IF retry[k] # <<>>
           THEN retry' = [retry EXCEPT ![k] = Tail(@)] /\ UNCHANGED scheduled
           ELSE scheduled' = [scheduled EXCEPT ![k] = Tail(@)] /\ UNCHANGED retry

\* MultiQueue.get tries the keys in their order, and TaskQueue.get_nowait a key's
\* retries before its scheduled runs.
GetNowait(w, r) ==
  \E i \in DOMAIN Subscribed[w] :
    LET k == Subscribed[w][i]
    IN  /\ \A j \in 1..(i - 1) : Waiting(Subscribed[w][j]) = <<>>
        /\ Waiting(k) # <<>> /\ r = Head(Waiting(k))
        /\ IF retry[k] # <<>>
             THEN retry' = [retry EXCEPT ![k] = Tail(@)] /\ UNCHANGED scheduled
             ELSE scheduled' = [scheduled EXCEPT ![k] = Tail(@)] /\ UNCHANGED retry

Deliver(w) ==
  /\ server[w] = "waiting"
  /\ \E r \in TaskRuns : /\ GetNowait(w, r)
                         /\ hand' = [hand EXCEPT ![w] = r]
                         /\ wire' = [wire EXCEPT ![w] = r]
  /\ server' = [server EXCEPT ![w] = "delivering"]
  /\ UNCHANGED <<submission, ack, stale, orphans, execution, unsure, lost, troubles>>

Acknowledged(w) ==
  /\ server[w] = "delivering" /\ ack[w]
  /\ server' = [server EXCEPT ![w] = "waiting"]
  /\ hand' = [hand EXCEPT ![w] = None]
  /\ ack' = [ack EXCEPT ![w] = FALSE]
  /\ UNCHANGED <<submission, queues, wire, stale, orphans, execution, unsure, lost,
                 troubles>>

\* A subscription whose connection broke while it waited takes one more task run, and
\* puts it back when it cannot send it; or it notices in time.
DeliverStale(w) ==
  /\ stale[w] > 0
  /\ stale' = [stale EXCEPT ![w] = @ - 1]
  /\ \/ \E r \in TaskRuns : /\ GetNowait(w, r)
                            /\ orphans' = [orphans EXCEPT ![r] = @ + 1]
     \/ UNCHANGED <<queues, orphans>>
  /\ UNCHANGED <<submission, connection, execution, unsure, lost, troubles>>

\* The retry queue has a capacity too.
PutBack(r) ==
  /\ orphans[r] > 0 /\ Len(retry[KeyOf[r]]) < RetrySize
  /\ orphans' = [orphans EXCEPT ![r] = @ - 1]
  /\ retry' = [retry EXCEPT ![KeyOf[r]] = Append(@, r)]
  /\ UNCHANGED <<submission, scheduled, connection, stale, execution, unsure, lost,
                 troubles>>

-----------------------------------------------------------------------------
(* The task worker.                                                        *)

\* Subscription.__anext__ acknowledges what it has received at once.
Receive(w) ==
  /\ worker[w] = "listening" /\ wire[w] # None
  /\ worker' = [worker EXCEPT ![w] = "acquiring"]
  /\ received' = [received EXCEPT ![w] = wire[w]]
  /\ wire' = [wire EXCEPT ![w] = None]
  /\ ack' = [ack EXCEPT ![w] = TRUE]
  /\ UNCHANGED <<submission, queues, server, hand, stale, orphans, running, started,
                 unsure, lost, troubles>>

\* The token of a task run that is executed is taken: the limiter raises.
Refused(w, r) == Limit[w] # None /\ running[w][r] > 0

Listen(w) ==
  /\ worker' = [worker EXCEPT ![w] = "listening"]
  /\ received' = [received EXCEPT ![w] = None]

Executing(w) == {r \in TaskRuns : running[w][r] > 0}

\* A variant that takes tokens on behalf of nobody, for OneExecutionAtATime.
AcquireTokenMutant(w) ==
  /\ worker[w] = "acquiring"
  /\ Limit[w] # None => Cardinality(Executing(w)) < Limit[w]
  /\ running' = [running EXCEPT ![w][received[w]] = @ + 1]
  /\ started' = started \cup {received[w]}
  /\ Listen(w)
  /\ UNCHANGED <<submission, queues, connection, stale, orphans, unsure, lost, troubles>>

\* _acquire_token, on behalf of the task run.  The loop receives nothing while it waits.
AcquireToken(w) ==
  /\ worker[w] = "acquiring"
  /\ LET r == received[w]
     IN  IF Refused(w, r)
           THEN UNCHANGED <<running, started>>
           ELSE /\ Limit[w] # None => Cardinality(Executing(w)) < Limit[w]
                /\ running' = [running EXCEPT ![w][r] = @ + 1]
                /\ started' = started \cup {r}
  /\ Listen(w)
  /\ UNCHANGED <<submission, queues, connection, stale, orphans, unsure, lost, troubles>>

\* The execution ends, or could not begin for want of the task or its parameters.
Finish(w, r) ==
  /\ running[w][r] > 0
  /\ running' = [running EXCEPT ![w][r] = @ - 1]
  /\ UNCHANGED <<submission, queues, connection, stale, orphans, worker, received,
                 started, unsure, lost, troubles>>

-----------------------------------------------------------------------------
(* What goes wrong.                                                        *)

Trouble == troubles < MaxTroubles /\ troubles' = troubles + 1

\* A variant that does not put back what was not acknowledged, for TasksKept.
DisconnectMutant(w) ==
  /\ server[w] # "down"
  /\ server' = [server EXCEPT ![w] = "down"]
  /\ hand' = [hand EXCEPT ![w] = None]
  /\ wire' = [wire EXCEPT ![w] = None]
  /\ ack' = [ack EXCEPT ![w] = FALSE]
  /\ UNCHANGED <<unsure, stale, orphans>>

\* Messages on the wire are lost.  What was not acknowledged is put back, received or
\* not.
Disconnect(w) ==
  /\ server[w] # "down"
  /\ server' = [server EXCEPT ![w] = "down"]
  /\ hand' = [hand EXCEPT ![w] = None]
  /\ wire' = [wire EXCEPT ![w] = None]
  /\ ack' = [ack EXCEPT ![w] = FALSE]
  /\ IF server[w] = "waiting"
       THEN stale' = [stale EXCEPT ![w] = @ + 1] /\ UNCHANGED <<orphans, unsure>>
       ELSE /\ orphans' = [orphans EXCEPT ![hand[w]] = @ + 1]
            /\ unsure' = unsure \cup (IF ack[w] THEN {hand[w]} ELSE {})
            /\ UNCHANGED stale

Break(w) ==
  /\ Trouble /\ Disconnect(w)
  /\ UNCHANGED <<submission, queues, execution, lost>>

\* A worker's process dies with what it executes, and with what it has acknowledged.
Die(w) ==
  /\ Trouble /\ worker[w] # "dead"
  /\ worker' = [worker EXCEPT ![w] = "dead"]
  /\ received' = [received EXCEPT ![w] = None]
  /\ running' = [running EXCEPT ![w] = [r \in TaskRuns |-> 0]]
  /\ lost' = lost \cup ({received[w]} \ {None})
  /\ IF server[w] # "down" THEN Disconnect(w)
                           ELSE UNCHANGED <<connection, stale, orphans, unsure>>
  /\ UNCHANGED <<submission, queues, started>>

Elements(q) == {q[i] : i \in DOMAIN q}
InQueues == UNION {Elements(Waiting(k)) : k \in Keys}
InHands == {hand[w] : w \in Workers} \ {None}
Orphaned == {r \in TaskRuns : orphans[r] > 0}

\* The server starts with empty queues; nothing puts scheduled task runs back in them.
\* Requests that were waiting are answered with an error.
Restart ==
  /\ Trouble
  /\ submission' = [r \in TaskRuns |-> IF submission[r] = "putting" THEN "put"
                                                                 ELSE submission[r]]
  /\ scheduled' = [k \in Keys |-> <<>>] /\ retry' = [k \in Keys |-> <<>>]
  /\ server' = [w \in Workers |-> "down"]
  /\ hand' = [w \in Workers |-> None]
  /\ wire' = [w \in Workers |-> None] /\ ack' = [w \in Workers |-> FALSE]
  /\ stale' = [w \in Workers |-> 0]
  /\ orphans' = [r \in TaskRuns |-> 0]
  /\ lost' = lost \cup InQueues \cup InHands \cup Orphaned
               \cup {r \in TaskRuns : submission[r] = "putting"}
  /\ UNCHANGED <<execution, unsure>>

-----------------------------------------------------------------------------

ServerStep(w) == Deliver(w) \/ Acknowledged(w) \/ DeliverStale(w)
WorkerStep(w) == Subscribe(w) \/ Receive(w) \/ AcquireToken(w)

Next ==
  \/ \E r \in TaskRuns : Submit(r) \/ Put(r) \/ PutBack(r)
  \/ \E w \in Workers : \/ ServerStep(w) \/ WorkerStep(w) \/ Break(w) \/ Die(w)
                        \/ \E r \in TaskRuns : Finish(w, r)
  \/ Restart

Spec == Init /\ [][Next]_vars

\* The server's coroutines are scheduled, a worker that is alive goes on, and its
\* executions end.
FairSpec ==
  /\ Spec
  /\ \A r \in TaskRuns : WF_vars(Put(r)) /\ WF_vars(PutBack(r))
  /\ \A w \in Workers :
       /\ WF_vars(ServerStep(w)) /\ WF_vars(WorkerStep(w))
       /\ \A r \in TaskRuns : WF_vars(Finish(w, r))

-----------------------------------------------------------------------------
(* Properties.                                                             *)

\* The types of the variables; TaskQueueProofs proves them for every instance.
TypeOK ==
  /\ submission \in [TaskRuns -> {"none", "putting", "put"}]
  /\ \A k \in Keys : /\ scheduled[k] \in Seq(TaskRuns) /\ Len(scheduled[k]) <= ScheduledSize
                     /\ retry[k] \in Seq(TaskRuns) /\ Len(retry[k]) <= RetrySize
  /\ server \in [Workers -> {"down", "waiting", "delivering"}]
  /\ \A w \in Workers : (hand[w] # None) <=> (server[w] = "delivering")
  /\ wire \in [Workers -> TaskRuns \cup {None}] /\ ack \in [Workers -> BOOLEAN]
  /\ stale \in [Workers -> Nat] /\ orphans \in [TaskRuns -> Nat]
  /\ worker \in [Workers -> {"listening", "acquiring", "dead"}]
  /\ \A w \in Workers : (received[w] # None) <=> (worker[w] = "acquiring")
  /\ running \in [Workers -> [TaskRuns -> Nat]]
  /\ started \subseteq TaskRuns /\ unsure \subseteq TaskRuns /\ lost \subseteq TaskRuns

\* A task run that was scheduled waits in a queue, is in the hands of a subscription or
\* of a worker, or has begun, but for what a server or worker that stopped had in memory
\* (scheduled_task_subscription, Subscription.__anext__).
TasksKept ==
  \A r \in TaskRuns : submission[r] = "put" =>
    \/ r \in started \cup lost
    \/ r \in InQueues \cup InHands \cup Orphaned
    \/ \E w \in Workers : received[w] = r

\* However often a task run is delivered, a worker with a limit never executes it twice
\* at once (_acquire_token, _release_token); and two workers have it at once only if an
\* acknowledgement got lost, so that it was put back though the first had received it.
OneExecutionAtATime ==
  \A r \in TaskRuns :
    /\ \A w \in Workers : Limit[w] # None => running[w][r] <= 1
    /\ \A v, w \in Workers :
         /\ v # w
         /\ running[v][r] > 0 \/ received[v] = r
         /\ running[w][r] > 0 \/ received[w] = r
         => r \in unsure

\* Every task run that is scheduled begins, as long as a worker for its key is alive and
\* nobody lost it: neither full queues nor busy workers stop it for ever.
TasksBegin ==
  \A r \in TaskRuns :
    submission[r] = "putting"
      ~> \/ r \in started \cup lost
         \/ \A w \in Workers :
              KeyOf[r] \in Elements(Subscribed[w]) => worker[w] = "dead"

=============================================================================
