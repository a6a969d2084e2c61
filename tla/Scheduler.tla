------------------------------- MODULE Scheduler -------------------------------
(***************************************************************************)
(* The two schedulers of the server, which read deployments page by page   *)
(* and insert the runs of their schedules in batches, while users change   *)
(* deployments and schedules and workers start runs.  Times are numbers;   *)
(* between two of them the main scheduler begins and ends a round.         *)
(***************************************************************************)
EXTENDS Integers, Sequences, FiniteSets, FiniteSetsExt

CONSTANTS
  Deployments,       \* ids, which are numbers since the queries order by them
  Intervals,         \* schedules that users make: a date every so many ticks, 0 for one
                     \* that raises when its dates are generated
  MinRuns, MaxRuns, MinScheduledTime, MaxScheduledTime,
  DeploymentBatchSize, InsertBatchSize,
  Prefetch,          \* how long before its date a worker may start a run
  MaxTime,           \* a bound of time
  MaxEdits,          \* a bound of the changes that users make
  Worlds,            \* who acts and which changes there are, see World
  None

Schedulers == {"main", "recent"}
Edits ==
  {"create", "update", "replace", "delete", "pause", "resume", "add schedule",
   "patch schedule", "delete schedule"}

\* The deployments there are from the beginning with the interval of their schedule, the
\* schedulers, what users do, how often, with which intervals, and whether schedulers
\* fail, workers poll and runs are started.
World ==
  [deployments : [Deployments -> Intervals \cup {None}], schedulers : SUBSET Schedulers,
   edits : SUBSET Edits, most : 0 .. MaxEdits, intervals : SUBSET Intervals,
   fails : BOOLEAN, polls : BOOLEAN, starts : BOOLEAN]

ASSUME SchedulerAssumption ==
  /\ Deployments \subseteq Nat /\ IsFiniteSet(Deployments) /\ Intervals \subseteq Nat /\ None \notin Nat
  /\ MinRuns \in Nat /\ MaxRuns \in Nat \ {0}
  /\ MinScheduledTime \in Nat /\ MaxScheduledTime \in Nat
  /\ DeploymentBatchSize \in Nat \ {0} /\ InsertBatchSize \in Nat \ {0}
  /\ Prefetch \in Nat /\ MaxTime \in Nat /\ MaxEdits \in Nat
  /\ Worlds \subseteq World

VARIABLES
  world,      \* one of Worlds, for good
  now,
  deployment, \* per deployment: "absent", "active", "paused" or "deleted"
  schedule,   \* the rows of schedules in the order they were made, None once deleted
  runs,       \* the rows of flow runs that were scheduled automatically
  recent,     \* the deployments whose column updated is recent
  pausing,    \* the deployments whose request to pause has committed the first of its
              \* two transactions
  pc,         \* per scheduler: "idle", "selecting", "reading", "generating", "inserting"
  cursor,     \* per scheduler: last_id
  page,       \* per scheduler: the set of deployment_ids, which are read in their order
  unread,     \* per scheduler: those of page still to be read
  row,        \* per scheduler: the deployment it is reading, see ReadDeployment
  collected,  \* per scheduler: the set of runs_to_insert, see Before for their order
  prompt,     \* the schedulers whose round began at this time
  covered,    \* the main scheduler has begun and ended a round at this time
  edits,      \* how many changes users have made
  version,    \* history: per deployment, how often its scheduled runs were deleted
  unchanged,  \* history: the deployments that were neither changed nor skipped since the
              \* main scheduler's round began
  settled,    \* history: the deployments that it has begun and ended a round for since
              \* they were changed or skipped
  overtaken,  \* history: the deployments with runs that were collected before, and inserted
              \* after their scheduled runs were deleted, or inserted while they were paused
  begun       \* history: the keys of the runs that workers have started

users == <<deployment, schedule, recent, pausing, edits, version>>
rounds == <<pc, cursor, page, unread, row, collected, prompt, covered>>
history == <<unchanged, settled, overtaken>>
vars == <<world, now, users, rounds, runs, history, begun>>

Existing == {d \in Deployments : deployment[d] \in {"active", "paused"}}
Made == {i \in DOMAIN schedule : schedule[i] # None}
SchedulesOf(d) == {i \in Made : schedule[i].deployment = d}
ActiveSchedules(d) == {i \in SchedulesOf(d) : schedule[i].active}

Row(d, interval) == [deployment |-> d, interval |-> interval, active |-> TRUE]

Key(r) == <<r.deployment, r.schedule, r.date>>

Init ==
  /\ world \in Worlds
  /\ now = 0
  /\ deployment =
       [d \in Deployments |-> IF world.deployments[d] = None THEN "absent" ELSE "active"]
  /\ \E order \in [1 .. Cardinality(Existing) -> Existing] :
       /\ \A i, j \in DOMAIN order : i < j => order[i] < order[j]
       /\ schedule = [i \in DOMAIN order |-> Row(order[i], world.deployments[order[i]])]
  /\ runs = {} /\ recent = {} /\ pausing = {}
  /\ pc = [k \in Schedulers |-> "idle"]
  /\ cursor = [k \in Schedulers |-> None]
  /\ page = [k \in Schedulers |-> {}] /\ unread = [k \in Schedulers |-> {}]
  /\ row = [k \in Schedulers |-> None]
  /\ collected = [k \in Schedulers |-> {}]
  /\ prompt = {} /\ covered = FALSE /\ edits = 0
  /\ version = [d \in Deployments |-> 0]
  /\ unchanged = {} /\ settled = {} /\ overtaken = {} /\ begun = {}
--------------------------------------------------------------------------------
(* The dates of a schedule.                                                *)

Dates(interval, start) ==
  {t \in start .. start + MaxScheduledTime : t % interval = 0}

\* Generation stops with the first date that satisfies both minimums.
Enough(dates, t, start) ==
  /\ Cardinality({u \in dates : u <= t}) >= MinRuns
  /\ t >= start + MinScheduledTime

\* A variant that goes one date too far, for FewestRuns.
WantedMutant(interval, start) ==
  LET dates == Dates(interval, start) IN
  {t \in dates : /\ Cardinality({u \in dates : u <= t}) <= MaxRuns
                 /\ ~\E u \in dates : u + 1 < t /\ Enough(dates, u, start)}

Wanted(interval, start) ==
  LET dates == Dates(interval, start) IN
  {t \in dates : /\ Cardinality({u \in dates : u <= t}) <= MaxRuns
                 /\ ~\E u \in dates : u < t /\ Enough(dates, u, start)}

\* The runs of deployment r.deployment, as it was read at r.start. A schedule that raises
\* leaves the whole deployment without any.
Generated(r) ==
  LET of(i) == {[deployment |-> r.deployment, schedule |-> i, date |-> t,
                 version |-> r.version, left |-> FALSE] :
                  t \in Wanted(schedule[i].interval, r.start)} IN
  IF \E i \in ActiveSchedules(r.deployment) : schedule[i].interval = 0 THEN {}
  ELSE UNION {of(i) : i \in ActiveSchedules(r.deployment)}
--------------------------------------------------------------------------------
(* A round of a scheduler.                                                 *)

Future(d) == {r \in runs : r.deployment = d /\ ~r.left /\ r.date >= now}

\* Fewer than min_runs, or not far enough.
Due(d) ==
  \/ Cardinality(Future(d)) < MinRuns
  \/ Future(d) # {} /\ \A r \in Future(d) : r.date < now + MinScheduledTime

Selectable(k) ==
  {d \in Deployments :
     /\ deployment[d] = "active" /\ ActiveSchedules(d) # {}
     /\ IF k = "main" THEN Due(d) ELSE d \in recent}

\* The queries run in one session, but on PostgreSQL each sees what is committed by then.
SelectDeployments(k) ==
  LET found == {d \in Selectable(k) : cursor[k] # None => d > cursor[k]}
      first == {d \in found : Cardinality({e \in found : e <= d}) <= DeploymentBatchSize} IN
  /\ k \in world.schedulers /\ pc[k] \in {"idle", "selecting"}
  /\ page' = [page EXCEPT ![k] = first] /\ unread' = [unread EXCEPT ![k] = first]
  /\ pc' = [pc EXCEPT ![k] = "reading"]
  /\ prompt' = IF pc[k] = "idle" THEN prompt \cup {k} ELSE prompt
  /\ unchanged' = IF pc[k] = "idle" /\ k = "main" THEN Deployments ELSE unchanged
  /\ UNCHANGED <<world, now, users, runs, cursor, row, collected, covered, settled,
                 overtaken, begun>>

\* The row of the deployment; if it is gone there is nothing to generate.
ReadDeployment(k) ==
  /\ pc[k] = "reading" /\ unread[k] # {}
  /\ LET d == Min(unread[k]) IN
     /\ unread' = [unread EXCEPT ![k] = @ \ {d}]
     /\ IF d \in Existing
        THEN /\ row' = [row EXCEPT ![k] =
                          [deployment |-> d, version |-> version[d], start |-> now]]
             /\ pc' = [pc EXCEPT ![k] = "generating"]
        ELSE UNCHANGED <<row, pc>>
  /\ UNCHANGED <<world, now, users, runs, cursor, page, collected, prompt, covered,
                 history, begun>>

ReadSchedules(k) ==
  /\ pc[k] = "generating"
  /\ collected' = [collected EXCEPT ![k] = @ \cup Generated(row[k])]
  /\ row' = [row EXCEPT ![k] = None]
  /\ pc' = [pc EXCEPT ![k] = "reading"]
  /\ UNCHANGED <<world, now, users, runs, cursor, page, unread, prompt, covered, history,
                 begun>>

\* A variant in which the last date of a schedule comes first, for DatesKept.
BeforeMutant(r, o) ==
  \/ r.deployment < o.deployment
  \/ r.deployment = o.deployment /\ r.schedule > o.schedule
  \/ r.deployment = o.deployment /\ r.schedule = o.schedule /\ r.date > o.date

\* Which of two runs comes first in runs_to_insert.
Before(r, o) ==
  \/ r.deployment < o.deployment
  \/ r.deployment = o.deployment /\ r.schedule > o.schedule
  \/ r.deployment = o.deployment /\ r.schedule = o.schedule /\ r.date < o.date

Batch(k) ==
  {r \in collected[k] :
     Cardinality({o \in collected[k] : Before(o, r)}) < InsertBatchSize}

\* A variant without the conflict clause, for StartedOnce.
InsertMutant(k) ==
  /\ pc[k] = "reading" /\ unread[k] = {} /\ collected[k] # {}
  /\ runs' = runs \cup Batch(k)
  /\ overtaken' = overtaken \cup
       {d \in Deployments : \E r \in Batch(k) :
          r.deployment = d /\ (r.version # version[d] \/ deployment[d] # "active")}
  /\ collected' = [collected EXCEPT ![k] = @ \ Batch(k)]
  /\ UNCHANGED <<world, now, users, pc, cursor, page, unread, row, prompt, covered,
                 unchanged, settled, begun>>

\* One batch in a transaction of its own, except for the runs whose key exists.
Insert(k) ==
  LET new == {r \in Batch(k) : \A o \in runs : Key(o) # Key(r)} IN
  /\ pc[k] = "reading" /\ unread[k] = {} /\ collected[k] # {}
  /\ runs' = runs \cup new
  /\ overtaken' = overtaken \cup
       {d \in Deployments : \E r \in new :
          r.deployment = d /\ (r.version # version[d] \/ deployment[d] # "active")}
  /\ collected' = [collected EXCEPT ![k] = @ \ Batch(k)]
  /\ UNCHANGED <<world, now, users, pc, cursor, page, unread, row, prompt, covered,
                 unchanged, settled, begun>>

EndPage(k) ==
  /\ pc[k] = "reading" /\ unread[k] = {} /\ collected[k] = {}
  /\ IF Cardinality(page[k]) < DeploymentBatchSize
     THEN /\ pc' = [pc EXCEPT ![k] = "idle"]
          /\ cursor' = [cursor EXCEPT ![k] = None]
          /\ covered' = (covered \/ (k = "main" /\ k \in prompt))
          /\ prompt' = prompt \ {k}
          /\ settled' = IF k = "main" THEN settled \cup unchanged ELSE settled
     ELSE /\ pc' = [pc EXCEPT ![k] = "selecting"]
          /\ cursor' = [cursor EXCEPT ![k] = Max(page[k])]
          /\ UNCHANGED <<covered, prompt, settled>>
  /\ page' = [page EXCEPT ![k] = {}]
  /\ UNCHANGED <<world, now, users, runs, unread, row, collected, unchanged,
                 overtaken, begun>>

\* Any other error while the runs of a deployment are generated leaves that deployment out,
\* and the round goes on as if nothing had happened. On PostgreSQL the transaction may be
\* aborted by then: each deployment that is left of the page meets an error as well.
Skip(k) ==
  LET first == IF pc[k] = "generating" THEN row[k].deployment ELSE Min(unread[k]) IN
  /\ world.fails /\ pc[k] \in {"reading", "generating"}
  /\ pc[k] = "reading" => unread[k] # {}
  /\ \E skipped \in {{first}, {first} \cup unread[k]} :
       /\ unread' = [unread EXCEPT ![k] = @ \ skipped]
       /\ unchanged' = IF k = "main" THEN unchanged \ skipped ELSE unchanged
       /\ settled' = IF k = "main" THEN settled \ skipped ELSE settled
  /\ row' = [row EXCEPT ![k] = None]
  /\ pc' = [pc EXCEPT ![k] = "reading"]
  /\ UNCHANGED <<world, now, users, runs, cursor, page, collected, prompt, covered, overtaken,
                 begun>>

\* The connection breaks while a page is read: the page is selected again.
TryAgain(k) ==
  /\ world.fails /\ pc[k] \in {"reading", "generating"}
  /\ pc[k] = "reading" => unread[k] # {}
  /\ pc' = [pc EXCEPT ![k] = "selecting"]
  /\ page' = [page EXCEPT ![k] = {}] /\ unread' = [unread EXCEPT ![k] = {}]
  /\ row' = [row EXCEPT ![k] = None] /\ collected' = [collected EXCEPT ![k] = {}]
  /\ UNCHANGED <<world, now, users, runs, cursor, prompt, covered, history, begun>>

\* An error outside of that part, or a restart, ends the round. The next one begins with
\* the first page.
Fail(k) ==
  /\ world.fails /\ pc[k] # "idle"
  /\ pc' = [pc EXCEPT ![k] = "idle"] /\ cursor' = [cursor EXCEPT ![k] = None]
  /\ page' = [page EXCEPT ![k] = {}] /\ unread' = [unread EXCEPT ![k] = {}]
  /\ row' = [row EXCEPT ![k] = None] /\ collected' = [collected EXCEPT ![k] = {}]
  /\ prompt' = prompt \ {k}
  /\ UNCHANGED <<world, now, users, runs, covered, history, begun>>
--------------------------------------------------------------------------------
(* Requests of users.                                                      *)

Edit(e) ==
  /\ e \in world.edits /\ edits < world.most
  /\ edits' = edits + 1

Change(d) == unchanged' = unchanged \ {d} /\ settled' = settled \ {d}

\* A variant that leaves runs that are late, for OldRunsRemoved.
DeleteScheduledRunsMutant(d) ==
  /\ runs' = {r \in runs : r.deployment # d \/ r.left \/ r.date < now}
  /\ version' = [version EXCEPT ![d] = @ + 1]
  /\ Change(d)
  /\ overtaken' = overtaken \ {d}

\* _delete_scheduled_runs: those that have not left their first state.
DeleteScheduledRuns(d) ==
  /\ runs' = {r \in runs : r.deployment # d \/ r.left}
  /\ version' = [version EXCEPT ![d] = @ + 1]
  /\ Change(d)
  /\ overtaken' = overtaken \ {d}

Without(ids) == [i \in DOMAIN schedule |-> IF i \in ids THEN None ELSE schedule[i]]

CreateDeployment(d) ==
  /\ Edit("create") /\ deployment[d] = "absent"
  /\ deployment' = [deployment EXCEPT ![d] = "active"]
  /\ \E n \in world.intervals : schedule' = Append(schedule, Row(d, n))
  /\ recent' = recent \cup {d}
  /\ Change(d)
  /\ UNCHANGED <<world, now, rounds, runs, pausing, version, overtaken, begun>>

\* schedules_to_create: a request that names schedules by slugs may bring a new one.
CreateSchedule(d) ==
  \/ schedule' = schedule
  \/ \E n \in world.intervals : schedule' = Append(schedule, Row(d, n))

\* A request that changes the deployment, and may pause or resume it at once, but leaves the
\* schedules alone that it has.
UpdateDeployment(d) ==
  /\ Edit("update") /\ d \in Existing
  /\ DeleteScheduledRuns(d)
  /\ \E s \in {"active", "paused"} : deployment' = [deployment EXCEPT ![d] = s]
  /\ CreateSchedule(d)
  /\ recent' = recent \cup {d}
  /\ UNCHANGED <<world, now, rounds, pausing, begun>>

\* A request with schedules, or the creation of a deployment that exists: the old ones
\* are deleted and new ones made, even if they are the same.
ReplaceSchedules(d) ==
  /\ Edit("replace") /\ d \in Existing
  /\ DeleteScheduledRuns(d)
  /\ \E n \in world.intervals : schedule' = Append(Without(SchedulesOf(d)), Row(d, n))
  /\ recent' = recent \cup {d}
  /\ UNCHANGED <<world, now, rounds, deployment, pausing, begun>>

DeleteDeployment(d) ==
  /\ Edit("delete") /\ d \in Existing
  /\ DeleteScheduledRuns(d)
  /\ deployment' = [deployment EXCEPT ![d] = "deleted"]
  /\ schedule' = Without(SchedulesOf(d))
  /\ recent' = recent \ {d}
  /\ UNCHANGED <<world, now, rounds, pausing, begun>>

\* The first transaction of a request to pause, and the second.
PauseDeployment(d) ==
  /\ Edit("pause") /\ d \in Existing \ pausing
  /\ deployment' = [deployment EXCEPT ![d] = "paused"]
  /\ pausing' = pausing \cup {d}
  /\ recent' = recent \cup {e \in {d} : deployment[e] = "active"}
  /\ Change(d)
  /\ UNCHANGED <<world, now, rounds, schedule, runs, version, overtaken, begun>>

FinishPause(d) ==
  /\ d \in pausing
  /\ pausing' = pausing \ {d}
  /\ DeleteScheduledRuns(d)
  /\ UNCHANGED <<world, now, rounds, deployment, schedule, recent, edits, begun>>

ResumeDeployment(d) ==
  /\ Edit("resume") /\ deployment[d] = "paused"
  /\ deployment' = [deployment EXCEPT ![d] = "active"]
  /\ recent' = recent \cup {d}
  /\ Change(d)
  /\ UNCHANGED <<world, now, rounds, schedule, runs, pausing, version, overtaken, begun>>

\* A new schedule deletes no runs and does not touch the row of the deployment.
AddSchedule(d) ==
  /\ Edit("add schedule") /\ d \in Existing
  /\ \E n \in world.intervals : schedule' = Append(schedule, Row(d, n))
  /\ Change(d)
  /\ UNCHANGED <<world, now, rounds, deployment, runs, recent, pausing, version, overtaken,
                 begun>>

\* A request for one schedule, or one for the deployment that names schedules by slugs.
PatchSchedule(d) ==
  /\ Edit("patch schedule")
  /\ \E i \in SchedulesOf(d), n \in world.intervals, a \in BOOLEAN :
       schedule' = [schedule EXCEPT ![i].interval = n, ![i].active = a]
  /\ DeleteScheduledRuns(d)
  /\ recent' \in {recent, recent \cup {d}}
  /\ UNCHANGED <<world, now, rounds, deployment, pausing, begun>>

DeleteSchedule(d) ==
  /\ Edit("delete schedule")
  /\ \E i \in SchedulesOf(d) : schedule' = Without({i})
  /\ DeleteScheduledRuns(d)
  /\ UNCHANGED <<world, now, rounds, deployment, recent, pausing, begun>>
--------------------------------------------------------------------------------
(* Workers and time.                                                       *)

\* A worker that polls its queues has the deployments behind them marked as ready.
Poll(d) ==
  /\ world.polls /\ d \in Existing \ recent
  /\ recent' = recent \cup {d}
  /\ UNCHANGED <<world, now, rounds, runs, deployment, schedule, pausing, edits, version,
                 history, begun>>

\* A run leaves its first state: a worker starts it, or it is cancelled.
Start(r) ==
  /\ world.starts /\ ~r.left /\ r.date <= now + Prefetch
  /\ runs' = (runs \ {r}) \cup {[r EXCEPT !.left = TRUE]}
  /\ begun' = begun \cup {Key(r)}
  /\ UNCHANGED <<world, now, users, rounds, history>>

Tick ==
  /\ covered /\ now < MaxTime
  /\ now' = now + 1
  /\ covered' = FALSE /\ prompt' = {} /\ recent' = {}
  /\ UNCHANGED <<world, runs, deployment, schedule, pausing, edits, version, pc, cursor,
                 page, unread, row, collected, history, begun>>

Round(k) ==
  SelectDeployments(k) \/ ReadDeployment(k) \/ ReadSchedules(k) \/ Insert(k) \/ EndPage(k)
    \/ Skip(k) \/ TryAgain(k) \/ Fail(k)

User(d) ==
  \/ CreateDeployment(d) \/ UpdateDeployment(d) \/ ReplaceSchedules(d)
  \/ DeleteDeployment(d) \/ PauseDeployment(d) \/ FinishPause(d) \/ ResumeDeployment(d)
  \/ AddSchedule(d) \/ PatchSchedule(d) \/ DeleteSchedule(d)

Next ==
  \/ \E k \in Schedulers : Round(k)
  \/ \E d \in Deployments : User(d) \/ Poll(d)
  \/ \E r \in runs : Start(r)
  \/ Tick

Spec == Init /\ [][Next]_vars
--------------------------------------------------------------------------------
(* Properties                                                              *)

\* The one schedule of a deployment.
Only(d, i) == SchedulesOf(d) = {i}

\* Every date of a schedule has its run by then, whichever rounds fail, whatever errors the
\* other deployments meet, and however pages and batches are cut: if the schedule is its
\* deployment's only one, the main scheduler has begun and ended a round since it was
\* changed, or skipped, for the last time, and no scheduler has inserted runs that it had
\* collected before a change (_get_select_deployments_to_schedule_query, which counts
\* the runs of all schedules together, run_once, _collect_flow_runs).
DatesKept ==
  \A d \in Deployments \ overtaken, i \in Made :
    (/\ deployment[d] = "active" /\ d \in settled
     /\ Only(d, i) /\ schedule[i].active /\ schedule[i].interval > 0
     /\ now % schedule[i].interval = 0)
    => <<d, i, now>> \in {Key(r) : r \in runs}

\* "The Scheduler creates the fewest runs that satisfy the following constraints": of
\* the runs of a schedule only the last satisfies both minimums, and there are no more
\* than the maximum, whoever has inserted them when
\* (docs/v3/automate/add-schedules.mdx, _generate_scheduled_flow_runs).
FewestRuns ==
  \A i \in Made :
    LET new == {r \in runs : r.schedule = i /\ r.version = version[r.deployment]}
        dates == {r.date : r \in new} \cap (now .. now + MaxScheduledTime) IN
    /\ Cardinality(dates) <= MaxRuns
    /\ \A t \in dates : Enough(dates, t, now) => \A u \in dates : u <= t

\* "If you change a schedule, previously scheduled flow runs that have not started are
\* removed": a scheduled run is one of an active deployment and an active schedule as
\* they are now, unless a scheduler had collected it before the change, or the request
\* to pause is half done (docs/v3/automate/add-schedules.mdx, _delete_scheduled_runs).
OldRunsRemoved ==
  \A r \in runs : ~r.left =>
    \/ r.deployment \in overtaken \cup pausing
    \/ /\ deployment[r.deployment] = "active"
       /\ r.version = version[r.deployment]
       /\ r.schedule \in ActiveSchedules(r.deployment)
       /\ r.date % schedule[r.schedule].interval = 0

\* A run of a schedule and a date is started once: it is neither scheduled twice by two
\* schedulers, nor again when the deployment has changed since
\* (_insert_scheduled_flow_runs, _delete_scheduled_runs).
StartedOnce ==
  [][\A r \in runs : (~r.left /\ [r EXCEPT !.left = TRUE] \in runs') => Key(r) \notin begun]_vars
=============================================================================
