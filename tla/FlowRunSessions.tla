--------------------------- MODULE FlowRunSessions ---------------------------
(***************************************************************************)
(* The server on PostgreSQL, where three operations read a run's row long  *)
(* before they lock it: FailExpiredPauses, which reads a batch of paused   *)
(* runs, resume_flow_run and delete_flow_run.  A database session keeps    *)
(* the object it made of the row; the SELECT ... FOR UPDATE with which     *)
(* set_flow_run_state locks the row returns that object as it is, and the  *)
(* rules see the run as it was.  What is flushed in the end are the        *)
(* columns the session changed.                                            *)
(*                                                                         *)
(* On SQLite a transaction that writes after another one wrote what it     *)
(* read fails, hence FlowRunOrchestration, with one action for each of the *)
(* three, is what SQLite does.                                             *)
(***************************************************************************)
EXTENDS FlowRunOrchestration

CONSTANTS
  Sessions,      \* sessions that have read a run and not yet acted upon it
  MaxOvertaken   \* bound: how many sessions may act on a run that moved on

ASSUME SessionsAssumption == None \notin Sessions /\ MaxOvertaken \in Nat

VARIABLES
  session,   \* what each session is about: its operation, run, and cached row
  overtaken  \* history: sessions that acted on a run which had taken a slot
             \* since they read it

sessionVars == <<vars, session, overtaken>>

Operations == {"fail_expired", "resume", "delete"}

SessionInit ==
  /\ Init
  /\ session = [s \in Sessions |-> None]
  /\ overtaken = 0

Open(s) == session[s] # None
Close(s) == session' = [session EXCEPT ![s] = None]

-----------------------------------------------------------------------------

\* The read without a lock.  The service selects paused runs; resume_flow_run
\* answers at once unless the run is paused.
ReadRun(s) ==
  /\ ~Open(s)
  /\ \E id \in Rows, op \in Operations :
       /\ op # "delete" => TypeOf(runs[id]) = "PAUSED"
       /\ session' = [session EXCEPT
                        ![s] = [op |-> op, id |-> id, row |-> runs[id]]]
  /\ UNCHANGED <<vars, overtaken>>

\* The run as a session knows it when it acts: the pause it read may have timed
\* out in the meantime.
CachedRows(s) ==
  {session[s].row, [session[s].row EXCEPT !.state = Elapsed(@)]}

\* The columns in which `after` differs from the cached row are written;
\* empirical_policy is one column.
Flushed(row, cached, after) ==
  LET Column(old, new, stored) == IF old = new THEN stored ELSE new
      Policy(r) == <<r.resuming, r.pause_keys, r.retry_type>>
      policy == Column(Policy(cached), Policy(after), Policy(row))
  IN  [row EXCEPT !.state = Column(cached.state, after.state, @),
                  !.run_count = Column(cached.run_count, after.run_count, @),
                  !.resuming = policy[1], !.pause_keys = policy[2],
                  !.retry_type = policy[3]]

\* A session acts, and is done; a slot taken since it read is unknown to it.
Act(s) ==
  /\ Close(s)
  /\ overtaken' = IF /\ session[s].id \in Holders
                     /\ TypeOf(session[s].row) \notin SlotStates
                    THEN overtaken + 1 ELSE overtaken
  /\ overtaken' <= MaxOvertaken

\* set_flow_run_state in a session that has read the run before.
SetStateFromCache(s, cached, p, policy) ==
  LET id == session[s].id
      v == Verdict(policy, cached, p, limit)
      after == RunAfter(policy, cached, p, limit, v)
  IN  /\ id \in Rows
      /\ after.run_count <= MaxRunCount
      /\ runs' = [runs EXCEPT ![id] = Flushed(@, cached, after)]
      /\ limit' = LimitAfter(policy, cached, p, limit, v.state)
      /\ Act(s)
      /\ UNCHANGED retried

FailCachedPause(s) ==
  /\ Open(s) /\ session[s].op = "fail_expired"
  /\ \E cached \in CachedRows(s) :
       /\ cached.state.pause_timeout = "past"
       /\ SetStateFromCache(s, cached, Plain("FAILED"), "minimal")

ResumeCachedRun(s) ==
  /\ Open(s) /\ session[s].op = "resume"
  /\ \E cached \in CachedRows(s), policy \in ClientPolicies :
       SetStateFromCache(s, cached,
         IF cached.state.pause_reschedule THEN Scheduled("Resuming", "past")
                                          ELSE Plain("RUNNING"), policy)

\* The pause has time left, or the run is gone.
NothingToDo(s) ==
  /\ Open(s) /\ session[s].op # "delete"
  /\ \/ session[s].id \notin Rows
     \/ /\ session[s].op = "fail_expired"
        /\ session[s].row.state.pause_timeout # "past"
  /\ Close(s)
  /\ UNCHANGED <<vars, overtaken>>

\* A variant that forgets runs which never started, for LostSlotsCounted.
DeleteCachedRunMutant(s) ==
  /\ Open(s) /\ session[s].op = "delete"
  /\ runs' = [runs EXCEPT ![session[s].id] = None]
  /\ limit' = IF /\ session[s].row.deployment
                 /\ TypeOf(session[s].row) \in {"RUNNING", "CANCELLING"}
                THEN Decrement(limit) ELSE limit
  /\ Act(s)
  /\ UNCHANGED retried

\* The slot is given back before it is known whether the run still exists.
DeleteCachedRun(s) ==
  /\ Open(s) /\ session[s].op = "delete"
  /\ runs' = [runs EXCEPT ![session[s].id] = None]
  /\ limit' = IF /\ session[s].row.deployment
                 /\ TypeOf(session[s].row) \in SlotStates
                THEN Decrement(limit) ELSE limit
  /\ Act(s)
  /\ UNCHANGED retried

\* Ids are not used twice: a session never takes a run for another one.
FreshId(id) == \A s \in Sessions : Open(s) => session[s].id # id

SessionNext ==
  \/ /\ \/ \E id \in Runs : \/ CreateFlowRun(id) /\ FreshId(id)
                            \/ ClientRequest(id) \/ MarkFlowRunAsLate(id)
                            \/ UpdateInfrastructurePid(id) \/ ClockPasses(id)
        \/ \E n \in Limits : UpdateDeploymentLimit(n)
     /\ UNCHANGED <<session, overtaken>>
  \/ \E s \in Sessions :
       \/ ReadRun(s) \/ NothingToDo(s)
       \/ FailCachedPause(s) \/ ResumeCachedRun(s) \/ DeleteCachedRun(s)

SessionSpec == SessionInit /\ [][SessionNext]_sessionVars

-----------------------------------------------------------------------------
(* Properties.                                                             *)

\* Every variable keeps its type, so that what the sessions write, each from
\* its own old row, still makes up a flow run; FlowRunClientsProofs proves it.
SessionTypeOK ==
  /\ TypeOK
  /\ session \in [Sessions -> {None} \cup
                    [op : Operations, id : Runs, row : FlowRun]]
  /\ overtaken \in Nat

\* What old rows cost: the limit counts more slots than there are holders only
\* by sessions that acted on a run which had taken a slot since they read it.
\* No other order of reads and writes loses a slot (set_flow_run_state,
\* delete_flow_run, ReleaseFlowConcurrencySlots).
LostSlotsCounted ==
  limit.active_slots <= Cardinality(Holders) + overtaken

=============================================================================
