------------------------ MODULE WorkerSubmissionProofs ------------------------
(***************************************************************************)
(* A worker loses none of its tokens but those of runs whose deployment    *)
(* was deleted, whatever its limit, however many runs there are, in        *)
(* whatever order its coroutines take turns, and even when infrastructure  *)
(* fails to start; and as long as none does, its limit is honoured.        *)
(***************************************************************************)
EXTENDS WorkerSubmission, FiniteSetTheorems, TLAPS

\* What the invariant below needs of the types of the variables.
WorkerTypes ==
  /\ submission \in [Runs -> InSubmission \cup {"idle", "cancelling"}]
  /\ monitor \in [Runs -> {"idle", "submitting", "running", "failed", "reported"}]
  /\ borrowers \subseteq Runs
  /\ answer = None \/ answer \subseteq Runs

\* A token outlives _submit_run only in the hands of the monitor: by the time the
\* infrastructure_pid is recorded, either the monitor is there or it has already
\* given the token back.
Accounted(id) ==
  \/ submission[id] \in (InSubmission \ {"recording"}) \cup {"cancelling"}
  \/ monitor[id] # "idle"
  \/ id \in cancelled

TokensAccounted == error = None => \A id \in borrowers : Accounted(id)

WorkerInv == WorkerTypes /\ TokensAccounted

-----------------------------------------------------------------------------

LEMMA WorkerInvInit == WorkerInit => WorkerInv
  BY DEF WorkerInit, WorkerInv, WorkerTypes, TokensAccounted, Accounted

\* Steps of _submit_run keep the invariant if the run goes on being submitted,
\* or gives its token back.
LEMMA SubmissionStep ==
  ASSUME WorkerInv, NEW id \in Runs, NEW from \in InSubmission,
         NEW to \in InSubmission \cup {"idle", "cancelling"},
         Submission(id, from, to), UNCHANGED <<monitor, answer, cancelled>>,
         borrowers' \subseteq borrowers,
         \/ to \in (InSubmission \ {"recording"}) \cup {"cancelling"}
         \/ id \notin borrowers'
         \/ from = "recording"
  PROVE  WorkerInv'
<1> USE DEF WorkerInv, WorkerTypes, TokensAccounted, Accounted, InSubmission
<1>1. WorkerTypes'
  BY DEF Submission
<1>2. TokensAccounted'
  <2> SUFFICES ASSUME NEW other \in borrowers'
               PROVE  Accounted(other)'
    OBVIOUS
  <2>1. CASE other = id
    BY <2>1 DEF Submission
  <2>2. CASE other # id
    BY <2>2 DEF Submission
  <2> QED BY <2>1, <2>2
<1> QED BY <1>1, <1>2

\* Steps of the monitor keep it if the monitor goes on, or gives the token back.
LEMMA MonitorStep ==
  ASSUME WorkerInv, NEW id \in Runs, NEW from,
         NEW to \in {"idle", "failed", "reported"},
         Monitor(id, from, to), UNCHANGED <<submission, answer, cancelled>>,
         borrowers' \subseteq borrowers,
         to # "idle" \/ id \notin borrowers'
  PROVE  WorkerInv'
<1> USE DEF WorkerInv, WorkerTypes, TokensAccounted, Accounted, InSubmission
<1>1. WorkerTypes'
  BY DEF Monitor
<1>2. TokensAccounted'
  <2> SUFFICES ASSUME NEW other \in borrowers'
               PROVE  Accounted(other)'
    OBVIOUS
  <2>1. CASE other = id
    BY <2>1 DEF Monitor
  <2>2. CASE other # id
    BY <2>2 DEF Monitor
  <2> QED BY <2>1, <2>2
<1> QED BY <1>1, <1>2

\* Whether or not the release is an error, the run holds no token after it.
LEMMA ReleaseReleases ==
  ASSUME NEW id, Release(id)
  PROVE  borrowers' \subseteq borrowers /\ id \notin borrowers'
BY DEF Release

LEMMA WorkerInvNext ==
  ASSUME WorkerInv, [WorkerNext]_workerVars
  PROVE  WorkerInv'
<1>1. CASE UNCHANGED workerVars
  BY <1>1 DEF workerVars, WorkerInv, WorkerTypes, TokensAccounted, Accounted
<1>2. CASE GetScheduledFlowRuns
  BY <1>2
  DEF GetScheduledFlowRuns, WorkerInv, WorkerTypes, TokensAccounted, Accounted
<1>3. CASE SubmitScheduledFlowRuns
  <2> USE DEF WorkerInv, WorkerTypes, TokensAccounted, Accounted, InSubmission
  <2>1. answer \subseteq Runs /\ answer' = None /\ UNCHANGED <<monitor, cancelled>>
          /\ error = None
    BY <1>3 DEF SubmitScheduledFlowRuns
  <2>2. CASE UNCHANGED <<borrowers, submission>>
    BY <2>1, <2>2
  <2>3. ASSUME NEW taken \in SUBSET Runs, borrowers' = borrowers \cup taken,
               submission' = [id \in Runs |-> IF id \in taken
                                THEN "reading" ELSE submission[id]]
        PROVE  WorkerInv'
    <3>1. WorkerTypes'
      BY <2>1, <2>3
    <3>2. ASSUME NEW id \in borrowers'
          PROVE  Accounted(id)'
      BY <2>1, <2>3, <3>2
    <3> QED BY <3>1, <3>2
  <2>4. \/ UNCHANGED <<borrowers, submission>>
        \/ \E taken \in SUBSET Runs :
             /\ borrowers' = borrowers \cup taken
             /\ submission' = [id \in Runs |-> IF id \in taken
                                 THEN "reading" ELSE submission[id]]
    BY <1>3, <2>1, Zenon DEF SubmitScheduledFlowRuns
  <2> QED BY <2>2, <2>3, <2>4
<1>4. ASSUME NEW id \in Runs, ReadDeployment(id)
      PROVE  WorkerInv'
  <2>1. PICK to \in {"proposing", "cancelling"} : Submission(id, "reading", to)
    BY <1>4 DEF ReadDeployment
  <2> QED BY <1>4, <2>1, SubmissionStep DEF ReadDeployment, InSubmission
<1>5. ASSUME NEW id \in Runs, MarkFlowRunAsCancelled(id)
      PROVE  WorkerInv'
  <2> USE DEF WorkerInv, WorkerTypes, TokensAccounted, Accounted, InSubmission
  <2>1. /\ error = None /\ submission[id] = "cancelling"
        /\ UNCHANGED <<monitor, borrowers, answer>>
    BY <1>5 DEF MarkFlowRunAsCancelled, Submission
  <2>2. WorkerTypes'
    BY <1>5, <2>1 DEF MarkFlowRunAsCancelled, Submission
  <2>3. ASSUME NEW other \in borrowers'
        PROVE  Accounted(other)'
    BY <1>5, <2>1, <2>3 DEF MarkFlowRunAsCancelled, Submission
  <2> QED BY <2>2, <2>3
<1>6. ASSUME NEW id \in Runs, ProposePendingState(id)
      PROVE  WorkerInv'
  <2>1. CASE Submission(id, "proposing", "starting") /\ UNCHANGED borrowers
    BY <1>6, <2>1, SubmissionStep DEF ProposePendingState, InSubmission
  <2>2. CASE Submission(id, "proposing", "idle") /\ Release(id)
    BY <1>6, <2>2, SubmissionStep, ReleaseReleases
    DEF ProposePendingState, InSubmission
  <2> QED BY <1>6, <2>1, <2>2 DEF ProposePendingState
<1>7. ASSUME NEW id \in Runs, StartMonitor(id) \/ Started(id) \/ FailToStart(id)
      PROVE  WorkerInv'
  <2> USE DEF WorkerInv, WorkerTypes, TokensAccounted, Accounted, InSubmission
  <2>1. PICK to \in InSubmission, working \in {"submitting", "running", "failed"} :
          /\ submission' = [submission EXCEPT ![id] = to]
          /\ monitor' = [monitor EXCEPT ![id] = working]
          /\ error = None /\ UNCHANGED <<borrowers, answer, cancelled>>
    BY <1>7 DEF StartMonitor, Started, FailToStart, Submission, Monitor
  <2>2. WorkerTypes'
    BY <2>1
  <2>3. ASSUME NEW other \in borrowers'
        PROVE  Accounted(other)'
    BY <2>1, <2>3
  <2> QED BY <2>2, <2>3
<1>8. ASSUME NEW id \in Runs, RecordInfrastructurePid(id)
      PROVE  WorkerInv'
  BY <1>8, SubmissionStep DEF RecordInfrastructurePid, InSubmission
<1>9. ASSUME NEW id \in Runs, GiveUp(id)
      PROVE  WorkerInv'
  BY <1>9, SubmissionStep, ReleaseReleases DEF GiveUp, InSubmission
<1>10. ASSUME NEW id \in Runs, ProposeCrashedState(id)
       PROVE  WorkerInv'
  BY <1>10, MonitorStep DEF ProposeCrashedState
<1>11. ASSUME NEW id \in Runs, Finish(id)
       PROVE  WorkerInv'
  BY <1>11, MonitorStep, ReleaseReleases DEF Finish
<1>12. ASSUME NEW id \in Runs, ForgetCancelled(id)
       PROVE  WorkerInv'
  <2>1. error' # None
    BY <1>12, WorkerAssumption DEF ForgetCancelled, CancellingFlowRunIds
  <2> QED BY <1>12, <2>1 DEF ForgetCancelled, WorkerInv, WorkerTypes, TokensAccounted
<1>13. ASSUME NEW id \in Runs, Others(id)
       PROVE  WorkerInv'
  BY <1>13 DEF Others, WorkerInv, WorkerTypes, TokensAccounted, Accounted
<1> QED
  BY <1>1, <1>2, <1>3, <1>4, <1>5, <1>6, <1>7, <1>8, <1>9, <1>10, <1>11, <1>12,
     <1>13
  DEF WorkerNext

-----------------------------------------------------------------------------

\* As long as the worker has not stopped, whoever holds a token is being submitted
\* or monitored, or had its deployment deleted: no other token is lost, not even
\* when infrastructure fails to start and both coroutines of the run release it.
THEOREM TokensNotLost == WorkerSpec => []NoSlotLost
<1>1. WorkerInit => WorkerInv
  BY WorkerInvInit
<1>2. WorkerInv /\ [WorkerNext]_workerVars => WorkerInv'
  BY WorkerInvNext
<1>3. WorkerInv => NoSlotLost
  BY DEF WorkerInv, TokensAccounted, Accounted, NoSlotLost
<1> QED BY <1>1, <1>2, <1>3, PTL DEF WorkerSpec

-----------------------------------------------------------------------------
(* The limit, as long as no infrastructure fails to start.                 *)

\* A token covers a run from the poll to the end of its monitor.  Where _submit_run
\* may give the token back, there is no monitor yet.
TokensCover ==
  /\ \A id \in Runs : monitor[id] \in {"idle", "submitting", "running"}
  /\ \A id \in Runs : monitor[id] # "idle" => id \in borrowers
  /\ \A id \in Runs : submission[id] # "not_started"
  /\ \A id \in Runs : submission[id] \in {"reading", "proposing", "starting"}
                      => id \in borrowers /\ monitor[id] = "idle"

TokensBounded == borrowers \subseteq Runs /\ Cardinality(borrowers) <= Limit

LEMMA LimitIsNat == Limit \in Nat
  BY WorkerAssumption DEF WorkerAssumption

LEMMA FewerTokens ==
  ASSUME TokensBounded, borrowers' \subseteq borrowers
  PROVE  TokensBounded'
<1>1. IsFiniteSet(borrowers)
  BY WorkerAssumption, FS_Subset DEF TokensBounded
<1>2. Cardinality(borrowers') <= Cardinality(borrowers)
  BY <1>1, FS_Subset
<1>3. Cardinality(borrowers) \in Nat /\ Cardinality(borrowers') \in Nat
  BY <1>1, FS_Subset, FS_CardinalityType
<1> QED BY <1>2, <1>3, LimitIsNat DEF TokensBounded

\* Only the poll loop takes tokens, and it asks the limiter first.
LEMMA TokensBoundedNext ==
  ASSUME TokensBounded, answer = None \/ answer \subseteq Runs, [WorkerNext]_workerVars
  PROVE  TokensBounded'
<1>1. CASE SubmitScheduledFlowRuns
  <2>1. answer \subseteq Runs
    BY <1>1 DEF SubmitScheduledFlowRuns
  <2>2. CASE UNCHANGED borrowers
    BY <2>2 DEF TokensBounded
  <2>3. ASSUME NEW taken \in SUBSET Runs, borrowers' = borrowers \cup taken,
               Cardinality(borrowers \cup taken) <= Limit
        PROVE  TokensBounded'
    BY <2>3 DEF TokensBounded
  <2>4. \/ UNCHANGED borrowers
        \/ \E taken \in SUBSET Runs :
             /\ borrowers' = borrowers \cup taken
             /\ Cardinality(borrowers \cup taken) <= Limit
    BY <1>1, <2>1, Zenon DEF SubmitScheduledFlowRuns
  <2> QED BY <2>2, <2>3, <2>4
<1>2. CASE ~SubmitScheduledFlowRuns
  <2>1. borrowers' \subseteq borrowers
    BY <1>2
    DEF WorkerNext, workerVars, GetScheduledFlowRuns, ReadDeployment,
        MarkFlowRunAsCancelled, ForgetCancelled, ProposePendingState, StartMonitor,
        RecordInfrastructurePid, GiveUp, Started, FailToStart, ProposeCrashedState,
        Finish, Others, Release
  <2> QED BY <2>1, FewerTokens
<1> QED BY <1>1, <1>2

LEMMA TokensCoverNext ==
  ASSUME MayFail = FALSE, WorkerTypes, TokensCover, [WorkerNext]_workerVars
  PROVE  TokensCover'
<1> USE DEF WorkerTypes, TokensCover, InSubmission
<1>1. CASE UNCHANGED workerVars
  BY <1>1 DEF workerVars
<1>2. CASE GetScheduledFlowRuns
  BY <1>2 DEF GetScheduledFlowRuns
<1>3. CASE SubmitScheduledFlowRuns
  <2>1. answer \subseteq Runs /\ UNCHANGED monitor
    BY <1>3 DEF SubmitScheduledFlowRuns
  <2>2. CASE UNCHANGED <<borrowers, submission>>
    BY <2>1, <2>2
  <2>3. ASSUME NEW taken \in SUBSET (Runs \ borrowers),
               borrowers' = borrowers \cup taken,
               submission' = [id \in Runs |-> IF id \in taken
                                THEN "reading" ELSE submission[id]]
        PROVE  TokensCover'
    BY <2>1, <2>3
  <2>4. \/ UNCHANGED <<borrowers, submission>>
        \/ \E taken \in SUBSET (Runs \ borrowers) :
             /\ borrowers' = borrowers \cup taken
             /\ submission' = [id \in Runs |-> IF id \in taken
                                 THEN "reading" ELSE submission[id]]
    BY <1>3, <2>1, Zenon DEF SubmitScheduledFlowRuns
  <2> QED BY <2>2, <2>3, <2>4
<1>4. ASSUME NEW id \in Runs,
             \/ ReadDeployment(id) \/ MarkFlowRunAsCancelled(id)
             \/ RecordInfrastructurePid(id)
      PROVE  TokensCover'
  BY <1>4 DEF ReadDeployment, MarkFlowRunAsCancelled, RecordInfrastructurePid, Submission
<1>5. ASSUME NEW id \in Runs, ProposePendingState(id)
      PROVE  TokensCover'
  BY <1>5 DEF ProposePendingState, Submission, Release
<1>6. ASSUME NEW id \in Runs, StartMonitor(id)
      PROVE  TokensCover'
  BY <1>6 DEF StartMonitor, Submission, Monitor
<1>7. ASSUME NEW id \in Runs, Started(id)
      PROVE  TokensCover'
  BY <1>7 DEF Started, Submission, Monitor
<1>8. ASSUME NEW id \in Runs, Finish(id)
      PROVE  TokensCover'
  BY <1>8 DEF Finish, Monitor, Release
<1>9. ASSUME NEW id \in Runs, ForgetCancelled(id) \/ Others(id)
      PROVE  TokensCover'
  BY <1>9 DEF ForgetCancelled, Others
<1>10. ASSUME NEW id \in Runs, GiveUp(id) \/ FailToStart(id) \/ ProposeCrashedState(id)
       PROVE  TokensCover'
  BY <1>10 DEF GiveUp, FailToStart, ProposeCrashedState, Submission, Monitor
<1> QED
  BY <1>1, <1>2, <1>3, <1>4, <1>5, <1>6, <1>7, <1>8, <1>9, <1>10 DEF WorkerNext

\* As long as no infrastructure fails to start, the runs in progress are never more
\* than the limit: each holds a token, and the tokens are as many as the limit.
THEOREM LimitKept ==
  ASSUME MayFail = FALSE
  PROVE  WorkerSpec => []LimitHonoured
<1> DEFINE Inv == WorkerInv /\ TokensBounded /\ TokensCover
<1>1. WorkerInit => Inv
  <2>1. Cardinality({}) = 0
    BY FS_EmptySet
  <2> QED BY <2>1, LimitIsNat, WorkerInvInit DEF WorkerInit, TokensBounded, TokensCover
<1>2. Inv /\ [WorkerNext]_workerVars => Inv'
  BY WorkerInvNext, TokensBoundedNext, TokensCoverNext DEF WorkerInv, WorkerTypes
<1>3. Inv => LimitHonoured
  <2> SUFFICES ASSUME Inv PROVE LimitHonoured
    OBVIOUS
  <2> DEFINE inProgress == {id \in Runs : monitor[id] \in {"submitting", "running"}}
  <2>1. inProgress \subseteq borrowers
    BY DEF TokensCover
  <2>2. IsFiniteSet(borrowers)
    BY WorkerAssumption, FS_Subset DEF TokensBounded
  <2>3. Cardinality(inProgress) <= Cardinality(borrowers)
    BY <2>1, <2>2, FS_Subset
  <2>4. Cardinality(inProgress) \in Nat /\ Cardinality(borrowers) \in Nat
    BY <2>1, <2>2, FS_Subset, FS_CardinalityType
  <2> QED
    BY <2>3, <2>4, LimitIsNat DEF TokensBounded, LimitHonoured
<1> QED BY <1>1, <1>2, <1>3, PTL DEF WorkerSpec
=============================================================================
