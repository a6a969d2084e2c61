----------------------- MODULE MCFlowRunLifecycle -----------------------
(***************************************************************************)
(* Instances of FlowRunLifecycle for TLC.                                  *)
(***************************************************************************)
EXTENDS FlowRunLifecycle, TLC

CONSTANTS r1, r2, w1, w2

MCInitialStates == {Scheduled("Default", "past")}

\* Clients propose only what their code proposes; nothing is left over for the
\* arbitrary clients of FlowRunOrchestration.
MCProposals == {}

\* Three for the safety of a run, whose first submission may still report when the third
\* begins; two for liveness.
MCAttempts == 1..3
MCTwoAttempts == 1..2

MCOneLimit == {1}

\* Runs differ in nothing but their names.
Symmetry == Permutations(Runs)

\* One run and two workers with old lists of runs: suspensions, resumptions, processes
\* that crash and reruns.
OldLists ==
  [runs |-> {r1}, workers |-> {w1, w2}, behaviours |-> {"suspend", "crash"},
   requests |-> {"resume", "rerun"}, timeouts |-> {None, "future"}, may_lose |-> FALSE]

\* Two runs contend for one slot: failures, timeouts, suspensions, resumptions; or
\* crashes and reruns.
Contention ==
  [runs |-> {r1, r2}, workers |-> {w1},
   behaviours |-> {"timeout", "suspend", "fail", "crash"}, requests |-> {"resume"},
   timeouts |-> {"future"}, may_lose |-> FALSE]
Crashing ==
  [runs |-> {r1, r2}, workers |-> {w1}, behaviours |-> {"crash"}, requests |-> {"rerun"},
   timeouts |-> {}, may_lose |-> FALSE]

\* One run and one worker: whatever a process does, and cancellation.
Cancelling ==
  [runs |-> {r1}, workers |-> {w1},
   behaviours |-> {"fail", "timeout", "pause", "suspend", "crash"},
   requests |-> {"resume", "cancel"}, timeouts |-> {None, "future"}, may_lose |-> FALSE]

\* Two runs contend for one slot and are retried in process.
Retried ==
  [runs |-> {r1, r2}, workers |-> {w1}, behaviours |-> {"fail"}, requests |-> {},
   timeouts |-> {}, may_lose |-> FALSE]

\* One run, which may suspend itself, be suspended by a user or crash; answers get lost
\* and requests are resent.
Resent ==
  [runs |-> {r1}, workers |-> {w1, w2}, behaviours |-> {"suspend", "crash"},
   requests |-> {"resume", "suspend"}, timeouts |-> {None}, may_lose |-> TRUE]

MCSafetyWorlds == {OldLists, Contention, Crashing, Cancelling}
MCLivenessWorlds == {Retried, Resent}
=============================================================================
