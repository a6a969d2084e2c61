------------------------------- MODULE MCTaskRuns -------------------------------
(***************************************************************************)
(* An instance of CancellationCleanup for TLC: flow run 2 is a subflow of  *)
(* flow run 1.                                                             *)
(***************************************************************************)
EXTENDS CancellationCleanup, TLC

CONSTANTS above, child, sub, worker, key

MCFlowOf == above :> 1 @@ child :> 1 @@ sub :> 1 @@ worker :> 1
MCParentTask == 1 :> None @@ 2 :> above
MCTagsOf == above :> {} @@ sub :> {1} @@ child :> {1, 2} @@ worker :> {1, 2}
MCLimits == {None, 0, 1}
MCFlowChanges ==
  {<<"RUNNING", "PAUSED">>, <<"RUNNING", "CANCELLED">>, <<"PAUSED", "CANCELLED">>,
   <<"CANCELLING", "COMPLETED">>}

MCPopulations ==
  {[runs |-> {child, worker}, flows |-> {1}, cleanup |-> FALSE],
   [runs |-> {worker}, flows |-> {1}, cleanup |-> TRUE],
   [runs |-> {above, sub}, flows |-> {1, 2}, cleanup |-> TRUE]}

Proposed(type, early, cache_key) ==
  [type |-> type, early |-> early, persisted |-> cache_key # None,
   cache_key |-> cache_key, retriable |-> TRUE]
MCProposals ==
  {Proposed("RUNNING", FALSE, None), Proposed("RUNNING", FALSE, key),
   Proposed("COMPLETED", FALSE, key), Proposed("FAILED", FALSE, None),
   Proposed("CANCELLING", FALSE, None), Proposed("PENDING", TRUE, None)}

=============================================================================
