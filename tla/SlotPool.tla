-------------------------------- MODULE SlotPool --------------------------------
(***************************************************************************)
(* What the concurrency limit of a deployment promises: a pool of slots,   *)
(* each held by one run, never more of them than the capacity.             *)
(* FlowRunLifecycle states the conditions under which the server and its   *)
(* clients keep this promise, as a refinement.                             *)
(***************************************************************************)
EXTENDS Naturals, FiniteSets

CONSTANTS Runs, Capacity

VARIABLE held  \* the runs that hold a slot

Init == held = {}

Acquire(id) ==
  /\ id \notin held
  /\ Cardinality(held) < Capacity
  /\ held' = held \cup {id}

Release(id) ==
  /\ id \in held
  /\ held' = held \ {id}

Next == \E id \in Runs : Acquire(id) \/ Release(id)

Spec == Init /\ [][Next]_held
=============================================================================
