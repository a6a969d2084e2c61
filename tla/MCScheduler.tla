------------------------------ MODULE MCScheduler ------------------------------
(***************************************************************************)
(* An instance of Scheduler for TLC.                                       *)
(***************************************************************************)
EXTENDS Scheduler

\* Both schedulers and a deployment that is updated, paused and resumed.
Racing ==
  [deployments |-> <<1, None, None>>, schedulers |-> {"main", "recent"},
   edits |-> {"update", "pause", "resume"}, most |-> 2, intervals |-> {},
   fails |-> FALSE, polls |-> FALSE, starts |-> FALSE]

\* A deployment whose schedules are changed in every other way.
Changing ==
  [deployments |-> <<1, None, None>>, schedulers |-> {"main", "recent"},
   edits |-> {"update", "replace", "delete", "patch schedule", "delete schedule"}, most |-> 1,
   intervals |-> {1, 2}, fails |-> FALSE, polls |-> FALSE, starts |-> FALSE]

\* Runs are started, early or late, while the deployment is updated.
Starting ==
  [deployments |-> <<1, None, None>>, schedulers |-> {"main"},
   edits |-> {"update"}, most |-> 2, intervals |-> {},
   fails |-> FALSE, polls |-> FALSE, starts |-> TRUE]

\* The main scheduler meets errors, with two deployments on one page, which are updated
\* once.
Failing ==
  [deployments |-> <<2, 1, None>>, schedulers |-> {"main"}, edits |-> {"update"}, most |-> 1,
   intervals |-> {}, fails |-> TRUE, polls |-> FALSE, starts |-> FALSE]

\* It meets errors, with three deployments on two pages.
Paging ==
  [deployments |-> <<2, 2, 2>>, schedulers |-> {"main"}, edits |-> {}, most |-> 0,
   intervals |-> {}, fails |-> TRUE, polls |-> FALSE, starts |-> FALSE]

\* A deployment that gets another schedule beside one that is made meanwhile.
Growing ==
  [deployments |-> <<2, None, None>>, schedulers |-> {"main", "recent"},
   edits |-> {"create", "add schedule"}, most |-> 1, intervals |-> {0, 1},
   fails |-> FALSE, polls |-> TRUE, starts |-> FALSE]

MCWorlds == {Racing, Changing, Starting, Failing, Paging, Growing}
=============================================================================
