------------------------- MODULE MCFlowRunSessions -------------------------
(***************************************************************************)
(* Instances of FlowRunSessions for TLC: runs that are paused and          *)
(* suspended with a timeout, and whoever looks after them.                 *)
(***************************************************************************)
EXTENDS FlowRunSessions

MCInitialStates == {Scheduled("Default", "past")}

MCProposals ==
  {Plain(t) : t \in {"PENDING", "RUNNING", "CANCELLING", "CANCELLED"}}
  \cup {Paused(k, "future", b) : k \in Keys \cup {None}, b \in BOOLEAN}

MCLimits == {None, 0, 1}
=============================================================================
