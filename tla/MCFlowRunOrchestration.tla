----------------------- MODULE MCFlowRunOrchestration -----------------------
(***************************************************************************)
(* An instance of FlowRunOrchestration for TLC: the life of a run, under   *)
(* any proposals.                                                          *)
(***************************************************************************)
EXTENDS FlowRunOrchestration

\* The states the API and the run_deployment client create.
MCInitialStates == {Scheduled("Default", "past")}

\* Every proposal, pauses with and without a key and a timeout,
\* requests that carry a transition id, results that are persisted or not.
MCLifeProposals ==
  {Plain(t) : t \in StateTypes \ {"SCHEDULED", "PAUSED"}}
  \cup {Scheduled("Default", t) : t \in {"past", "future"}}
  \cup {[Plain(t) EXCEPT !.transition_id = id] :
          t \in {"PENDING", "RUNNING"}, id \in TransitionIds}
  \cup {Paused(k, t, b) : k \in Keys \cup {None}, t \in {None, "future"},
                          b \in BOOLEAN}
  \cup {[Plain("COMPLETED") EXCEPT !.persisted = TRUE]}

MCLifeLimits == {1}
=============================================================================
