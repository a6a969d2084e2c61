----------------------------- MODULE MCTransactions -----------------------------
(***************************************************************************)
(* Instances of Transactions for TLC.                                      *)
(***************************************************************************)
EXTENDS Transactions, TLC

CONSTANTS a, b, t1, t2

Plan(key, tasks) == [outer |-> key, tasks |-> tasks]

\* Keys in one order, the outer transaction's first: threads that take them in another
\* wait for each other.
MCOrderedPlans ==
  {t1 :> Plan(None, <<a, b>>) @@ t2 :> Plan(None, <<a>>)}
    \cup {t1 :> Plan(a, <<b>>) @@ t2 :> Plan(None, <<k>>) : k \in {a, b}}
    \cup {t1 :> Plan(a, <<b>>) @@ t2 :> Plan(a, <<>>)}
MCModes ==
  {[t \in Threads |-> "LAZY"], t1 :> "OFF" @@ t2 :> "EAGER"}
MCLazy == {[t \in Threads |-> "LAZY"]}
MCOnePlan == {[t \in Threads |-> Plan(None, <<a>>)]}

\* With two threads and no retry no thread comes back to a lock in memory.
MCRetries == [m \in Managers |-> IF m = "files" THEN 1 ELSE 0]
MCOneRetry == [m \in Managers |-> 1]
=============================================================================
