------------------------------ MODULE Transactions ------------------------------
(***************************************************************************)
(* The transactions of prefect.transactions at isolation level             *)
(* SERIALIZABLE, and the lock managers of prefect.locking.  Each thread    *)
(* enters a transaction, with a key or without, and runs tasks in it, one  *)
(* after the other, each in a transaction of its own that has the task's   *)
(* cache key; results are written when the outer transaction commits.      *)
(* Threads share the records and the locks.                                *)
(***************************************************************************)
EXTENDS Integers, Sequences, FiniteSets

CONSTANTS
  Threads,
  Keys,
  Plans,      \* what the threads may do: for each, the key of its outer transaction,
              \* None if it has none, and the keys of its tasks in order
  Managers,   \* the lock managers: "files" (FileSystemLockManager), "memory"
  Retries,    \* Retries[m]: the retries of a task where the manager is m
  Modes,      \* the commit modes of the threads' outer transactions, which those
              \* of their tasks inherit
  Failures,   \* what fails: "body", "write", "rollback_hook", "crash"
  None

ASSUME TransactionsAssumption ==
  /\ \A p \in Plans :
       /\ p \in [Threads -> [outer : Keys \cup {None}, tasks : Seq(Keys)]]
       /\ \A t \in Threads : LET keys == p[t].tasks
                            IN  \A i, j \in 1..Len(keys) :
                                  keys[i] # p[t].outer /\ (keys[i] = keys[j] => i = j)
  /\ Managers \subseteq {"files", "memory"}
  /\ Retries \in [Managers -> Nat]
  /\ Modes \subseteq [Threads -> {"LAZY", "EAGER", "OFF"}]
  /\ Failures \subseteq {"body", "write", "rollback_hook", "crash"}
  /\ None \notin Keys \cup [holder : Threads, lock : {"empty", "written"}]

VARIABLES
  manager,   \* the lock manager of this system
  mode,      \* the commit mode of each thread's transactions
  entry,     \* per key, what the manager knows of its lock: holder and lock object
  taken,     \* memory: the lock objects that are locked
  awaited,   \* memory: the lock object each thread waits for
  store,     \* per key, how often its record was written
  pc,        \* where each thread is
  todo,      \* the keys of the tasks it has not finished
  tries,     \* the retries its current task has left
  outer,     \* its outer transaction
  current,   \* the transaction of its current task
  children,  \* those its outer transaction is responsible for
  next       \* the child that a commit or rollback in progress comes to next; 0: none

lockVars == <<manager, mode, entry, taken, awaited>>
nestVars == <<store, outer, current, children, next>>
vars == <<manager, mode, entry, taken, awaited, store, pc, todo, tries, outer, current,
          children, next>>

\* The lock objects of MemoryLockManager: each thread is behind at most two.
LockObjects == 1..(2 * Cardinality(Threads) + Cardinality(Keys))

\* The content of a lock file: nothing, between its creation and the write.
FileContents == {"empty", "written"}

Final == {"COMMITTED", "ROLLED_BACK"}

Init ==
  /\ manager \in Managers
  /\ mode \in Modes
  /\ entry = [k \in Keys |-> None]
  /\ taken = {}
  /\ awaited = [t \in Threads |-> None]
  /\ store = [k \in Keys |-> 0]
  /\ \E p \in Plans :
       /\ todo = [t \in Threads |-> p[t].tasks]
       /\ outer = [t \in Threads |->
            [key |-> p[t].outer, state |-> IF p[t].outer = None THEN "ACTIVE" ELSE "PENDING",
             open |-> FALSE, notes |-> {}]]
       /\ pc = [t \in Threads |-> IF p[t].outer = None THEN "outer" ELSE "entering"]
  /\ tries = [t \in Threads |-> Retries[manager]]
  /\ current = [t \in Threads |-> None]
  /\ children = [t \in Threads |-> <<>>]
  /\ next = [t \in Threads |-> 0]

\* The key of the transaction that t is in, or enters next.
Key(t) == IF outer[t].state = "PENDING" THEN outer[t].key ELSE Head(todo[t])
Go(t, place) == pc' = [pc EXCEPT ![t] = place]

-----------------------------------------------------------------------------
(* The locks.  A holder is a thread: generate_default_holder.              *)

HoldsLock(t, k) == entry[k] # None /\ entry[k].holder = t

\* A variant that forgets the lock in memory without releasing it, for
\* WaitersProceed.
ReleaseLockMutant(t, k) ==
  IF HoldsLock(t, k)
    THEN entry' = [entry EXCEPT ![k] = None] /\ UNCHANGED taken
    ELSE UNCHANGED <<entry, taken>>

\* release_lock, which raises if the lock is not held by t.
ReleaseLock(t, k) ==
  IF HoldsLock(t, k)
    THEN /\ entry' = [entry EXCEPT ![k] = None]
         /\ taken' = taken \ {entry[k].lock}
    ELSE UNCHANGED <<entry, taken>>

\* t enters its outer transaction, the transaction of its next task, or that of its
\* current one again.
Acquiring(t) == pc[t] = "entering" \/ (pc[t] \in {"outer", "retrying"} /\ todo[t] # <<>>)

\* A variant that takes a lock file without content for a free one, for
\* OneOpenTransaction.
CreateLockFileMutant(t) ==
  /\ manager = "files" /\ Acquiring(t)
  /\ entry[Key(t)] = None \/ HoldsLock(t, Key(t)) \/ (entry[Key(t)] # None /\ entry[Key(t)].lock = "empty")
  /\ entry' = [entry EXCEPT ![Key(t)] = [holder |-> t, lock |-> "empty"]]
  /\ Go(t, "writing")
  /\ UNCHANGED <<manager, mode, taken, awaited, todo, tries, nestVars>>

\* FileSystemLockManager.acquire_lock waits while the file names somebody else;
\* touch(exist_ok=False) decides who creates it.
CreateLockFile(t) ==
  /\ manager = "files" /\ Acquiring(t)
  /\ entry[Key(t)] = None \/ HoldsLock(t, Key(t))
  /\ entry' = [entry EXCEPT ![Key(t)] = [holder |-> t, lock |-> "empty"]]
  /\ Go(t, "writing")
  /\ UNCHANGED <<manager, mode, taken, awaited, todo, tries, nestVars>>

WriteLockFile(t) ==
  /\ pc[t] = "writing"
  /\ entry' = [entry EXCEPT ![Key(t)].lock = "written"]
  /\ Go(t, "begin")
  /\ UNCHANGED <<manager, mode, taken, awaited, todo, tries, nestVars>>

\* Whoever reads the file before it is written cannot parse it and raises.
ReadEmptyLockFile(t) ==
  /\ manager = "files" /\ Acquiring(t)
  /\ entry[Key(t)] # None /\ ~HoldsLock(t, Key(t)) /\ entry[Key(t)].lock = "empty"
  /\ Go(t, IF pc[t] = "entering" THEN "done" ELSE "failed")
  /\ UNCHANGED <<lockVars, todo, tries, nestVars>>

FreshLocks ==
  LockObjects \ ({entry[k].lock : k \in {j \in Keys : entry[j] # None}}
                   \cup {awaited[t] : t \in Threads})

\* MemoryLockManager.acquire_lock, under the lock of its dictionary.
LookUpLock(t) ==
  /\ manager = "memory" /\ Acquiring(t)
  /\ IF entry[Key(t)] = None
       THEN LET l == CHOOSE l \in FreshLocks : \A m \in FreshLocks : l <= m
            IN  /\ entry' = [entry EXCEPT ![Key(t)] = [holder |-> t, lock |-> l]]
                /\ taken' = taken \cup {l}
                /\ Go(t, "begin") /\ UNCHANGED awaited
       ELSE /\ IF HoldsLock(t, Key(t))
                 THEN Go(t, "begin") /\ UNCHANGED awaited
                 ELSE /\ awaited' = [awaited EXCEPT ![t] = entry[Key(t)].lock]
                      /\ Go(t, "waiting")
            /\ UNCHANGED <<entry, taken>>
  /\ UNCHANGED <<manager, mode, todo, tries, nestVars>>

\* existing_lock_info["lock"].acquire(), outside of the dictionary's lock.
TakeLock(t) ==
  /\ pc[t] = "waiting" /\ awaited[t] \notin taken
  /\ taken' = taken \cup {awaited[t]}
  /\ Go(t, "registering")
  /\ UNCHANGED <<manager, mode, entry, awaited, todo, tries, nestVars>>

\* The entry is written whatever has become of it in the meantime.
RegisterLock(t) ==
  /\ pc[t] = "registering"
  /\ entry' = [entry EXCEPT ![Key(t)] = [holder |-> t, lock |-> awaited[t]]]
  /\ awaited' = [awaited EXCEPT ![t] = None]
  /\ Go(t, "begin")
  /\ UNCHANGED <<manager, mode, taken, todo, tries, nestVars>>

AcquireLock(t) ==
  \/ CreateLockFile(t) \/ WriteLockFile(t) \/ ReadEmptyLockFile(t)
  \/ LookUpLock(t) \/ TakeLock(t) \/ RegisterLock(t)

-----------------------------------------------------------------------------
(* A task and its transaction.                                             *)

\* A variant that does not look for a record, for RecordWrittenOnce.
BegunMutant(k) == [key |-> k, state |-> "ACTIVE", open |-> TRUE, notes |-> {}]

\* begin: under the lock, a record that exists commits the transaction.  A
\* transaction is open until it gives its lock back.  The notes are for the
\* properties: the record was there already; the outer transaction had been rolled
\* back; it had given its lock back, and was committed again.
Begun(k) ==
  LET cached == store[k] > 0
  IN  [key |-> k, state |-> IF cached THEN "COMMITTED" ELSE "ACTIVE", open |-> TRUE,
       notes |-> IF cached THEN {"cached"} ELSE {}]

BeginOuter(t) ==
  /\ pc[t] = "begin" /\ outer[t].state = "PENDING"
  /\ outer' = [outer EXCEPT ![t] = Begun(Key(t))]
  /\ Go(t, "outer")
  /\ UNCHANGED <<lockVars, store, todo, tries, current, children, next>>

Begin(t) ==
  /\ pc[t] = "begin" /\ outer[t].state # "PENDING"
  /\ current' = [current EXCEPT ![t] =
       [Begun(Key(t)) EXCEPT !.notes =
          @ \cup (IF outer[t].state = "ROLLED_BACK" THEN {"late"} ELSE {})]]
  /\ Go(t, "body")
  /\ UNCHANGED <<lockVars, store, todo, tries, outer, children, next>>

Finished(c, state) == [c EXCEPT !.state = state, !.open = FALSE]

\* The commit comes to a transaction that gave its lock back before.
Again(c) == IF c.open \/ c.key = None THEN c ELSE [c EXCEPT !.notes = @ \cup {"again"}]

\* commit: what it makes of a child.  Hooks and the write may raise; it then
\* rolls itself back, and the rollback's hooks may raise in turn.
CommitResults(c) ==
  IF c.state \in Final
    THEN {Finished(Again(c), c.state)}
    ELSE {Finished(Again(c), "COMMITTED")}
           \cup (IF "write" \in Failures THEN {Finished(Again(c), "ROLLED_BACK")} ELSE {})
           \cup (IF {"write", "rollback_hook"} \subseteq Failures
                   THEN {Finished(Again(c), c.state)} ELSE {})

\* rollback: nothing at all if the child is committed or rolled back already.
RollbackResults(c) ==
  IF c.state \in Final
    THEN {c}
    ELSE {Finished(c, "ROLLED_BACK")}
           \cup (IF c.state = "STAGED" /\ "rollback_hook" \in Failures
                   THEN {Finished(c, c.state)} ELSE {})

Written(c, d) ==
  IF c.state \notin Final /\ d.state = "COMMITTED"
    THEN [store EXCEPT ![c.key] = @ + 1] ELSE store

\* What follows a rollback of the outer transaction is the place after.
AfterRollback == [rolling_back |-> "outer", rolling_back_failed |-> "failed",
                  rolling_back_done |-> "done"]
RollingBack(after) == CHOOSE p \in DOMAIN AfterRollback : AfterRollback[p] = after

\* rollback of the outer transaction: its own hooks first, which it has if it was
\* staged; if one raises, it keeps its state and no child is rolled back.  Otherwise
\* its children are, from the n-th to the first.
RollBackFrom(t, n, after) ==
  /\ Go(t, RollingBack(after))
  /\ \/ /\ outer' = [outer EXCEPT ![t].state = "ROLLED_BACK"]
        /\ next' = [next EXCEPT ![t] = n]
     \/ /\ outer[t].state = "STAGED" /\ "rollback_hook" \in Failures
        /\ next' = [next EXCEPT ![t] = 0]
        /\ UNCHANGED outer

\* reset: the outer transaction takes responsibility, and is rolled back if the
\* child was; that passes over this child itself.
Reset(t, c, after) ==
  /\ children' = [children EXCEPT ![t] = Append(@, c)]
  /\ current' = [current EXCEPT ![t] = None]
  /\ IF c.state = "ROLLED_BACK" /\ outer[t].state \notin Final
       THEN RollBackFrom(t, Len(children[t]), after)
       ELSE Go(t, after) /\ UNCHANGED <<outer, next>>

Done(t) ==
  /\ todo' = [todo EXCEPT ![t] = Tail(@)]
  /\ tries' = [tries EXCEPT ![t] = Retries[manager]]

\* The task returns; its transaction stages the result and exits.
Succeed(t) ==
  LET c == current[t]
      staged == IF c.state = "COMMITTED" THEN c ELSE [c EXCEPT !.state = "STAGED"]
  IN  /\ pc[t] = "body"
      /\ IF mode[t] = "EAGER"
           THEN \E d \in CommitResults(staged) :
                  /\ store' = Written(staged, d)
                  /\ ReleaseLock(t, c.key)
                  /\ Reset(t, d, "outer")
           ELSE /\ Reset(t, staged, "outer")
                /\ UNCHANGED <<store, entry, taken>>
      /\ Done(t)
      /\ UNCHANGED <<manager, mode, awaited>>

\* The task raises: __exit__ rolls the transaction back, before the engine
\* decides whether to try again.  A task that was found cached does not run, and
\* its record can be read.
Raise(t) ==
  /\ "body" \in Failures /\ pc[t] = "body" /\ current[t].state = "ACTIVE"
  /\ Reset(t, Finished(current[t], "ROLLED_BACK"), "failed")
  /\ ReleaseLock(t, current[t].key)
  /\ UNCHANGED <<manager, mode, awaited, store, todo, tries>>

\* handle_retry: the task runs again, within the same outer transaction.
Retry(t) ==
  /\ pc[t] = "failed" /\ tries[t] > 0
  /\ tries' = [tries EXCEPT ![t] = @ - 1]
  /\ Go(t, "retrying")
  /\ UNCHANGED <<lockVars, todo, nestVars>>

\* The failed task's exception is not raised, or is caught within the block.
Swallow(t) ==
  /\ pc[t] = "failed" /\ tries[t] = 0
  /\ Done(t)
  /\ Go(t, "outer")
  /\ UNCHANGED <<lockVars, nestVars>>

-----------------------------------------------------------------------------
(* The outer transaction.                                                  *)

\* stage, at the end of the block, as handle_success does for a task whose body has
\* called the others.  It overwrites the state of a transaction that was rolled back.
Stage(t) ==
  /\ pc[t] = "outer" /\ todo[t] = <<>> /\ outer[t].state \in {"ACTIVE", "ROLLED_BACK"}
  /\ outer' = [outer EXCEPT ![t].state = "STAGED"]
  /\ UNCHANGED <<lockVars, store, pc, todo, tries, current, children, next>>

\* __exit__ with an exception, and in mode OFF.
RollBackOuter(t) ==
  IF outer[t].state \in Final
    THEN Go(t, "done") /\ UNCHANGED <<outer, next>>
    ELSE RollBackFrom(t, Len(children[t]), "done")

\* The block ends with an exception.
ExitWithError(t) ==
  /\ "body" \in Failures
  /\ pc[t] = "outer" \/ (pc[t] = "failed" /\ tries[t] = 0)
  /\ RollBackOuter(t)
  /\ UNCHANGED <<lockVars, store, todo, tries, current, children>>

\* A variant that gives the lock back only if the hooks did not raise, for
\* LocksStranded.
RollBackChildMutant(t) ==
  /\ pc[t] \in DOMAIN AfterRollback /\ next[t] > 0
  /\ LET c == children[t][next[t]]
     IN  \E d \in RollbackResults(c) :
           /\ children' = [children EXCEPT ![t][next[t]] = d]
           /\ IF c.state \notin Final /\ d.state = "ROLLED_BACK"
                THEN ReleaseLock(t, d.key) ELSE UNCHANGED <<entry, taken>>
           /\ next' = [next EXCEPT ![t] =
                IF c.state \in Final \/ HoldsLock(t, c.key) THEN @ - 1 ELSE 0]
  /\ UNCHANGED <<manager, mode, awaited, store, pc, todo, tries, outer, current>>

\* rollback: the children in reverse order; the lock is given back in the finally
\* clause, which a child that is committed or rolled back does not reach.  If that
\* raises, the rollback of the outer transaction passes over the other children.
RollBackChild(t) ==
  /\ pc[t] \in DOMAIN AfterRollback /\ next[t] > 0
  /\ LET c == children[t][next[t]]
     IN  /\ \E d \in RollbackResults(c) :
              children' = [children EXCEPT ![t][next[t]] = d]
         /\ IF c.state \in Final
              THEN UNCHANGED <<entry, taken>> ELSE ReleaseLock(t, c.key)
         /\ next' = [next EXCEPT ![t] =
              IF c.state \in Final \/ HoldsLock(t, c.key) THEN @ - 1 ELSE 0]
  /\ UNCHANGED <<manager, mode, awaited, store, pc, todo, tries, outer, current>>

\* The outer transaction gives its lock back, if it has a key.  If it did so before,
\* release_lock raises, where the thread leaves the transaction anyway.
CloseOuter(t, o, state) ==
  /\ outer' = [outer EXCEPT ![t] = Finished(o, state)]
  /\ IF outer[t].open
       THEN ReleaseLock(t, outer[t].key) ELSE UNCHANGED <<entry, taken>>

\* rollback: the finally clause of the outer transaction.
EndRollBack(t) ==
  /\ pc[t] \in DOMAIN AfterRollback /\ next[t] = 0
  /\ CloseOuter(t, outer[t], outer[t].state)
  /\ Go(t, AfterRollback[pc[t]])
  /\ UNCHANGED <<manager, mode, awaited, store, todo, tries, current, children, next>>

StartCommit(t) ==
  /\ next' = [next EXCEPT ![t] = 1]
  /\ Go(t, "committing")
  /\ UNCHANGED <<entry, taken, outer>>

\* A variant that commits a transaction that was rolled back, for RollbackIsTotal.
ExitMutant(t) ==
  /\ pc[t] = "outer" /\ todo[t] = <<>>
  /\ StartCommit(t)
  /\ UNCHANGED <<manager, mode, awaited, store, todo, tries, current, children>>

\* __exit__ without an exception: nobody has taken responsibility for the outer
\* transaction.  commit of a transaction that was rolled back, or found cached, only
\* gives its lock back.  A block that finds its transaction committed may return.
Exit(t) ==
  /\ pc[t] = "outer" /\ (todo[t] = <<>> \/ outer[t].state = "COMMITTED")
  /\ \/ /\ mode[t] = "OFF"
        /\ RollBackOuter(t)
        /\ UNCHANGED <<entry, taken>>
     \/ /\ mode[t] # "OFF" /\ outer[t].state \in Final
        /\ CloseOuter(t, outer[t], outer[t].state)
        /\ Go(t, "done")
        /\ UNCHANGED next
     \/ /\ mode[t] # "OFF" /\ outer[t].state \notin Final
        /\ StartCommit(t)
  /\ UNCHANGED <<manager, mode, awaited, store, todo, tries, current, children>>

\* An exception ends the commit: the outer transaction is rolled back, with all its
\* children.
FailCommit(t) == RollBackFrom(t, Len(children[t]), "done")

\* commit of one child, in order.  Two releases are not guarded by try and reach the
\* outer transaction where they raise: that of a child that was committed or rolled
\* back before, and that of a child whose commit fails.
CommitChild(t) ==
  /\ pc[t] = "committing" /\ next[t] <= Len(children[t])
  /\ LET c == children[t][next[t]]
     IN  IF c.state \in Final /\ ~HoldsLock(t, c.key)
           THEN /\ FailCommit(t)
                /\ UNCHANGED <<entry, taken, store, children>>
           ELSE \E d \in CommitResults(c) :
                  /\ children' = [children EXCEPT ![t][next[t]] = d]
                  /\ store' = Written(c, d)
                  /\ ReleaseLock(t, c.key)
                  /\ IF d.state # "COMMITTED" /\ ~HoldsLock(t, c.key)
                       THEN FailCommit(t)
                       ELSE next' = [next EXCEPT ![t] = @ + 1] /\ UNCHANGED <<pc, outer>>
  /\ UNCHANGED <<manager, mode, awaited, todo, tries, current>>

\* The children are committed.  The outer transaction runs its own hooks and writes
\* its own record; if that raises it is rolled back, and the children stay written.
EndCommit(t) ==
  /\ pc[t] = "committing" /\ next[t] > Len(children[t])
  /\ \/ /\ CloseOuter(t, Again(outer[t]), "COMMITTED")
        /\ store' = IF outer[t].key = None
                      THEN store ELSE [store EXCEPT ![outer[t].key] = @ + 1]
        /\ Go(t, "done")
        /\ UNCHANGED next
     \/ /\ "write" \in Failures
        /\ outer[t].key # None \/ outer[t].state = "STAGED"
        /\ FailCommit(t)
        /\ UNCHANGED <<entry, taken, store>>
  /\ UNCHANGED <<manager, mode, awaited, todo, tries, current, children>>

\* A process dies; its lock files stay.  Threads with locks in memory are of one
\* process, and die with them.
Crash(t) ==
  /\ "crash" \in Failures /\ manager = "files"
  /\ pc[t] \notin {"done", "crashed"}
  /\ Go(t, "crashed")
  /\ UNCHANGED <<lockVars, todo, tries, nestVars>>

Step(t) ==
  \/ AcquireLock(t) \/ BeginOuter(t) \/ Begin(t) \/ Succeed(t) \/ Raise(t) \/ Retry(t)
  \/ Swallow(t) \/ Stage(t) \/ ExitWithError(t) \/ RollBackChild(t) \/ EndRollBack(t)
  \/ Exit(t) \/ CommitChild(t) \/ EndCommit(t)

Next == \E t \in Threads : Step(t) \/ Crash(t)

Spec == Init /\ [][Next]_vars

\* Threads keep running until they crash.
FairSpec == Spec /\ \A t \in Threads : WF_vars(Step(t))

-----------------------------------------------------------------------------
(* Properties.                                                             *)

Places == {"entering", "outer", "retrying", "writing", "waiting", "registering", "begin",
           "body", "failed", "committing", "done", "crashed"}
            \cup DOMAIN AfterRollback

Notes == SUBSET {"cached", "late", "again"}
Child == [key : Keys, state : {"ACTIVE", "STAGED"} \cup Final, open : BOOLEAN, notes : Notes]
Outer == [key : Keys \cup {None}, state : {"PENDING", "ACTIVE", "STAGED"} \cup Final,
          open : BOOLEAN, notes : Notes]

\* Every variable keeps its type; TransactionsProofs proves it for every instance.
TypeOK ==
  /\ manager \in Managers
  /\ mode \in Modes
  /\ LET locks == IF manager = "files" THEN FileContents ELSE LockObjects
     IN  entry \in [Keys -> [holder : Threads, lock : locks] \cup {None}]
  /\ taken \subseteq LockObjects
  /\ awaited \in [Threads -> LockObjects \cup {None}]
  /\ store \in [Keys -> Nat]
  /\ pc \in [Threads -> Places]
  /\ todo \in [Threads -> Seq(Keys)]
  /\ tries \in [Threads -> Nat]
  /\ outer \in [Threads -> Outer]
  /\ current \in [Threads -> Child \cup {None}]
  /\ children \in [Threads -> Seq(Child)]
  /\ next \in [Threads -> Nat]

Elements(s) == {s[i] : i \in 1..Len(s)}

\* The keys of the transactions that t has begun and not completed.
OpenKeys(t) ==
  {c.key : c \in {d \in Elements(children[t]) \cup {outer[t]} : d.open}}
    \cup (IF pc[t] \in {"begin", "body"} THEN {Key(t)} ELSE {})

\* A transaction of k was committed after it had given its lock back.
CommittedAgain(k) ==
  \E t \in Threads : \E c \in Elements(children[t]) \cup {outer[t]} :
    c.key = k /\ "again" \in c.notes

\* At isolation level SERIALIZABLE a transaction prevents others with its key from
\* starting until it has completed, with the record's commit put off to the end of
\* the outer transaction: two threads never have open transactions of one key
\* (acquire_lock, begin, commit, rollback).  The exception is a transaction that was
\* rolled back and staged again after a task was retried in it: its commit comes to
\* the failed attempt first, and gives back the lock of the second.
OneOpenTransaction ==
  \A t, u \in Threads : t # u =>
    \A k \in OpenKeys(t) \cap OpenKeys(u) : CommittedAgain(k)

\* However often the tasks of a key run, fail, are retried and found cached, their
\* record is written once: begin looks for it under the lock, and the lock is kept
\* until it is written.  The exceptions are committed after they gave the lock back: an
\* eager commit whose write and whose rollback hook both raise stays staged, and the
\* outer transaction commits it again; a transaction that was rolled back is staged.
RecordWrittenOnce ==
  \A k \in Keys : store[k] <= 1 \/ CommittedAgain(k)

\* The children of t whose commit has written their records.
Saved(t) ==
  {i \in 1..Len(children[t]) :
     children[t][i].state = "COMMITTED" /\ "cached" \notin children[t][i].notes}

\* Unless a task committed eagerly, a transaction that is rolled back before its commit
\* has written nothing of what was staged in it, and none is written as long as it is
\* rolled back (Transaction.rollback, Transaction.commit, Transaction.reset).  A
\* commit that fails half way, or at its end, rolls back what it has not written.
RollbackIsTotal ==
  [][\A t \in Threads :
       mode[t] # "EAGER" /\ outer'[t].state = "ROLLED_BACK" =>
         /\ Saved(t)' \subseteq Saved(t)
         /\ outer[t].state = "ROLLED_BACK" \/ pc[t] = "committing" \/ Saved(t)' = {}]_vars

\* A thread that has left its outer transaction has given back its locks, unless the
\* outer transaction was found cached, its rollback hook raised, or it was rolled back:
\* then the lock is that of a task that was found cached, which rollback passes over,
\* or that began after it.
LocksStranded ==
  \A t \in Threads, k \in Keys :
    pc[t] = "done" /\ HoldsLock(t, k) =>
      \/ "cached" \in outer[t].notes
      \/ outer[t].state = "STAGED"
      \/ /\ outer[t].state = "ROLLED_BACK"
         /\ \E c \in Elements(children[t]) : c.key = k /\ c.open /\ c.notes # {}

Waiting(t, k) == (Acquiring(t) \/ pc[t] = "waiting") /\ Key(t) = k
Stranded(k) == \E t \in Threads : pc[t] \in {"done", "crashed"} /\ HoldsLock(t, k)

\* Whoever waits for a lock gets it or an error, unless its holder has crashed or
\* left without giving it back: tasks that take their keys in one order do not
\* wait for each other in a circle.
WaitersProceed ==
  \A t \in Threads, k \in Keys : Waiting(t, k) ~> ~Waiting(t, k) \/ Stranded(k)

=============================================================================
