--------------------------- MODULE TransactionsProofs ---------------------------
(***************************************************************************)
(* Transactions with lock files: whatever the number of threads, keys,     *)
(* tasks and retries, two threads have no open transactions of one key,    *)
(* what was rolled back was not written, a record is written once, and     *)
(* locks are given back.                                                   *)
(***************************************************************************)
EXTENDS Transactions, SequenceTheorems, TLAPS

-----------------------------------------------------------------------------
(* Sequences.                                                              *)

LEMMA AppendIs ==
  ASSUME NEW S, NEW s \in Seq(S), NEW e \in S
  PROVE  /\ Append(s, e) \in Seq(S) /\ Len(Append(s, e)) = Len(s) + 1 /\ Len(s) \in Nat
         /\ Append(s, e)[Len(s) + 1] = e
         /\ \A i \in 1..Len(s) : Append(s, e)[i] = s[i]
BY AppendProperties, LenProperties

LEMMA TailIs ==
  ASSUME NEW S, NEW s \in Seq(S), s # <<>>
  PROVE  /\ Tail(s) \in Seq(S) /\ Len(Tail(s)) = Len(s) - 1 /\ Len(s) \in Nat \ {0}
         /\ Head(s) \in S /\ Head(s) = s[1]
         /\ \A i \in 1..(Len(s) - 1) : Tail(s)[i] = s[i + 1]
<1>1. /\ Head(s) \in S /\ Tail(s) \in Seq(S) /\ Len(Tail(s)) = Len(s) - 1
      /\ \A i \in 1..Len(Tail(s)) : Tail(s)[i] = s[i + 1]
  BY HeadTailProperties
<1>2. Len(s) \in Nat \ {0} /\ Head(s) = s[1]
  BY EmptySeq, LenProperties
<1> QED BY <1>1, <1>2

LEMMA ExceptIs ==
  ASSUME NEW S, NEW s \in Seq(S), NEW n \in 1..Len(s), NEW e \in S
  PROVE  /\ [s EXCEPT ![n] = e] \in Seq(S) /\ Len([s EXCEPT ![n] = e]) = Len(s)
         /\ Len(s) \in Nat /\ [s EXCEPT ![n] = e][n] = e
         /\ \A i \in 1..Len(s) : i # n => [s EXCEPT ![n] = e][i] = s[i]
<1>1. Len(s) \in Nat /\ s \in [1..Len(s) -> S]
  BY LenProperties
<1>2. [s EXCEPT ![n] = e] \in [1..Len(s) -> S]
  BY <1>1
<1>3. [s EXCEPT ![n] = e] \in Seq(S) /\ Len([s EXCEPT ![n] = e]) = Len(s)
  BY <1>1, <1>2, IsASeq, LenProperties
<1> QED BY <1>1, <1>3

LEMMA ChildKeys ==
  ASSUME NEW s \in Seq(Child)
  PROVE  \A i \in 1..Len(s) : s[i] \in Child /\ s[i].key \in Keys
<1>1. \A i \in 1..Len(s) : s[i] \in Child
  BY ElementOfSeq
<1> QED BY <1>1 DEF Child

-----------------------------------------------------------------------------
(* The keys of a thread's tasks.                                           *)

\* The transaction of a task that failed and was tried again.
Withdrawn(c) == c.state = "ROLLED_BACK" /\ ~c.open

\* The tasks of a thread have different keys; only one that failed runs again.
KeysFine(s, q) ==
  /\ \A i, j \in 1..Len(q) : q[i] = q[j] => i = j
  /\ \A i \in 1..Len(s), j \in 1..Len(q) : s[i].key = q[j] => j = 1 /\ Withdrawn(s[i])
  /\ \A i, j \in 1..Len(s) : i < j /\ s[i].key = s[j].key => Withdrawn(s[i])

LEMMA KeysTail ==
  ASSUME NEW s \in Seq(Child), NEW q \in Seq(Keys), KeysFine(s, q), q # <<>>
  PROVE  KeysFine(s, Tail(q))
<1>1. PICK p, n : p = Tail(q) /\ n = Len(q)
  OBVIOUS
<1>2. /\ n \in Nat \ {0} /\ Len(p) = n - 1
      /\ \A i \in 1..(n - 1) : p[i] = q[i + 1]
  BY <1>1, TailIs
<1>3. \A i \in 1..(n - 1) : i + 1 \in 1..n /\ i + 1 # 1
  BY <1>2
<1>4. \A i, j \in 1..Len(p) : p[i] = p[j] => i = j
  BY <1>1, <1>2, <1>3 DEF KeysFine
<1>5. \A i \in 1..Len(s), j \in 1..Len(p) : s[i].key # p[j]
  BY <1>1, <1>2, <1>3 DEF KeysFine
<1> QED BY <1>1, <1>4, <1>5 DEF KeysFine

\* The current task's transaction joins those that are finished.
LEMMA KeysAppend ==
  ASSUME NEW s \in Seq(Child), NEW q \in Seq(Keys), KeysFine(s, q), q # <<>>,
         NEW c \in Child, c.key = Head(q)
  PROVE  /\ Withdrawn(c) => KeysFine(Append(s, c), q)
         /\ KeysFine(Append(s, c), Tail(q))
<1>1. PICK r, m, n, p : r = Append(s, c) /\ m = Len(s) /\ n = Len(q) /\ p = Tail(q)
  OBVIOUS
<1>2. /\ m \in Nat /\ Len(r) = m + 1 /\ r[m + 1] = c /\ \A i \in 1..m : r[i] = s[i]
  BY <1>1, AppendIs
<1>3. n \in Nat \ {0} /\ c.key = q[1] /\ 1 \in 1..n
  BY <1>1, TailIs
<1>4. \A i \in 1..(m + 1) : i = m + 1 \/ (i \in 1..m /\ r[i] = s[i])
  BY <1>2
<1>5. \A i, j \in 1..(m + 1) : i < j => i \in 1..m
  BY <1>2
<1>6. \A i, j \in 1..Len(r) : i < j /\ r[i].key = r[j].key => Withdrawn(r[i])
  <2> SUFFICES ASSUME NEW i \in 1..(m + 1), NEW j \in 1..(m + 1), i < j, r[i].key = r[j].key
               PROVE  Withdrawn(r[i])
    BY <1>2
  <2>1. i \in 1..m /\ r[i] = s[i]
    BY <1>2, <1>5
  <2>2. CASE j \in 1..m
    BY <1>1, <1>2, <2>1, <2>2 DEF KeysFine
  <2>3. CASE j = m + 1
    BY <1>1, <1>2, <1>3, <2>1, <2>3 DEF KeysFine
  <2> QED BY <1>4, <2>2, <2>3
<1>7. ASSUME Withdrawn(c)
      PROVE  KeysFine(r, q)
  <2>1. \A i \in 1..Len(r), j \in 1..Len(q) : r[i].key = q[j] => j = 1 /\ Withdrawn(r[i])
    BY <1>1, <1>2, <1>3, <1>4, <1>7 DEF KeysFine
  <2> QED BY <1>6, <2>1 DEF KeysFine
<1>8. KeysFine(r, p)
  <2>1. /\ Len(p) = n - 1 /\ \A i \in 1..(n - 1) : p[i] = q[i + 1]
        /\ \A i \in 1..(n - 1) : i + 1 \in 1..n /\ i + 1 # 1
    BY <1>1, <1>3, TailIs
  <2>2. KeysFine(s, p)
    BY <1>1, KeysTail
  <2>3. \A j \in 1..Len(p) : c.key # p[j]
    BY <1>1, <1>3, <2>1 DEF KeysFine
  <2>4. \A i \in 1..Len(r), j \in 1..Len(p) : r[i].key = p[j] => j = 1 /\ Withdrawn(r[i])
    BY <1>1, <1>2, <1>4, <2>2, <2>3 DEF KeysFine
  <2> QED BY <1>6, <2>2, <2>4 DEF KeysFine
<1> QED BY <1>1, <1>7, <1>8

LEMMA KeysExcept ==
  ASSUME NEW s \in Seq(Child), NEW q, KeysFine(s, q), NEW n \in 1..Len(s), NEW d \in Child,
         d.key = s[n].key, Withdrawn(s[n]) => Withdrawn(d)
  PROVE  KeysFine([s EXCEPT ![n] = d], q)
<1>1. PICK r : r = [s EXCEPT ![n] = d]
  OBVIOUS
<1>2. Len(r) = Len(s) /\ r[n] = d /\ \A i \in 1..Len(s) : i # n => r[i] = s[i]
  BY <1>1, ExceptIs
<1>3. \A i \in 1..Len(s) : r[i].key = s[i].key /\ (Withdrawn(s[i]) => Withdrawn(r[i]))
  BY <1>2
<1> QED BY <1>1, <1>2, <1>3 DEF KeysFine

-----------------------------------------------------------------------------
(* The invariant.                                                          *)

Entry == [holder : Threads, lock : FileContents] \cup {None}

\* With files nobody waits for a lock object.
Types ==
  /\ manager = "files" /\ manager \in Managers /\ taken = {}
  /\ awaited = [t \in Threads |-> None]
  /\ mode \in Modes
  /\ entry \in [Keys -> Entry]
  /\ store \in [Keys -> Nat]
  /\ pc \in [Threads -> Places \ {"waiting", "registering"}]
  /\ todo \in [Threads -> Seq(Keys)] /\ tries \in [Threads -> Nat]
  /\ outer \in [Threads -> Outer]
  /\ current \in [Threads -> Child \cup {None}]
  /\ children \in [Threads -> Seq(Child)] /\ next \in [Threads -> Nat]

\* A thread that is about to begin a transaction, or has begun it, has its lock.
TaskFine(t) ==
  /\ pc[t] \in {"retrying", "body", "failed", "rolling_back_failed"} => todo[t] # <<>>
  /\ pc[t] \in {"writing", "begin"} => outer[t].state = "PENDING" \/ todo[t] # <<>>
  /\ pc[t] \in {"writing", "begin", "body"} => HoldsLock(t, Key(t))
  /\ pc[t] = "body" =>
       /\ current[t] \in Child /\ current[t].key = Key(t) /\ current[t].open
       /\ current[t].state \in {"ACTIVE", "COMMITTED"}
       /\ current[t].state = "COMMITTED" => "cached" \in current[t].notes

\* A commit gave back the lock of k with a failed attempt of the task.
Lost(t, k) ==
  \E i \in 1..Len(children[t]) : children[t][i].key = k /\ "again" \in children[t][i].notes

LocksFine(t) ==
  \A i \in 1..Len(children[t]) :
    children[t][i].open => HoldsLock(t, children[t][i].key) \/ Lost(t, children[t][i].key)

\* The outer transaction's key is none of its tasks'; it keeps its lock.
OwnKey(t) ==
  /\ \A i \in 1..Len(children[t]) : children[t][i].key # outer[t].key
  /\ \A i \in 1..Len(todo[t]) : todo[t][i] # outer[t].key
  /\ outer[t].open => outer[t].key \in Keys /\ HoldsLock(t, outer[t].key)

Busy(t) == pc[t] \notin {"committing", "rolling_back_done", "crashed", "done"}

\* Before the outer transaction commits, only what was found cached is committed.
OuterFine(t) ==
  /\ Busy(t) /\ mode[t] # "EAGER" =>
       \A i \in 1..Len(children[t]) :
         children[t][i].state = "COMMITTED" => "cached" \in children[t][i].notes
  /\ pc[t] = "entering" => outer[t].state = "PENDING"
  /\ outer[t].state = "PENDING" =>
       pc[t] \in {"entering", "writing", "begin", "done", "crashed"} /\ outer[t].key \in Keys
  /\ pc[t] = "committing" =>
       outer[t].state \in {"ACTIVE", "STAGED"} /\ next[t] \in 1..(Len(children[t]) + 1)
  /\ pc[t] \in DOMAIN AfterRollback => next[t] \in 0..Len(children[t])

ThreadFine(t) ==
  /\ TaskFine(t) /\ KeysFine(children[t], todo[t])
  /\ LocksFine(t) /\ OwnKey(t) /\ OuterFine(t)

Inv == Types /\ \A t \in Threads : ThreadFine(t)

LEMMA AfterIs ==
  /\ DOMAIN AfterRollback = {"rolling_back", "rolling_back_failed", "rolling_back_done"}
  /\ AfterRollback["rolling_back"] = "outer"
  /\ AfterRollback["rolling_back_failed"] = "failed"
  /\ AfterRollback["rolling_back_done"] = "done"
BY DEF AfterRollback

LEMMA RollingBackIs ==
  /\ RollingBack("outer") = "rolling_back"
  /\ RollingBack("failed") = "rolling_back_failed"
  /\ RollingBack("done") = "rolling_back_done"
<1>1. \A p \in DOMAIN AfterRollback : AfterRollback[p] = "outer" <=> p = "rolling_back"
  BY AfterIs
<1>2. \A p \in DOMAIN AfterRollback : AfterRollback[p] = "failed" <=> p = "rolling_back_failed"
  BY AfterIs
<1>3. \A p \in DOMAIN AfterRollback : AfterRollback[p] = "done" <=> p = "rolling_back_done"
  BY AfterIs
<1> QED BY <1>1, <1>2, <1>3, AfterIs DEF RollingBack

LEMMA InvInit == Managers = {"files"} /\ Init => Inv
<1> SUFFICES ASSUME Managers = {"files"}, Init PROVE Inv
  OBVIOUS
<1>1. PICK p \in Plans :
        /\ todo = [t \in Threads |-> p[t].tasks]
        /\ outer = [t \in Threads |->
             [key |-> p[t].outer, state |-> IF p[t].outer = None THEN "ACTIVE" ELSE "PENDING",
              open |-> FALSE, notes |-> {}]]
        /\ pc = [t \in Threads |-> IF p[t].outer = None THEN "outer" ELSE "entering"]
  BY DEF Init
<1>2. /\ p \in [Threads -> [outer : Keys \cup {None}, tasks : Seq(Keys)]]
      /\ \A t \in Threads : \A i, j \in 1..Len(p[t].tasks) :
           p[t].tasks[i] # p[t].outer /\ (p[t].tasks[i] = p[t].tasks[j] => i = j)
  BY <1>1, TransactionsAssumption
<1>3. Types
  <2>1. todo \in [Threads -> Seq(Keys)]
    BY <1>1, <1>2
  <2>2. outer \in [Threads -> Outer]
    BY <1>1, <1>2 DEF Outer, Notes
  <2>3. pc \in [Threads -> Places \ {"waiting", "registering"}]
    BY <1>1 DEF Places
  <2>4. Retries[manager] \in Nat /\ manager = "files"
    BY TransactionsAssumption DEF Init
  <2>5. <<>> \in Seq(Child)
    OBVIOUS
  <2> QED BY <2>1, <2>2, <2>3, <2>4, <2>5 DEF Init, Types, Entry
<1>4. ASSUME NEW t \in Threads
      PROVE  ThreadFine(t)
  <2>1. /\ pc[t] \in {"outer", "entering"} /\ children[t] = <<>> /\ ~outer[t].open
        /\ outer[t].key = p[t].outer /\ todo[t] = p[t].tasks
        /\ outer[t].state \in {"ACTIVE", "PENDING"}
        /\ (pc[t] = "entering" <=> outer[t].state = "PENDING")
        /\ (outer[t].state = "PENDING" => outer[t].key # None)
    BY <1>1 DEF Init
  <2>2. outer[t].key \in Keys \cup {None}
    BY <1>2, <2>1
  <2>3. \A i \in 1..Len(children[t]) : FALSE
    BY <2>1
  <2>4. TaskFine(t) /\ LocksFine(t)
    BY <2>1, <2>3 DEF TaskFine, LocksFine
  <2>5. KeysFine(children[t], todo[t]) /\ OwnKey(t)
    BY <1>2, <2>1, <2>3 DEF KeysFine, OwnKey
  <2>6. OuterFine(t)
    BY <2>1, <2>2, <2>3, AfterIs DEF OuterFine
  <2> QED BY <2>4, <2>5, <2>6 DEF ThreadFine
<1> QED BY <1>3, <1>4 DEF Inv

-----------------------------------------------------------------------------
(* What a step of one thread leaves alone.                                 *)

\* The step is one of t, and takes no lock from another thread.
OnlyBy(t) ==
  /\ mode' = mode
  /\ \A u \in Threads \ {t} :
       /\ pc'[u] = pc[u] /\ todo'[u] = todo[u] /\ outer'[u] = outer[u] /\ next'[u] = next[u]
       /\ current'[u] = current[u] /\ children'[u] = children[u]
       /\ \A k \in Keys : HoldsLock(u, k) => HoldsLock(u, k)'

\* The key of a transaction that t is entering, or has begun.
LEMMA KeyIs ==
  ASSUME Inv, NEW t \in Threads
  PROVE  /\ outer[t].state # "PENDING" => Key(t) = Head(todo[t])
         /\ Acquiring(t) \/ pc[t] \in {"writing", "begin", "body"} =>
              Key(t) \in Keys /\ (outer[t].state = "PENDING" \/ todo[t] # <<>>)
         /\ pc[t] = "body" => outer[t].state # "PENDING" /\ todo[t] # <<>>
<1>1. TaskFine(t) /\ OuterFine(t) /\ todo[t] \in Seq(Keys)
  BY DEF Inv, Types, ThreadFine
<1>2. todo[t] # <<>> => Head(todo[t]) \in Keys
  BY <1>1, TailIs
<1> QED BY <1>1, <1>2 DEF Key, Acquiring, TaskFine, OuterFine

LEMMA OthersStay ==
  ASSUME Inv, NEW t \in Threads, OnlyBy(t), NEW u \in Threads \ {t}
  PROVE  ThreadFine(u)'
<1>1. ThreadFine(u) /\ children[u] \in Seq(Child) /\ todo[u] \in Seq(Keys)
  BY DEF Inv, Types
<1>2. /\ pc'[u] = pc[u] /\ todo'[u] = todo[u] /\ outer'[u] = outer[u] /\ next'[u] = next[u]
      /\ current'[u] = current[u] /\ children'[u] = children[u] /\ mode'[u] = mode[u]
  BY DEF OnlyBy
<1>3. \A k \in Keys : HoldsLock(u, k) => HoldsLock(u, k)'
  BY DEF OnlyBy
<1>4. TaskFine(u)'
  <2>1. Key(u)' = Key(u) /\ (pc[u] \in {"writing", "begin", "body"} => Key(u) \in Keys)
    BY <1>2, KeyIs DEF Key
  <2> QED BY <1>1, <1>2, <1>3, <2>1 DEF ThreadFine, TaskFine
<1>5. LocksFine(u)'
  <2>1. \A i \in 1..Len(children[u]) : children[u][i].key \in Keys
    BY <1>1, ChildKeys
  <2> QED BY <1>1, <1>2, <1>3, <2>1 DEF ThreadFine, LocksFine, Lost
<1>6. OwnKey(u)' /\ OuterFine(u)'
  BY <1>1, <1>2, <1>3 DEF ThreadFine, OwnKey, OuterFine, Busy
<1> QED BY <1>1, <1>2, <1>4, <1>5, <1>6 DEF ThreadFine

LEMMA StepKeeps ==
  ASSUME Inv, NEW t \in Threads, OnlyBy(t), Types', ThreadFine(t)'
  PROVE  Inv'
BY OthersStay DEF Inv

LEMMA ReleaseIs ==
  ASSUME Types, NEW t \in Threads, NEW k \in Keys, ReleaseLock(t, k)
  PROVE  /\ entry' \in [Keys -> Entry] /\ taken' = {}
         /\ \A u \in Threads, j \in Keys :
              HoldsLock(u, j) => HoldsLock(u, j)' \/ (u = t /\ j = k)
<1>1. CASE HoldsLock(t, k)
  BY <1>1 DEF ReleaseLock, Types, HoldsLock, Entry
<1>2. CASE ~HoldsLock(t, k)
  BY <1>2 DEF ReleaseLock, Types, HoldsLock
<1> QED BY <1>1, <1>2

-----------------------------------------------------------------------------
(* Locks.                                                                  *)

LEMMA AcquireKeeps ==
  ASSUME Inv, NEW t \in Threads, AcquireLock(t)
  PROVE  Inv'
<1> USE DEF lockVars, nestVars
<1>1. Types /\ ThreadFine(t) /\ todo[t] \in Seq(Keys)
  BY DEF Inv, Types
<1>2. Acquiring(t) \/ pc[t] = "writing" =>
        Key(t) \in Keys /\ (outer[t].state = "PENDING" \/ todo[t] # <<>>)
  BY KeyIs
<1>3. ASSUME NEW place \in {"writing", "begin"}, Go(t, place), NEW e \in Entry,
             entry' = [entry EXCEPT ![Key(t)] = e], e # None /\ e.holder = t,
             entry[Key(t)] = None \/ HoldsLock(t, Key(t)), Key(t) \in Keys,
             outer[t].state = "PENDING" \/ todo[t] # <<>>,
             Busy(t), pc[t] \notin DOMAIN AfterRollback,
             UNCHANGED <<manager, mode, taken, awaited, todo, tries, nestVars>>
      PROVE  Inv'
  <2>1. Types'
    BY <1>1, <1>3 DEF Types, Go, Places
  <2>2. \A u \in Threads, k \in Keys : HoldsLock(u, k) => HoldsLock(u, k)'
    BY <1>1, <1>3 DEF Types, HoldsLock
  <2>3. OnlyBy(t)
    BY <1>1, <1>3, <2>2 DEF OnlyBy, Types, Go
  <2>4. pc'[t] = place /\ Busy(t)' /\ place \notin DOMAIN AfterRollback
    BY <1>1, <1>3, AfterIs DEF Types, Go, Busy
  <2>5. HoldsLock(t, Key(t))'
    BY <1>1, <1>3 DEF Types, HoldsLock, Key
  <2>6. TaskFine(t)'
    BY <1>3, <2>4, <2>5 DEF TaskFine
  <2>7. LocksFine(t)'
    <3>1. \A i \in 1..Len(children[t]) : children[t][i].key \in Keys
      BY <1>1, ChildKeys DEF Types
    <3> QED BY <1>1, <1>3, <2>2, <3>1 DEF ThreadFine, LocksFine, Lost
  <2>8. OuterFine(t)'
    BY <1>1, <1>3, <2>4 DEF ThreadFine, OuterFine, Busy
  <2>9. KeysFine(children[t], todo[t])' /\ OwnKey(t)'
    BY <1>1, <1>3, <2>2 DEF ThreadFine, OwnKey
  <2> QED BY <2>1, <2>3, <2>6, <2>7, <2>8, <2>9, StepKeeps DEF ThreadFine
<1>4. CASE CreateLockFile(t)
  <2>1. [holder |-> t, lock |-> "empty"] \in Entry /\ [holder |-> t, lock |-> "empty"] # None
    BY TransactionsAssumption DEF Entry, FileContents
  <2> QED BY <1>2, <1>3, <1>4, <2>1, AfterIs DEF CreateLockFile, Acquiring, Busy
<1>5. CASE WriteLockFile(t)
  <2>1. HoldsLock(t, Key(t)) /\ Key(t) \in Keys
    BY <1>1, <1>2, <1>5 DEF WriteLockFile, ThreadFine, TaskFine
  <2>2. PICK k, e : k = Key(t) /\ e = [entry[k] EXCEPT !.lock = "written"]
    OBVIOUS
  <2>3. entry[k] \in [holder : Threads, lock : FileContents] /\ entry[k].holder = t
    BY <1>1, <2>1, <2>2 DEF Types, Entry, HoldsLock
  <2>4. e \in [holder : Threads, lock : {"empty", "written"}] /\ e.holder = t
    BY <2>2, <2>3 DEF FileContents
  <2>5. e \in Entry /\ e # None /\ e.holder = t
    BY <2>4, TransactionsAssumption DEF Entry, FileContents
  <2>6. entry' = [entry EXCEPT ![Key(t)] = e]
    BY <1>5, <2>2 DEF WriteLockFile
  <2> QED BY <1>2, <1>3, <1>5, <2>1, <2>5, <2>6, AfterIs DEF WriteLockFile, Busy
<1>6. CASE ReadEmptyLockFile(t)
  <2>1. PICK p : /\ pc' = [pc EXCEPT ![t] = p] /\ Busy(t)
                 /\ UNCHANGED <<manager, mode, entry, taken, awaited, store, todo, tries, outer, current, children, next>>
                 /\ \/ p = "done" /\ outer[t].state = "PENDING"
                    \/ p = "failed" /\ todo[t] # <<>> /\ outer[t].state # "PENDING"
    BY <1>1, <1>6 DEF ReadEmptyLockFile, Go, Acquiring, Busy, ThreadFine, OuterFine
  <2>2. Types'
    BY <1>1, <2>1 DEF Types, Places
  <2>3. OnlyBy(t)
    BY <1>1, <2>1 DEF OnlyBy, Types, HoldsLock
  <2>4. pc'[t] = p
    BY <1>1, <2>1 DEF Types
  <2>5. ThreadFine(t)'
    BY <1>1, <2>1, <2>4, AfterIs DEF ThreadFine, TaskFine, LocksFine, Lost, OwnKey, OuterFine, Busy, HoldsLock
  <2> QED BY <2>2, <2>3, <2>5, StepKeeps
<1>7. ~LookUpLock(t) /\ ~TakeLock(t) /\ ~RegisterLock(t)
  BY <1>1 DEF Types, LookUpLock, TakeLock, RegisterLock
<1> QED BY <1>4, <1>5, <1>6, <1>7 DEF AcquireLock

-----------------------------------------------------------------------------
(* Tasks.                                                                  *)

\* The values that a commit or a rollback gives a transaction.
LEMMA FinishedIs ==
  ASSUME NEW c \in Child, NEW s \in {"ACTIVE", "STAGED"} \cup Final
  PROVE  /\ Finished(c, s) \in Child /\ Finished(c, s).key = c.key
         /\ Finished(c, s).state = s /\ ~Finished(c, s).open
         /\ Finished(c, s).notes = c.notes
BY DEF Child, Finished

LEMMA AgainIs ==
  ASSUME NEW c \in Child
  PROVE  /\ Again(c) \in Child /\ Again(c).key = c.key /\ Again(c).state = c.state
         /\ Again(c).open = c.open /\ c.notes \subseteq Again(c).notes
         /\ ~c.open => "again" \in Again(c).notes
<1>1. c.key # None
  BY TransactionsAssumption DEF Child
<1>2. CASE c.open
  BY <1>2 DEF Again
<1>3. CASE ~c.open
  <2>1. Again(c) = [c EXCEPT !.notes = c.notes \cup {"again"}]
    BY <1>1, <1>3 DEF Again
  <2> QED BY <2>1 DEF Child, Notes
<1> QED BY <1>2, <1>3

LEMMA CommitIs ==
  ASSUME NEW c \in Child, NEW d \in CommitResults(c)
  PROVE  /\ d \in Child /\ d.key = c.key /\ ~d.open /\ c.notes \subseteq d.notes
         /\ c.state \in Final => d.state = c.state
         /\ d.state \in {c.state} \cup Final
         /\ ~c.open => "again" \in d.notes
<1>1. PICK e : e = Again(c)
  OBVIOUS
<1>2. /\ e \in Child /\ e.key = c.key /\ e.state = c.state /\ c.notes \subseteq e.notes
      /\ ~c.open => "again" \in e.notes
  BY <1>1, AgainIs
<1>3. c.state \in {"ACTIVE", "STAGED"} \cup Final
  BY DEF Child
<1>4. \/ d = Finished(e, c.state)
      \/ c.state \notin Final /\ d \in {Finished(e, "COMMITTED"), Finished(e, "ROLLED_BACK")}
  BY <1>1 DEF CommitResults
<1> QED BY <1>2, <1>3, <1>4, FinishedIs DEF Final

LEMMA RollbackIs ==
  ASSUME NEW c \in Child, NEW d \in RollbackResults(c)
  PROVE  /\ d \in Child /\ d.key = c.key /\ d.notes = c.notes
         /\ d.state \in {c.state} \cup Final
         /\ c.state \in Final => d = c
         /\ c.state \notin Final => ~d.open /\ d.state # "COMMITTED"
<1>1. c.state \in {"ACTIVE", "STAGED"} \cup Final
  BY DEF Child
<1>2. \/ c.state \in Final /\ d = c
      \/ c.state \notin Final /\ d \in {Finished(c, c.state), Finished(c, "ROLLED_BACK")}
  BY DEF RollbackResults
<1> QED BY <1>1, <1>2, FinishedIs DEF Final

LEMMA WrittenIs ==
  ASSUME Types, NEW c \in Child, NEW d
  PROVE  Written(c, d) \in [Keys -> Nat]
BY DEF Types, Child, Written

\* A transaction that begins.
LEMMA BegunIs ==
  ASSUME Types, NEW k \in Keys
  PROVE  /\ Begun(k) \in Child /\ Begun(k).key = k /\ Begun(k).open
         /\ Begun(k).state \in {"ACTIVE", "COMMITTED"}
         /\ Begun(k).state = "COMMITTED" => "cached" \in Begun(k).notes
         /\ Begun(k).state = "ACTIVE" => store[k] = 0
         /\ "again" \notin Begun(k).notes
<1>1. CASE store[k] > 0
  <2>1. Begun(k) = [key |-> k, state |-> "COMMITTED", open |-> TRUE, notes |-> {"cached"}]
    BY <1>1 DEF Begun
  <2> QED BY <2>1 DEF Child, Final, Notes
<1>2. CASE ~(store[k] > 0)
  <2>1. Begun(k) = [key |-> k, state |-> "ACTIVE", open |-> TRUE, notes |-> {}]
    BY <1>2 DEF Begun
  <2>2. store[k] = 0
    BY <1>2 DEF Types
  <2> QED BY <2>1, <2>2 DEF Child, Notes
<1> QED BY <1>1, <1>2

\* A rollback of the outer transaction begins: it is rolled back, or its hook raises.
LEMMA RollBackFromIs ==
  ASSUME Types, NEW t \in Threads, NEW n \in Nat, NEW after \in {"outer", "failed", "done"},
         RollBackFrom(t, n, after)
  PROVE  \E p \in DOMAIN AfterRollback, o \in Outer, m \in {0, n} :
           /\ AfterRollback[p] = after /\ pc' = [pc EXCEPT ![t] = p]
           /\ outer' = [outer EXCEPT ![t] = o] /\ next' = [next EXCEPT ![t] = m]
           /\ o.key = outer[t].key /\ o.open = outer[t].open /\ o.notes = outer[t].notes
           /\ \/ o.state = "ROLLED_BACK" /\ m = n
              \/ o = outer[t] /\ o.state = "STAGED" /\ m = 0
<1>1. outer[t] \in Outer
  BY DEF Types
<1>2. PICK p : p = RollingBack(after)
  OBVIOUS
<1>3. p \in DOMAIN AfterRollback /\ AfterRollback[p] = after /\ pc' = [pc EXCEPT ![t] = p]
  BY <1>2, AfterIs, RollingBackIs DEF RollBackFrom, Go
<1>4. CASE /\ outer' = [outer EXCEPT ![t].state = "ROLLED_BACK"]
           /\ next' = [next EXCEPT ![t] = n]
  <2>1. PICK o : o = [outer[t] EXCEPT !.state = "ROLLED_BACK"]
    OBVIOUS
  <2>2. /\ o \in Outer /\ o.key = outer[t].key /\ o.open = outer[t].open
        /\ o.notes = outer[t].notes /\ o.state = "ROLLED_BACK"
    BY <1>1, <2>1 DEF Outer, Final
  <2>3. outer' = [outer EXCEPT ![t] = o]
    BY <1>4, <2>1
  <2> QED BY <1>3, <1>4, <2>2, <2>3
<1>5. CASE /\ outer[t].state = "STAGED" /\ next' = [next EXCEPT ![t] = 0] /\ outer' = outer
  <2>1. outer' = [outer EXCEPT ![t] = outer[t]]
    BY <1>5 DEF Types
  <2> QED BY <1>1, <1>3, <1>5, <2>1
<1> QED BY <1>4, <1>5 DEF RollBackFrom

\* The outer transaction takes over c, and is rolled back if c was.
TakesOver(t, c, after) ==
  \E p \in {after} \cup DOMAIN AfterRollback, o \in Outer, m \in Nat :
    /\ pc' = [pc EXCEPT ![t] = p] /\ outer' = [outer EXCEPT ![t] = o]
    /\ next' = [next EXCEPT ![t] = m]
    /\ o.key = outer[t].key /\ o.open = outer[t].open /\ o.notes = outer[t].notes
    /\ \/ /\ p = after /\ o = outer[t] /\ m = next[t]
          /\ c.state = "ROLLED_BACK" => outer[t].state \in Final
       \/ /\ p \in DOMAIN AfterRollback /\ AfterRollback[p] = after
          /\ c.state = "ROLLED_BACK" /\ outer[t].state \notin Final
          /\ \/ o.state = "ROLLED_BACK" /\ m = Len(children[t])
             \/ o = outer[t] /\ o.state = "STAGED" /\ m = 0

LEMMA ResetIs ==
  ASSUME Types, NEW t \in Threads, NEW c, NEW after \in {"outer", "failed"}, Reset(t, c, after)
  PROVE  TakesOver(t, c, after)
<1>1. /\ outer[t] \in Outer /\ next[t] \in Nat /\ outer \in [Threads -> Outer]
      /\ next \in [Threads -> Nat] /\ children[t] \in Seq(Child)
  BY DEF Types
<1>2. PICK n : n = Len(children[t])
  OBVIOUS
<1>3. n \in Nat
  BY <1>1, <1>2, LenProperties
<1>4. CASE c.state = "ROLLED_BACK" /\ outer[t].state \notin Final
  <2>1. RollBackFrom(t, n, after)
    BY <1>2, <1>4 DEF Reset
  <2> HIDE <1>2
  <2>2. PICK p \in DOMAIN AfterRollback, o \in Outer, m \in {0, n} :
           /\ AfterRollback[p] = after /\ pc' = [pc EXCEPT ![t] = p]
           /\ outer' = [outer EXCEPT ![t] = o] /\ next' = [next EXCEPT ![t] = m]
           /\ o.key = outer[t].key /\ o.open = outer[t].open /\ o.notes = outer[t].notes
           /\ \/ o.state = "ROLLED_BACK" /\ m = n
              \/ o = outer[t] /\ o.state = "STAGED" /\ m = 0
    BY <1>3, <2>1, RollBackFromIs
  <2>3. m \in Nat
    BY <1>3
  <2> QED BY <1>2, <1>4, <2>2, <2>3 DEF TakesOver
<1>5. CASE ~(c.state = "ROLLED_BACK" /\ outer[t].state \notin Final)
  <2>1. pc' = [pc EXCEPT ![t] = after] /\ outer' = outer /\ next' = next
    BY <1>5 DEF Reset, Go
  <2>2. outer' = [outer EXCEPT ![t] = outer[t]] /\ next' = [next EXCEPT ![t] = next[t]]
    BY <1>1, <2>1
  <2> QED BY <1>1, <1>5, <2>1, <2>2 DEF TakesOver
<1> QED BY <1>4, <1>5

\* The current task's transaction c is over, and the outer one takes it over.
LEMMA ResetKeeps ==
  ASSUME Inv, NEW t \in Threads, pc[t] = "body", NEW c \in Child, c.key = Key(t),
         NEW after \in {"outer", "failed"}, Reset(t, c, after),
         UNCHANGED <<manager, mode, awaited>>,
         entry' \in [Keys -> Entry], taken' = {}, store' \in [Keys -> Nat],
         todo' \in [Threads -> Seq(Keys)], tries' \in [Threads -> Nat],
         \A u \in Threads \ {t} : todo'[u] = todo[u],
         after = "failed" => todo'[t] # <<>>,
         \A i \in 1..Len(todo'[t]) : todo'[t][i] # outer[t].key,
         KeysFine(Append(children[t], c), todo'[t]),
         c.state = "COMMITTED" => mode[t] = "EAGER" \/ "cached" \in c.notes,
         c.open => HoldsLock(t, c.key)',
         \A u \in Threads, k \in Keys :
           HoldsLock(u, k) => HoldsLock(u, k)' \/ (u = t /\ k = Key(t))
  PROVE  Inv'
<1>1. Types /\ ThreadFine(t) /\ children[t] \in Seq(Child) /\ todo[t] \in Seq(Keys)
  BY DEF Inv, Types
<1>2. PICK m, r : m = Len(children[t]) /\ r = Append(children[t], c)
  OBVIOUS
<1>3. /\ m \in Nat /\ r \in Seq(Child) /\ Len(r) = m + 1 /\ r[m + 1] = c
      /\ \A i \in 1..m : r[i] = children[t][i]
      /\ 1..m \subseteq 1..(m + 1)
  BY <1>1, <1>2, AppendIs
<1>4. \A i \in 1..(m + 1) : i = m + 1 \/ i \in 1..m
  BY <1>3
<1>5. children' = [children EXCEPT ![t] = r] /\ current' = [current EXCEPT ![t] = None]
  BY <1>2 DEF Reset
<1>6. /\ outer[t].state # "PENDING" /\ Key(t) = Head(todo[t]) /\ todo[t] # <<>> /\ Key(t) \in Keys
      /\ Key(t) = todo[t][1] /\ 1 \in 1..Len(todo[t]) /\ Key(t) # outer[t].key
  <2>1. outer[t].state # "PENDING" /\ Key(t) = Head(todo[t]) /\ todo[t] # <<>> /\ Key(t) \in Keys
    BY KeyIs
  <2>2. Key(t) = todo[t][1] /\ 1 \in 1..Len(todo[t])
    BY <1>1, <2>1, TailIs
  <2> QED BY <1>1, <2>1, <2>2 DEF ThreadFine, OwnKey
<1>20. TakesOver(t, c, after)
  BY <1>1, ResetIs
<1>7. PICK p \in {after} \cup DOMAIN AfterRollback, o \in Outer, n \in Nat :
        /\ pc' = [pc EXCEPT ![t] = p] /\ outer' = [outer EXCEPT ![t] = o]
        /\ next' = [next EXCEPT ![t] = n]
        /\ o.key = outer[t].key /\ o.open = outer[t].open /\ o.notes = outer[t].notes
        /\ \/ /\ p = after /\ o = outer[t] /\ n = next[t]
              /\ c.state = "ROLLED_BACK" => outer[t].state \in Final
           \/ /\ p \in DOMAIN AfterRollback /\ AfterRollback[p] = after
              /\ c.state = "ROLLED_BACK" /\ outer[t].state \notin Final
              /\ \/ o.state = "ROLLED_BACK" /\ n = m
                 \/ o = outer[t] /\ o.state = "STAGED" /\ n = 0
  BY <1>2, <1>20 DEF TakesOver
<1>8. /\ p \in {"outer", "failed", "rolling_back", "rolling_back_failed"}
      /\ (p = "rolling_back_failed" => after = "failed") /\ (p = "failed" => after = "failed")
      /\ (p \in DOMAIN AfterRollback => n \in {0, m})
  BY <1>7, AfterIs
<1>9. Types'
  <2>1. p \in Places \ {"waiting", "registering"}
    BY <1>8, AfterIs DEF Places
  <2> QED BY <1>1, <1>3, <1>5, <1>7, <2>1 DEF Types
<1>10. OnlyBy(t)
  BY <1>1, <1>5, <1>6, <1>7 DEF OnlyBy, Types
<1>11. /\ pc'[t] = p /\ children'[t] = r /\ mode'[t] = mode[t] /\ outer'[t] = o /\ next'[t] = n
       /\ o.state # "PENDING" /\ Busy(t)
  BY <1>1, <1>5, <1>6, <1>7 DEF Types, Busy
<1>12. TaskFine(t)'
  BY <1>8, <1>11 DEF TaskFine
<1>13. LocksFine(t)'
  <2>1. \A i \in 1..m : children[t][i].open => children[t][i].key # Key(t)
    BY <1>1, <1>2, <1>6 DEF ThreadFine, KeysFine, Withdrawn
  <2>2. \A k : Lost(t, k) => Lost(t, k)'
    BY <1>2, <1>3, <1>11 DEF Lost
  <2>3. ASSUME NEW i \in 1..m, r[i].open
        PROVE  HoldsLock(t, r[i].key)' \/ Lost(t, r[i].key)'
    <3>1. r[i] = children[t][i] /\ children[t][i].key \in Keys
      BY <1>1, <1>2, <1>3, ChildKeys
    <3>2. HoldsLock(t, children[t][i].key) \/ Lost(t, children[t][i].key)
      BY <1>1, <1>2, <2>3, <3>1 DEF ThreadFine, LocksFine
    <3> QED BY <2>1, <2>2, <2>3, <3>1, <3>2
  <2>4. ASSUME NEW i \in 1..(m + 1), r[i].open
        PROVE  HoldsLock(t, r[i].key)' \/ Lost(t, r[i].key)'
    BY <1>3, <1>4, <2>3, <2>4
  <2> QED BY <1>3, <1>11, <2>4 DEF LocksFine
<1>14. OwnKey(t)'
  <2>1. \A i \in 1..(m + 1) : r[i].key # o.key
    BY <1>1, <1>2, <1>3, <1>4, <1>6, <1>7 DEF ThreadFine, OwnKey
  <2>2. o.open => o.key \in Keys /\ HoldsLock(t, o.key)'
    BY <1>1, <1>6, <1>7 DEF ThreadFine, OwnKey
  <2> QED BY <1>3, <1>7, <1>11, <2>1, <2>2 DEF OwnKey
<1>15. OuterFine(t)'
  <2>1. mode[t] # "EAGER" => \A i \in 1..Len(r) : r[i].state = "COMMITTED" => "cached" \in r[i].notes
    BY <1>1, <1>2, <1>3, <1>4, <1>11 DEF ThreadFine, OuterFine
  <2>2. p \in DOMAIN AfterRollback => n \in 0..Len(r)
    BY <1>3, <1>8
  <2> QED BY <1>8, <1>11, <2>1, <2>2 DEF OuterFine
<1>16. KeysFine(children[t], todo[t])'
  BY <1>2, <1>11
<1> QED BY <1>9, <1>10, <1>12, <1>13, <1>14, <1>15, <1>16, StepKeeps DEF ThreadFine

LEMMA DoneIs ==
  ASSUME Types, NEW t \in Threads, todo[t] # <<>>, Done(t)
  PROVE  /\ todo' \in [Threads -> Seq(Keys)] /\ tries' \in [Threads -> Nat]
         /\ todo'[t] = Tail(todo[t]) /\ \A u \in Threads \ {t} : todo'[u] = todo[u]
         /\ \A i \in 1..Len(todo'[t]) : \E j \in 1..Len(todo[t]) : todo'[t][i] = todo[t][j]
<1>1. Tail(todo[t]) \in Seq(Keys) /\ Retries[manager] \in Nat
  <2>1. manager \in Managers
    BY DEF Types
  <2> QED BY <2>1, TailIs, TransactionsAssumption DEF Types
<1>2. todo' = [todo EXCEPT ![t] = Tail(todo[t])] /\ todo'[t] = Tail(todo[t])
  BY DEF Types, Done
<1>3. \A i \in 1..Len(Tail(todo[t])) : \E j \in 1..Len(todo[t]) : Tail(todo[t])[i] = todo[t][j]
  <2>1. PICK q, r, n : q = todo[t] /\ r = Tail(todo[t]) /\ n = Len(todo[t])
    OBVIOUS
  <2>2. n \in Nat \ {0} /\ Len(r) = n - 1 /\ \A i \in 1..(n - 1) : r[i] = q[i + 1]
    BY <2>1, TailIs DEF Types
  <2>3. \A i \in 1..(n - 1) : i + 1 \in 1..n
    BY <2>2
  <2> QED BY <2>1, <2>2, <2>3
<1> QED BY <1>1, <1>2, <1>3 DEF Types, Done


LEMMA TaskKeeps ==
  ASSUME Inv, NEW t \in Threads, Succeed(t) \/ Raise(t)
  PROVE  Inv'
<1>1. /\ Types /\ ThreadFine(t) /\ pc[t] = "body"
      /\ children[t] \in Seq(Child) /\ todo[t] \in Seq(Keys)
  BY DEF Inv, Types, Succeed, Raise
<1>2. PICK c : c = current[t]
  OBVIOUS
<1>3. /\ c \in Child /\ c.key = Key(t) /\ c.open /\ c.state \in {"ACTIVE", "COMMITTED"}
      /\ c.state = "COMMITTED" => "cached" \in c.notes
      /\ HoldsLock(t, Key(t)) /\ todo[t] # <<>>
  BY <1>1, <1>2 DEF ThreadFine, TaskFine
<1>4. Key(t) \in Keys /\ Key(t) = Head(todo[t])
  BY <1>1, KeyIs
<1>5. KeysFine(children[t], todo[t]) /\ \A i \in 1..Len(todo[t]) : todo[t][i] # outer[t].key
  BY <1>1 DEF ThreadFine, OwnKey
<1>6. CASE Raise(t)
  <2>1. PICK d : d = Finished(c, "ROLLED_BACK")
    OBVIOUS
  <2>2. d \in Child /\ d.key = c.key /\ d.state = "ROLLED_BACK" /\ ~d.open
    BY <1>3, <2>1, FinishedIs DEF Final
  <2>3. KeysFine(Append(children[t], d), todo[t])
    BY <1>1, <1>3, <1>4, <1>5, <2>2, KeysAppend DEF Withdrawn
  <2>4. /\ Reset(t, d, "failed") /\ ReleaseLock(t, Key(t))
        /\ UNCHANGED <<manager, mode, awaited, store, todo, tries>>
    BY <1>2, <1>3, <1>6, <2>1 DEF Raise
  <2>5. /\ entry' \in [Keys -> Entry] /\ taken' = {}
        /\ \A u \in Threads, j \in Keys :
             HoldsLock(u, j) => HoldsLock(u, j)' \/ (u = t /\ j = Key(t))
    BY <1>1, <1>4, <2>4, ReleaseIs
  <2>6. store' \in [Keys -> Nat] /\ todo' \in [Threads -> Seq(Keys)] /\ tries' \in [Threads -> Nat]
        /\ todo' = todo
    BY <1>1, <2>4 DEF Types
  <2>7. /\ todo'[t] # <<>> /\ KeysFine(Append(children[t], d), todo'[t]) /\ d.key = Key(t)
        /\ \A i \in 1..Len(todo'[t]) : todo'[t][i] # outer[t].key
        /\ \A u \in Threads \ {t} : todo'[u] = todo[u]
    BY <1>3, <1>5, <2>2, <2>3, <2>6
  <2>8. UNCHANGED <<manager, mode, awaited>>
    BY <2>4
  <2> QED BY <1>1, <2>2, <2>4, <2>5, <2>6, <2>7, <2>8, ResetKeeps
<1>7. ASSUME NEW d \in Child, d.key = c.key, Reset(t, d, "outer"), Done(t),
             UNCHANGED <<manager, mode, awaited>>, store' \in [Keys -> Nat],
             d.state = "COMMITTED" => mode[t] = "EAGER" \/ "cached" \in d.notes,
             \/ ReleaseLock(t, Key(t)) /\ ~d.open
             \/ UNCHANGED <<entry, taken>>
      PROVE  Inv'
  <2>1. KeysFine(Append(children[t], d), Tail(todo[t]))
    BY <1>1, <1>3, <1>4, <1>5, <1>7, KeysAppend
  <2>2. /\ entry' \in [Keys -> Entry] /\ taken' = {}
        /\ \A u \in Threads, j \in Keys :
             HoldsLock(u, j) => HoldsLock(u, j)' \/ (u = t /\ j = Key(t))
    <3>1. CASE ReleaseLock(t, Key(t))
      BY <1>1, <1>4, <3>1, ReleaseIs
    <3>2. CASE UNCHANGED <<entry, taken>>
      BY <1>1, <3>2 DEF Types, HoldsLock
    <3> QED BY <1>7, <3>1, <3>2
  <2>3. d.open => HoldsLock(t, d.key)'
    BY <1>3, <1>7 DEF HoldsLock
  <2>4. /\ todo' \in [Threads -> Seq(Keys)] /\ tries' \in [Threads -> Nat]
        /\ todo'[t] = Tail(todo[t]) /\ \A u \in Threads \ {t} : todo'[u] = todo[u]
        /\ \A i \in 1..Len(todo'[t]) : \E j \in 1..Len(todo[t]) : todo'[t][i] = todo[t][j]
    BY <1>1, <1>3, <1>7, DoneIs
  <2>5. \A i \in 1..Len(todo'[t]) : todo'[t][i] # outer[t].key
    BY <1>5, <2>4
  <2>6. KeysFine(Append(children[t], d), todo'[t]) /\ d.key = Key(t)
    BY <1>3, <1>7, <2>1, <2>4
  <2> QED BY <1>1, <1>7, <2>2, <2>3, <2>4, <2>5, <2>6, ResetKeeps
<1>8. CASE Succeed(t)
  <2>1. PICK s : s = IF c.state = "COMMITTED" THEN c ELSE [c EXCEPT !.state = "STAGED"]
    OBVIOUS
  <2>2. s \in Child /\ s.key = c.key /\ s.open /\ s.state \in {"STAGED", "COMMITTED"}
        /\ (s.state = "COMMITTED" => "cached" \in s.notes)
    BY <1>3, <2>1 DEF Child
  <2>3. Done(t) /\ UNCHANGED <<manager, mode, awaited>>
    BY <1>8 DEF Succeed
  <2>4. CASE mode[t] = "EAGER"
    <3>1. PICK d \in CommitResults(s) :
            store' = Written(s, d) /\ ReleaseLock(t, c.key) /\ Reset(t, d, "outer")
      BY <1>2, <1>8, <2>1, <2>4 DEF Succeed
    <3>2. d \in Child /\ d.key = c.key /\ ~d.open
      BY <2>2, <3>1, CommitIs
    <3>3. store' \in [Keys -> Nat]
      BY <1>1, <2>2, <3>1, WrittenIs
    <3> QED BY <1>3, <1>7, <2>3, <2>4, <3>1, <3>2, <3>3
  <2>5. CASE mode[t] # "EAGER"
    <3>1. Reset(t, s, "outer") /\ UNCHANGED <<store, entry, taken>>
      BY <1>2, <1>8, <2>1, <2>5 DEF Succeed
    <3>2. store' \in [Keys -> Nat]
      BY <1>1, <3>1 DEF Types
    <3> QED BY <1>7, <2>2, <2>3, <3>1, <3>2
  <2> QED BY <2>4, <2>5
<1> QED BY <1>6, <1>8

\* Steps of t that leave its children and their locks alone.
LEMMA QuietKeeps ==
  ASSUME Inv, NEW t \in Threads,
         BeginOuter(t) \/ Begin(t) \/ Retry(t) \/ Swallow(t) \/ Crash(t)
  PROVE  Inv'
<1> USE DEF lockVars, nestVars
<1>1. Types /\ ThreadFine(t) /\ todo[t] \in Seq(Keys) /\ outer[t] \in Outer
  BY DEF Inv, Types
<1>2. ASSUME NEW p \in {"body", "retrying", "outer", "crashed"}, pc' = [pc EXCEPT ![t] = p],
             NEW o \in Outer, outer' = [outer EXCEPT ![t] = o], o.key = outer[t].key,
             o.open => o.key \in Keys /\ HoldsLock(t, o.key),
             o.state = "PENDING" => o = outer[t] /\ p = "crashed",
             UNCHANGED <<manager, mode, entry, taken, awaited, store, children, next>>,
             todo' \in [Threads -> Seq(Keys)], tries' \in [Threads -> Nat],
             current' \in [Threads -> Child \cup {None}],
             \A u \in Threads \ {t} : todo'[u] = todo[u] /\ current'[u] = current[u],
             \A i \in 1..Len(todo'[t]) : todo'[t][i] # outer[t].key,
             KeysFine(children[t], todo'[t]), TaskFine(t)', Busy(t) \/ p = "crashed"
      PROVE  Inv'
  <2>1. Types'
    BY <1>1, <1>2 DEF Types, Places
  <2>2. OnlyBy(t)
    BY <1>1, <1>2 DEF OnlyBy, Types, HoldsLock
  <2>3. /\ pc'[t] = p /\ outer'[t] = o /\ p # "committing" /\ p # "entering"
        /\ p \notin DOMAIN AfterRollback /\ (Busy(t)' => Busy(t))
    BY <1>1, <1>2, AfterIs DEF Types, Busy
  <2>4. LocksFine(t)'
    BY <1>1, <1>2 DEF ThreadFine, LocksFine, HoldsLock, Lost
  <2>5. OwnKey(t)'
    BY <1>1, <1>2, <2>3 DEF ThreadFine, OwnKey, HoldsLock
  <2>6. OuterFine(t)'
    BY <1>1, <1>2, <2>3 DEF ThreadFine, OuterFine
  <2> QED BY <1>2, <2>1, <2>2, <2>4, <2>5, <2>6, StepKeeps DEF ThreadFine
<1>3. /\ KeysFine(children[t], todo[t])
      /\ \A i \in 1..Len(todo[t]) : todo[t][i] # outer[t].key
      /\ outer[t].open => outer[t].key \in Keys /\ HoldsLock(t, outer[t].key)
  BY <1>1 DEF Types, ThreadFine, OwnKey
<1>10. ASSUME NEW p \in {"body", "retrying", "outer", "crashed"}, pc' = [pc EXCEPT ![t] = p],
              outer' = outer, outer[t].state = "PENDING" => p = "crashed",
              UNCHANGED <<manager, mode, entry, taken, awaited, store, children, next>>,
              todo' \in [Threads -> Seq(Keys)], tries' \in [Threads -> Nat],
              current' \in [Threads -> Child \cup {None}],
              \A u \in Threads \ {t} : todo'[u] = todo[u] /\ current'[u] = current[u],
              \A i \in 1..Len(todo'[t]) : todo'[t][i] # outer[t].key,
              KeysFine(children[t], todo'[t]), TaskFine(t)', Busy(t) \/ p = "crashed"
       PROVE  Inv'
  <2>1. outer' = [outer EXCEPT ![t] = outer[t]]
    BY <1>1, <1>10 DEF Types
  <2>2. outer[t] \in Outer /\ (outer[t].open => outer[t].key \in Keys /\ HoldsLock(t, outer[t].key))
    BY <1>1, <1>3
  <2> QED BY <1>2, <1>10, <2>1, <2>2
<1>4. CASE BeginOuter(t)
  <2>1. /\ pc[t] = "begin" /\ outer[t].state = "PENDING" /\ Key(t) = outer[t].key
        /\ Key(t) \in Keys /\ HoldsLock(t, Key(t)) /\ pc' = [pc EXCEPT ![t] = "outer"]
        /\ UNCHANGED <<manager, mode, entry, taken, awaited, store, todo, tries, current, children, next>>
    BY <1>1, <1>4, KeyIs DEF BeginOuter, Key, ThreadFine, TaskFine, Go
  <2>2. PICK o : o = Begun(Key(t))
    OBVIOUS
  <2>3. /\ o \in Child /\ o.key = Key(t) /\ o.state \in {"ACTIVE", "COMMITTED"}
        /\ outer' = [outer EXCEPT ![t] = o]
    BY <1>1, <1>4, <2>1, <2>2, BegunIs DEF BeginOuter
  <2>4. o \in Outer
    BY <2>3 DEF Child, Outer
  <2>5. TaskFine(t)'
    BY <1>1, <2>1 DEF Types, TaskFine
  <2>6. /\ todo' \in [Threads -> Seq(Keys)] /\ tries' \in [Threads -> Nat]
        /\ current' \in [Threads -> Child \cup {None}] /\ Busy(t)
        /\ \A u \in Threads \ {t} : todo'[u] = todo[u] /\ current'[u] = current[u]
    BY <1>1, <2>1 DEF Types, Busy
  <2>7. /\ \A i \in 1..Len(todo'[t]) : todo'[t][i] # outer[t].key
        /\ KeysFine(children[t], todo'[t])
    BY <1>3, <2>1
  <2>8. /\ o.key = outer[t].key /\ o.key \in Keys /\ HoldsLock(t, o.key) /\ o.state # "PENDING"
        /\ UNCHANGED <<manager, mode, entry, taken, awaited, store, children, next>>
    BY <2>1, <2>3
  <2> QED BY <1>2, <2>1, <2>3, <2>4, <2>5, <2>6, <2>7, <2>8
<1>5. CASE Begin(t)
  <2>1. /\ pc[t] = "begin" /\ outer[t].state # "PENDING" /\ todo[t] # <<>>
        /\ Key(t) \in Keys /\ HoldsLock(t, Key(t)) /\ pc' = [pc EXCEPT ![t] = "body"]
        /\ UNCHANGED <<manager, mode, entry, taken, awaited, store, todo, tries, outer, children, next>>
    BY <1>1, <1>5, KeyIs DEF Begin, ThreadFine, TaskFine, Go
  <2>2. PICK b, c, late : /\ b = Begun(Key(t)) /\ late \in {{}, {"late"}}
                          /\ c = [b EXCEPT !.notes = b.notes \cup late]
                          /\ current' = [current EXCEPT ![t] = c]
    <3>1. PICK b, late : b = Begun(Key(t)) /\ late = IF outer[t].state = "ROLLED_BACK" THEN {"late"} ELSE {}
      OBVIOUS
    <3>2. current' = [current EXCEPT ![t] = [b EXCEPT !.notes = b.notes \cup late]]
      BY <1>5, <3>1 DEF Begin
    <3> QED BY <3>1, <3>2
  <2>3. /\ b \in Child /\ b.key = Key(t) /\ b.open /\ b.state \in {"ACTIVE", "COMMITTED"}
        /\ b.state = "COMMITTED" => "cached" \in b.notes
    BY <1>1, <2>1, <2>2, BegunIs
  <2>4. /\ c \in Child /\ c.key = Key(t) /\ c.open /\ c.state \in {"ACTIVE", "COMMITTED"}
        /\ c.state = "COMMITTED" => "cached" \in c.notes
    BY <2>2, <2>3 DEF Child, Notes
  <2>5. TaskFine(t)'
    <3>1. pc'[t] = "body" /\ current'[t] = c /\ todo'[t] # <<>> /\ Key(t)' = Key(t) /\ HoldsLock(t, Key(t))'
      BY <1>1, <2>1, <2>2 DEF Types, HoldsLock, Key
    <3> QED BY <2>4, <3>1 DEF TaskFine
  <2>6. /\ todo' \in [Threads -> Seq(Keys)] /\ tries' \in [Threads -> Nat]
        /\ current' \in [Threads -> Child \cup {None}] /\ Busy(t)
        /\ \A u \in Threads \ {t} : todo'[u] = todo[u] /\ current'[u] = current[u]
    BY <1>1, <2>1, <2>2, <2>4 DEF Types, Busy
  <2>7. /\ \A i \in 1..Len(todo'[t]) : todo'[t][i] # outer[t].key
        /\ KeysFine(children[t], todo'[t]) /\ outer' = outer
        /\ UNCHANGED <<manager, mode, entry, taken, awaited, store, children, next>>
    BY <1>3, <2>1
  <2> QED BY <1>10, <2>1, <2>5, <2>6, <2>7
<1>6. outer[t].state = "PENDING" => pc[t] \notin {"failed", "body", "outer"}
  BY <1>1 DEF ThreadFine, OuterFine
<1>7. CASE Retry(t)
  <2>1. /\ pc[t] = "failed" /\ pc' = [pc EXCEPT ![t] = "retrying"] /\ tries' \in [Threads -> Nat]
        /\ UNCHANGED <<manager, mode, entry, taken, awaited, store, todo, outer, current, children, next>>
    BY <1>1, <1>7 DEF Retry, Go, Types
  <2>2. TaskFine(t)'
    BY <1>1, <2>1 DEF Types, TaskFine, ThreadFine
  <2>3. /\ current' \in [Threads -> Child \cup {None}] /\ todo' \in [Threads -> Seq(Keys)] /\ Busy(t)
        /\ \A u \in Threads \ {t} : todo'[u] = todo[u] /\ current'[u] = current[u]
    BY <1>1, <2>1 DEF Types, Busy
  <2>4. /\ \A i \in 1..Len(todo'[t]) : todo'[t][i] # outer[t].key
        /\ KeysFine(children[t], todo'[t]) /\ outer' = outer
        /\ UNCHANGED <<manager, mode, entry, taken, awaited, store, children, next>>
    BY <1>3, <2>1
  <2> QED BY <1>6, <1>10, <2>1, <2>2, <2>3, <2>4
<1>8. CASE Swallow(t)
  <2>1. /\ pc[t] = "failed" /\ todo[t] # <<>> /\ Done(t) /\ pc' = [pc EXCEPT ![t] = "outer"]
        /\ UNCHANGED <<manager, mode, entry, taken, awaited, store, outer, current, children, next>>
    BY <1>1, <1>8 DEF Swallow, Go, ThreadFine, TaskFine
  <2>2. /\ todo' \in [Threads -> Seq(Keys)] /\ tries' \in [Threads -> Nat]
        /\ todo'[t] = Tail(todo[t]) /\ \A u \in Threads \ {t} : todo'[u] = todo[u]
        /\ \A i \in 1..Len(todo'[t]) : \E j \in 1..Len(todo[t]) : todo'[t][i] = todo[t][j]
    BY <1>1, <2>1, DoneIs
  <2>3. \A i \in 1..Len(todo'[t]) : todo'[t][i] # outer[t].key
    BY <1>3, <2>2
  <2>6. KeysFine(children[t], todo'[t])
    <3>1. KeysFine(children[t], Tail(todo[t]))
      BY <1>1, <1>3, <2>1, KeysTail DEF Types
    <3> QED BY <2>2, <3>1
  <2>7. /\ current' \in [Threads -> Child \cup {None}] /\ Busy(t) /\ outer' = outer
        /\ \A u \in Threads \ {t} : todo'[u] = todo[u] /\ current'[u] = current[u]
        /\ UNCHANGED <<manager, mode, entry, taken, awaited, store, children, next>>
    BY <1>1, <2>1, <2>2 DEF Types, Busy
  <2>4. pc'[t] = "outer"
    BY <1>1, <2>1 DEF Types
  <2>5. TaskFine(t)'
    BY <2>4 DEF TaskFine
  <2> QED BY <1>6, <1>10, <2>1, <2>2, <2>3, <2>5, <2>6, <2>7
<1>9. CASE Crash(t)
  <2>1. /\ pc' = [pc EXCEPT ![t] = "crashed"]
        /\ UNCHANGED <<manager, mode, entry, taken, awaited, store, todo, tries, outer, current, children, next>>
    BY <1>9 DEF Crash, Go
  <2>2. pc'[t] = "crashed"
    BY <1>1, <2>1 DEF Types
  <2>3. TaskFine(t)'
    BY <2>2 DEF TaskFine
  <2>4. current' \in [Threads -> Child \cup {None}] /\ todo' \in [Threads -> Seq(Keys)]
        /\ tries' \in [Threads -> Nat]
        /\ \A u \in Threads \ {t} : todo'[u] = todo[u] /\ current'[u] = current[u]
    BY <1>1, <2>1 DEF Types
  <2>5. /\ \A i \in 1..Len(todo'[t]) : todo'[t][i] # outer[t].key
        /\ KeysFine(children[t], todo'[t]) /\ outer' = outer
        /\ UNCHANGED <<manager, mode, entry, taken, awaited, store, children, next>>
    BY <1>3, <2>1
  <2> QED BY <1>10, <2>1, <2>3, <2>4, <2>5
<1> QED BY <1>4, <1>5, <1>7, <1>8, <1>9

-----------------------------------------------------------------------------
(* The outer transaction.                                                  *)

\* A step of the outer transaction that may give back its lock.
LEMMA OuterKeeps ==
  ASSUME Inv, NEW t \in Threads,
         NEW p \in {"outer", "failed", "committing", "done"} \cup DOMAIN AfterRollback,
         NEW o \in Outer, NEW n \in Nat, pc' = [pc EXCEPT ![t] = p],
         outer' = [outer EXCEPT ![t] = o], next' = [next EXCEPT ![t] = n],
         UNCHANGED <<manager, mode, awaited, todo, tries, current, children>>,
         store' \in [Keys -> Nat], o.key = outer[t].key, o.state # "PENDING",
         \/ o.open = outer[t].open /\ UNCHANGED <<entry, taken>>
         \/ ~o.open /\ IF outer[t].open
                         THEN ReleaseLock(t, outer[t].key) ELSE UNCHANGED <<entry, taken>>,
         p \in {"failed", "rolling_back_failed"} => todo[t] # <<>>,
         p \notin {"committing", "done", "rolling_back_done"} => Busy(t),
         p = "committing" =>
           o.state \in {"ACTIVE", "STAGED"} /\ n \in 1..(Len(children[t]) + 1),
         p \in DOMAIN AfterRollback => n \in 0..Len(children[t])
  PROVE  Inv'
<1>1. Types /\ ThreadFine(t) /\ children[t] \in Seq(Child)
  BY DEF Inv, Types
<1>2. /\ entry' \in [Keys -> Entry] /\ taken' = {}
      /\ \A u \in Threads, j \in Keys :
           HoldsLock(u, j) => HoldsLock(u, j)' \/ (u = t /\ j = outer[t].key /\ ~o.open)
  <2>1. CASE UNCHANGED <<entry, taken>>
    BY <1>1, <2>1 DEF Types, HoldsLock
  <2>2. CASE outer[t].open /\ ReleaseLock(t, outer[t].key) /\ ~o.open
    <3>1. outer[t].key \in Keys
      BY <1>1, <2>2 DEF ThreadFine, OwnKey
    <3> QED BY <1>1, <2>2, <3>1, ReleaseIs
  <2> QED BY <2>1, <2>2
<1>3. Types'
  <2>1. p \in Places \ {"waiting", "registering"}
    BY AfterIs DEF Places
  <2> QED BY <1>1, <1>2, <2>1 DEF Types
<1>4. OnlyBy(t)
  BY <1>1, <1>2 DEF OnlyBy, Types
<1>5. pc'[t] = p /\ outer'[t] = o /\ next'[t] = n
  BY <1>1 DEF Types
<1>6. TaskFine(t)'
  BY <1>5, AfterIs DEF TaskFine
<1>7. LocksFine(t)'
  <2> SUFFICES ASSUME NEW i \in 1..Len(children[t]), children[t][i].open
               PROVE  HoldsLock(t, children[t][i].key)' \/ Lost(t, children[t][i].key)'
    BY DEF LocksFine
  <2>1. children[t][i].key # outer[t].key /\ children[t][i].key \in Keys
    BY <1>1, ChildKeys DEF ThreadFine, OwnKey
  <2>2. HoldsLock(t, children[t][i].key) \/ Lost(t, children[t][i].key)
    BY <1>1 DEF ThreadFine, LocksFine
  <2>3. Lost(t, children[t][i].key) => Lost(t, children[t][i].key)'
    BY DEF Lost
  <2>4. children' = children
    OBVIOUS
  <2> QED BY <1>2, <2>1, <2>2, <2>3, <2>4
<1>8. OwnKey(t)'
  BY <1>1, <1>2, <1>5 DEF ThreadFine, OwnKey
<1>9. OuterFine(t)'
  BY <1>1, <1>5, AfterIs DEF ThreadFine, OuterFine, Busy
<1>10. KeysFine(children[t], todo[t])'
  BY <1>1 DEF ThreadFine
<1> QED BY <1>3, <1>4, <1>6, <1>7, <1>8, <1>9, <1>10, StepKeeps DEF ThreadFine

LEMMA FailKeeps ==
  ASSUME Inv, NEW t \in Threads, RollBackFrom(t, Len(children[t]), "done"),
         outer[t].state # "PENDING", UNCHANGED <<entry, taken, store>>,
         UNCHANGED <<manager, mode, awaited, todo, tries, current, children>>
  PROVE  Inv'
<1>1. Types /\ Len(children[t]) \in Nat
  BY LenProperties DEF Inv, Types
<1>2. PICK m : m = Len(children[t])
  OBVIOUS
<1>3. m \in Nat /\ RollBackFrom(t, m, "done") /\ store' \in [Keys -> Nat]
  BY <1>1, <1>2 DEF Types
<1>4. PICK p \in DOMAIN AfterRollback, o \in Outer, n \in {0, m} :
        /\ AfterRollback[p] = "done" /\ pc' = [pc EXCEPT ![t] = p]
        /\ outer' = [outer EXCEPT ![t] = o] /\ next' = [next EXCEPT ![t] = n]
        /\ o.key = outer[t].key /\ o.open = outer[t].open /\ o.notes = outer[t].notes
        /\ \/ o.state = "ROLLED_BACK" /\ n = m
           \/ o = outer[t] /\ o.state = "STAGED" /\ n = 0
  BY <1>1, <1>3, RollBackFromIs
<1>5. p = "rolling_back_done" /\ o.state # "PENDING"
  BY <1>4, AfterIs
<1>6. n \in Nat /\ n \in 0..Len(children[t])
  BY <1>2, <1>3, <1>4
<1> QED BY <1>3, <1>4, <1>5, <1>6, OuterKeeps

LEMMA RollBackOuterKeeps ==
  ASSUME Inv, NEW t \in Threads, RollBackOuter(t), outer[t].state # "PENDING",
         UNCHANGED <<entry, taken, store>>,
         UNCHANGED <<manager, mode, awaited, todo, tries, current, children>>
  PROVE  Inv'
<1>1. Types
  BY DEF Inv
<1>2. CASE outer[t].state \in Final
  <2>1. pc' = [pc EXCEPT ![t] = "done"] /\ outer' = outer /\ next' = next
    BY <1>2 DEF RollBackOuter, Go
  <2>2. /\ outer' = [outer EXCEPT ![t] = outer[t]] /\ next' = [next EXCEPT ![t] = next[t]]
        /\ outer[t] \in Outer /\ next[t] \in Nat /\ store' \in [Keys -> Nat]
    BY <1>1, <2>1 DEF Types
  <2>3. PICK p : p = "done"
    OBVIOUS
  <2>4. /\ p \in {"outer", "failed", "committing", "done"} \cup DOMAIN AfterRollback
        /\ p \notin DOMAIN AfterRollback /\ p = "done" /\ pc' = [pc EXCEPT ![t] = p]
    BY <2>1, <2>3, AfterIs
  <2> QED BY <2>2, <2>4, OuterKeeps
<1>3. CASE outer[t].state \notin Final
  BY <1>3, FailKeeps DEF RollBackOuter
<1> QED BY <1>2, <1>3

\* The outer transaction is over, and keeps its lock only if it has none.
LEMMA CloseKeeps ==
  ASSUME Inv, NEW t \in Threads, NEW c \in Outer, c.key = outer[t].key,
         NEW s \in {"ACTIVE", "STAGED"} \cup Final, CloseOuter(t, c, s),
         NEW p \in {"outer", "failed", "done"}, Go(t, p), p \in {"outer", "failed"} => Busy(t),
         p = "failed" => todo[t] # <<>>,
         UNCHANGED <<manager, mode, awaited, todo, tries, current, children, next>>,
         store' \in [Keys -> Nat]
  PROVE  Inv'
<1>1. Types
  BY DEF Inv
<1>2. PICK o : o = Finished(c, s)
  OBVIOUS
<1>3. o \in Outer /\ o.key = outer[t].key /\ o.state = s /\ ~o.open
  BY <1>2 DEF Outer, Finished
<1>4. /\ outer' = [outer EXCEPT ![t] = o] /\ pc' = [pc EXCEPT ![t] = p]
      /\ IF outer[t].open THEN ReleaseLock(t, outer[t].key) ELSE UNCHANGED <<entry, taken>>
  BY <1>2 DEF CloseOuter, Go
<1>5. next[t] \in Nat /\ next' = [next EXCEPT ![t] = next[t]]
  BY <1>1 DEF Types
<1>6. s # "PENDING"
  BY DEF Final
<1>7. /\ p \in {"outer", "failed", "committing", "done"} \cup DOMAIN AfterRollback
      /\ p \notin DOMAIN AfterRollback /\ p # "committing" /\ p # "rolling_back_failed"
      /\ p \notin {"committing", "done", "rolling_back_done"} => Busy(t)
      /\ p \in {"failed", "rolling_back_failed"} => todo[t] # <<>>
  BY AfterIs
<1>8. o.state # "PENDING"
  BY <1>3, <1>6
<1> QED BY <1>3, <1>4, <1>5, <1>7, <1>8, OuterKeeps

LEMMA ExitKeeps ==
  ASSUME Inv, NEW t \in Threads,
         Stage(t) \/ ExitWithError(t) \/ Exit(t) \/ EndCommit(t) \/ EndRollBack(t)
  PROVE  Inv'
<1>1. Types /\ ThreadFine(t) /\ outer[t] \in Outer /\ next[t] \in Nat /\ Len(children[t]) \in Nat
  BY LenProperties DEF Inv, Types
<1>2. outer[t].state = "PENDING" => pc[t] \in {"entering", "writing", "begin", "done", "crashed"}
  BY <1>1 DEF ThreadFine, OuterFine
<1>3. outer[t].state \in {"PENDING", "ACTIVE", "STAGED"} \cup Final
  BY <1>1 DEF Outer
<1>4. CASE Stage(t)
  <2>1. PICK o : o = [outer[t] EXCEPT !.state = "STAGED"]
    OBVIOUS
  <2>2. /\ o \in Outer /\ o.key = outer[t].key /\ o.state = "STAGED" /\ o.open = outer[t].open
    BY <1>1, <2>1 DEF Outer
  <2>3. /\ pc[t] = "outer" /\ pc' = [pc EXCEPT ![t] = "outer"] /\ outer' = [outer EXCEPT ![t] = o]
        /\ next' = [next EXCEPT ![t] = next[t]]
        /\ UNCHANGED <<manager, mode, entry, taken, awaited, store, todo, tries, current, children>>
    BY <1>1, <1>4, <2>1 DEF Stage, Types, lockVars
  <2>4. Busy(t) /\ store' \in [Keys -> Nat]
    BY <1>1, <2>3 DEF Busy, Types
  <2> QED BY <1>1, <2>2, <2>3, <2>4, AfterIs, OuterKeeps
<1>5. CASE ExitWithError(t)
  BY <1>2, <1>5, RollBackOuterKeeps DEF ExitWithError, lockVars
<1>6. CASE Exit(t)
  <2>1. /\ pc[t] = "outer" /\ outer[t].state # "PENDING" /\ store' \in [Keys -> Nat]
        /\ UNCHANGED <<manager, mode, awaited, store, todo, tries, current, children>>
    BY <1>1, <1>2, <1>6 DEF Exit, Types
  <2>2. CASE RollBackOuter(t) /\ UNCHANGED <<entry, taken>>
    BY <2>1, <2>2, RollBackOuterKeeps
  <2>3. CASE /\ CloseOuter(t, outer[t], outer[t].state) /\ Go(t, "done") /\ UNCHANGED next
    BY <1>1, <1>3, <2>1, <2>3, CloseKeeps
  <2>4. CASE StartCommit(t) /\ outer[t].state \notin Final
    <3>1. /\ pc' = [pc EXCEPT ![t] = "committing"] /\ next' = [next EXCEPT ![t] = 1]
          /\ outer' = [outer EXCEPT ![t] = outer[t]] /\ UNCHANGED <<entry, taken>>
      BY <1>1, <2>4 DEF StartCommit, Go, Types
    <3>2. 1 \in 1..(Len(children[t]) + 1) /\ outer[t].state \in {"ACTIVE", "STAGED"}
      BY <1>1, <1>3, <2>1, <2>4
    <3> QED BY <1>1, <2>1, <3>1, <3>2, AfterIs, OuterKeeps
  <2> QED BY <1>6, <2>2, <2>3, <2>4 DEF Exit
<1>7. CASE EndCommit(t)
  <2>1. /\ pc[t] = "committing" /\ outer[t].state # "PENDING"
        /\ UNCHANGED <<manager, mode, awaited, todo, tries, current, children>>
    BY <1>2, <1>7 DEF EndCommit
  <2>2. CASE /\ CloseOuter(t, Again(outer[t]), "COMMITTED")
             /\ store' = IF outer[t].key = None
                           THEN store ELSE [store EXCEPT ![outer[t].key] = @ + 1]
             /\ Go(t, "done") /\ UNCHANGED next
    <3>1. PICK c : c = Again(outer[t])
      OBVIOUS
    <3>2. c \in Outer /\ c.key = outer[t].key
      BY <1>1, <3>1 DEF Again, Outer, Notes
    <3>3. store' \in [Keys -> Nat]
      BY <1>1, <2>2 DEF Types, Outer
    <3> QED BY <2>1, <2>2, <3>1, <3>2, <3>3, CloseKeeps DEF Final
  <2>3. CASE FailCommit(t) /\ UNCHANGED <<entry, taken, store>>
    BY <2>1, <2>3, FailKeeps DEF FailCommit
  <2> QED BY <1>7, <2>2, <2>3 DEF EndCommit
<1>8. CASE EndRollBack(t)
  <2>1. PICK p : p = AfterRollback[pc[t]]
    OBVIOUS
  <2>2. /\ pc[t] \in DOMAIN AfterRollback /\ Go(t, p)
        /\ CloseOuter(t, outer[t], outer[t].state) /\ store' \in [Keys -> Nat]
        /\ UNCHANGED <<manager, mode, awaited, todo, tries, current, children, next>>
    BY <1>1, <1>8, <2>1 DEF EndRollBack, Types
  <2>3. /\ p \in {"outer", "failed", "done"} /\ (p \in {"outer", "failed"} => Busy(t))
        /\ (p = "failed" => pc[t] = "rolling_back_failed")
        /\ outer[t].state \in {"ACTIVE", "STAGED"} \cup Final
    BY <1>2, <1>3, <2>1, <2>2, AfterIs DEF Busy
  <2>4. p = "failed" => todo[t] # <<>>
    BY <1>1, <2>3 DEF ThreadFine, TaskFine
  <2> QED BY <1>1, <2>2, <2>3, <2>4, CloseKeeps
<1> QED BY <1>4, <1>5, <1>6, <1>7, <1>8

\* The n-th child is over, and its lock given back unless it is as it was; where it
\* gave its lock back before, that is noted.
LEMMA ChildOver ==
  ASSUME Inv, NEW t \in Threads, NEW n \in 1..Len(children[t]), NEW d \in Child,
         d.key = children[t][n].key, children[t][n].notes \subseteq d.notes,
         children' = [children EXCEPT ![t][n] = d], todo' = todo, outer'[t].key = outer[t].key,
         Withdrawn(children[t][n]) => Withdrawn(d),
         \/ d = children[t][n] /\ UNCHANGED <<entry, taken>>
         \/ /\ ~d.open /\ ReleaseLock(t, children[t][n].key)
            /\ Withdrawn(children[t][n]) => "again" \in d.notes
  PROVE  /\ KeysFine(children[t], todo[t])' /\ LocksFine(t)'
         /\ entry' \in [Keys -> Entry] /\ taken' = {}
         /\ children' \in [Threads -> Seq(Child)]
         /\ Len(children[t]) \in Nat /\ Len(children'[t]) = Len(children[t])
         /\ children'[t][n] = d
         /\ \A i \in 1..Len(children[t]) : i # n => children'[t][i] = children[t][i]
         /\ \A u \in Threads \ {t} : children'[u] = children[u]
         /\ \A u \in Threads, k \in Keys : HoldsLock(u, k) => HoldsLock(u, k)' \/ (u = t /\ k = d.key)
         /\ \A i \in 1..Len(children'[t]) : children'[t][i].key # outer'[t].key
<1>1. Types /\ ThreadFine(t) /\ children[t] \in Seq(Child)
  BY DEF Inv, Types
<1>2. PICK s, c, r : s = children[t] /\ c = s[n] /\ r = [s EXCEPT ![n] = d]
  OBVIOUS
<1>3. /\ s \in Seq(Child) /\ r \in Seq(Child) /\ Len(r) = Len(s) /\ Len(s) \in Nat /\ r[n] = d
      /\ \A i \in 1..Len(s) : i # n => r[i] = s[i]
  BY <1>1, <1>2, ExceptIs
<1>4. c \in Child /\ c.key \in Keys /\ d.key = c.key /\ \A i \in 1..Len(s) : s[i].key \in Keys
  BY <1>2, <1>3, ChildKeys
<1>5. children' = [children EXCEPT ![t] = r] /\ children'[t] = r
  BY <1>1, <1>2 DEF Types
<1>6. KeysFine(s, todo[t]) /\ KeysFine(r, todo[t])
  <2>1. KeysFine(s, todo[t])
    BY <1>1, <1>2 DEF ThreadFine
  <2> QED BY <1>2, <1>3, <1>4, <2>1, KeysExcept
<1>7. /\ entry' \in [Keys -> Entry] /\ taken' = {}
      /\ \A u \in Threads, j \in Keys :
           HoldsLock(u, j) => HoldsLock(u, j)' \/ (u = t /\ j = c.key)
  <2>1. CASE UNCHANGED <<entry, taken>>
    BY <1>1, <2>1 DEF Types, HoldsLock
  <2>2. CASE ReleaseLock(t, c.key)
    BY <1>1, <1>4, <2>2, ReleaseIs
  <2> QED BY <1>2, <2>1, <2>2
<1>8. ASSUME NEW i \in 1..Len(s), r[i].open
      PROVE  HoldsLock(t, r[i].key)' \/ Lost(t, r[i].key)'
  <2>1. s[i].open => HoldsLock(t, s[i].key) \/ Lost(t, s[i].key)
    BY <1>1, <1>2 DEF ThreadFine, LocksFine
  <2>2. \A k : Lost(t, k) => Lost(t, k)'
    BY <1>2, <1>3, <1>5 DEF Lost
  <2>3. CASE d = c /\ UNCHANGED <<entry, taken>>
    <3>1. r[i] = s[i]
      BY <1>2, <1>3, <2>3
    <3> QED BY <1>8, <2>1, <2>2, <2>3, <3>1 DEF HoldsLock
  <2>4. CASE ~d.open /\ (Withdrawn(c) => "again" \in d.notes)
    <3>1. i # n /\ r[i] = s[i] /\ s[i].open
      BY <1>3, <1>8, <2>4
    <3>2. CASE Withdrawn(c) /\ s[i].key = c.key
      BY <1>2, <1>3, <1>4, <1>5, <2>4, <3>1, <3>2 DEF Lost
    <3>3. CASE s[i].key # c.key
      BY <1>4, <1>7, <2>1, <2>2, <3>1, <3>3
    <3>4. CASE ~Withdrawn(c) /\ s[i].key = c.key
      <4>1. i < n \/ n < i
        BY <1>3, <3>1
      <4> QED BY <1>2, <1>3, <1>6, <3>1, <3>4, <4>1 DEF KeysFine, Withdrawn
    <3> QED BY <3>2, <3>3, <3>4
  <2> QED BY <1>2, <2>3, <2>4
<1>9. LocksFine(t)'
  BY <1>3, <1>5, <1>8 DEF LocksFine
<1>10. KeysFine(children[t], todo[t])'
  BY <1>5, <1>6
<1>11. children' \in [Threads -> Seq(Child)] /\ \A u \in Threads \ {t} : children'[u] = children[u]
  BY <1>1, <1>3, <1>5 DEF Types
<1>12. \A i \in 1..Len(r) : r[i].key # outer[t].key
  BY <1>1, <1>2, <1>3, <1>4 DEF ThreadFine, OwnKey
<1> QED BY <1>2, <1>3, <1>4, <1>5, <1>7, <1>9, <1>10, <1>11, <1>12

LEMMA RollBackChildKeeps ==
  ASSUME Inv, NEW t \in Threads, RollBackChild(t)
  PROVE  Inv'
<1>1. Types /\ ThreadFine(t) /\ children[t] \in Seq(Child)
  BY DEF Inv, Types
<1>2. PICK n, c, p : n = next[t] /\ c = children[t][n] /\ p = pc[t]
  OBVIOUS
<1>3. p \in DOMAIN AfterRollback /\ n \in 1..Len(children[t]) /\ n \in Nat \ {0}
  <2>1. p \in DOMAIN AfterRollback /\ n > 0 /\ n \in 0..Len(children[t]) /\ Len(children[t]) \in Nat
    BY <1>1, <1>2, LenProperties DEF RollBackChild, ThreadFine, OuterFine
  <2> QED BY <2>1
<1>4. c \in Child
  BY <1>1, <1>2, <1>3, ChildKeys
<1>5. PICK d \in RollbackResults(c) : children' = [children EXCEPT ![t][n] = d]
  BY <1>2 DEF RollBackChild
<1>6. /\ d \in Child /\ d.key = c.key /\ d.notes = c.notes /\ (c.state \in Final => d = c)
      /\ c.state \notin Final => ~d.open /\ d.state # "COMMITTED"
  BY <1>4, <1>5, RollbackIs
<1>7. /\ UNCHANGED <<manager, mode, awaited, store, pc, todo, tries, outer, current>>
      /\ \/ d = c /\ UNCHANGED <<entry, taken>>
         \/ ~d.open /\ ~Withdrawn(c) /\ ReleaseLock(t, c.key)
  BY <1>2, <1>6 DEF RollBackChild, Withdrawn, Final
<1>8. /\ KeysFine(children[t], todo[t])' /\ LocksFine(t)'
      /\ entry' \in [Keys -> Entry] /\ taken' = {}
      /\ children' \in [Threads -> Seq(Child)]
      /\ Len(children[t]) \in Nat /\ Len(children'[t]) = Len(children[t])
      /\ children'[t][n] = d
      /\ \A i \in 1..Len(children[t]) : i # n => children'[t][i] = children[t][i]
      /\ \A u \in Threads \ {t} : children'[u] = children[u]
      /\ \A u \in Threads, k \in Keys : HoldsLock(u, k) => HoldsLock(u, k)' \/ (u = t /\ k = d.key)
      /\ \A i \in 1..Len(children'[t]) : children'[t][i].key # outer'[t].key
  <2>1. /\ d \in Child /\ d.key = children[t][n].key /\ todo' = todo /\ outer'[t].key = outer[t].key
        /\ children[t][n].notes \subseteq d.notes
    BY <1>2, <1>6, <1>7
  <2>2. \/ d = children[t][n] /\ UNCHANGED <<entry, taken>>
        \/ ~d.open /\ ~Withdrawn(children[t][n]) /\ ReleaseLock(t, children[t][n].key)
    BY <1>2, <1>7
  <2>3. Withdrawn(children[t][n]) => Withdrawn(d)
    BY <2>2
  <2> QED BY <1>3, <1>5, <2>1, <2>2, <2>3, ChildOver
<1>9. PICK m \in {0, n - 1} : next' = [next EXCEPT ![t] = m]
  BY <1>2 DEF RollBackChild
<1>10. m \in Nat /\ m \in 0..Len(children[t])
  BY <1>3, <1>8
<1>11. Types'
  BY <1>1, <1>7, <1>8, <1>9, <1>10 DEF Types
<1>12. OnlyBy(t)
  BY <1>1, <1>7, <1>8, <1>9 DEF OnlyBy, Types
<1>13. pc'[t] = p /\ next'[t] = m /\ p \notin {"writing", "begin", "body", "committing", "entering"}
  BY <1>1, <1>2, <1>3, <1>7, <1>9, AfterIs DEF Types
<1>14. TaskFine(t)'
  BY <1>1, <1>2, <1>7, <1>13 DEF TaskFine, ThreadFine
<1>15. OwnKey(t)'
  <2>1. outer[t].open => outer[t].key \in Keys /\ HoldsLock(t, outer[t].key)'
    <3>1. outer[t].key # d.key
      <4>1. \A i \in 1..Len(children[t]) : children[t][i].key # outer[t].key
        BY <1>1 DEF ThreadFine, OwnKey
      <4> QED BY <1>2, <1>3, <1>6, <4>1
    <3>2. outer[t].open => outer[t].key \in Keys /\ HoldsLock(t, outer[t].key)
      BY <1>1 DEF ThreadFine, OwnKey
    <3> QED BY <1>7, <1>8, <3>1, <3>2 DEF HoldsLock
  <2> QED BY <1>1, <1>7, <1>8, <2>1 DEF ThreadFine, OwnKey
<1>16. OuterFine(t)'
  <2>1. ASSUME NEW i \in 1..Len(children[t]), children'[t][i].state = "COMMITTED",
               \A j \in 1..Len(children[t]) :
                 children[t][j].state = "COMMITTED" => "cached" \in children[t][j].notes
        PROVE  "cached" \in children'[t][i].notes
    <3>1. children'[t][i] = children[t][i]
      BY <1>2, <1>6, <1>8, <2>1 DEF Final
    <3> QED BY <2>1, <3>1
  <2> QED BY <1>1, <1>2, <1>7, <1>8, <1>10, <1>13, <2>1 DEF ThreadFine, OuterFine, Busy
<1> QED BY <1>8, <1>11, <1>12, <1>14, <1>15, <1>16, StepKeeps DEF ThreadFine

LEMMA CommitChildKeeps ==
  ASSUME Inv, NEW t \in Threads, CommitChild(t)
  PROVE  Inv'
<1>1. Types /\ ThreadFine(t) /\ children[t] \in Seq(Child) /\ Len(children[t]) \in Nat
  BY LenProperties DEF Inv, Types
<1>2. PICK n, c, m : n = next[t] /\ c = children[t][n] /\ m = Len(children[t])
  OBVIOUS
<1>3. /\ pc[t] = "committing" /\ outer[t].state \in {"ACTIVE", "STAGED"}
      /\ n \in 1..Len(children[t]) /\ n \in Nat
      /\ UNCHANGED <<manager, mode, awaited, todo, tries, current>>
  BY <1>1, <1>2 DEF CommitChild, ThreadFine, OuterFine
<1>4. c \in Child /\ c.key \in Keys
  BY <1>1, <1>2, <1>3, ChildKeys
<1>5. CASE c.state \in Final /\ ~HoldsLock(t, c.key)
  <2>1. RollBackFrom(t, Len(children[t]), "done") /\ UNCHANGED <<entry, taken, store, children>>
    BY <1>2, <1>5 DEF CommitChild, FailCommit
  <2> QED BY <1>3, <2>1, FailKeeps
<1>6. CASE ~(c.state \in Final /\ ~HoldsLock(t, c.key))
  <2>1. PICK d \in CommitResults(c) :
          /\ children' = [children EXCEPT ![t][n] = d] /\ store' = Written(c, d)
          /\ ReleaseLock(t, c.key)
          /\ \/ RollBackFrom(t, m, "done")
             \/ next' = [next EXCEPT ![t] = n + 1] /\ UNCHANGED <<pc, outer>>
    BY <1>2, <1>6 DEF CommitChild, FailCommit
  <2>2. /\ d \in Child /\ d.key = c.key /\ ~d.open /\ store' \in [Keys -> Nat]
        /\ c.notes \subseteq d.notes /\ (c.state \in Final => d.state = c.state)
        /\ ~c.open => "again" \in d.notes
    BY <1>1, <1>4, <2>1, CommitIs, WrittenIs
  <2>3. \E p \in {"committing", "rolling_back_done"}, o \in Outer, j \in Nat :
          /\ pc' = [pc EXCEPT ![t] = p] /\ outer' = [outer EXCEPT ![t] = o]
          /\ next' = [next EXCEPT ![t] = j] /\ o.key = outer[t].key /\ o.open = outer[t].open
          /\ p = "committing" => j = n + 1 /\ o = outer[t]
          /\ p # "committing" => j \in {0, m} /\ o.state # "PENDING"
    <3>1. CASE RollBackFrom(t, m, "done")
      <4>1. m \in Nat
        BY <1>1, <1>2
      <4>2. PICK p \in DOMAIN AfterRollback, o \in Outer, j \in {0, m} :
              /\ AfterRollback[p] = "done" /\ pc' = [pc EXCEPT ![t] = p]
              /\ outer' = [outer EXCEPT ![t] = o] /\ next' = [next EXCEPT ![t] = j]
              /\ o.key = outer[t].key /\ o.open = outer[t].open /\ o.notes = outer[t].notes
              /\ \/ o.state = "ROLLED_BACK" /\ j = m
                 \/ o = outer[t] /\ o.state = "STAGED" /\ j = 0
        BY <1>1, <3>1, <4>1, RollBackFromIs
      <4>3. p = "rolling_back_done" /\ o.state # "PENDING" /\ j \in Nat
        BY <4>1, <4>2, AfterIs
      <4> QED BY <4>2, <4>3
    <3>2. CASE next' = [next EXCEPT ![t] = n + 1] /\ UNCHANGED <<pc, outer>>
      <4>1. /\ outer[t] \in Outer /\ outer' = [outer EXCEPT ![t] = outer[t]] /\ n + 1 \in Nat
            /\ pc' = [pc EXCEPT ![t] = "committing"]
        BY <1>1, <1>3, <3>2 DEF Types
      <4> QED BY <3>2, <4>1
    <3> QED BY <2>1, <3>1, <3>2
  <2>4. PICK p \in {"committing", "rolling_back_done"}, o \in Outer, j \in Nat :
          /\ pc' = [pc EXCEPT ![t] = p] /\ outer' = [outer EXCEPT ![t] = o]
          /\ next' = [next EXCEPT ![t] = j] /\ o.key = outer[t].key /\ o.open = outer[t].open
          /\ p = "committing" => j = n + 1 /\ o = outer[t]
          /\ p # "committing" => j \in {0, m} /\ o.state # "PENDING"
    BY <2>3
  <2>5. pc'[t] = p /\ outer'[t] = o /\ next'[t] = j /\ mode'[t] = mode[t]
    BY <1>1, <1>3, <2>4 DEF Types
  <2>6. /\ KeysFine(children[t], todo[t])' /\ LocksFine(t)'
        /\ entry' \in [Keys -> Entry] /\ taken' = {}
        /\ children' \in [Threads -> Seq(Child)]
        /\ Len(children[t]) \in Nat /\ Len(children'[t]) = Len(children[t])
        /\ children'[t][n] = d
        /\ \A i \in 1..Len(children[t]) : i # n => children'[t][i] = children[t][i]
        /\ \A u \in Threads \ {t} : children'[u] = children[u]
        /\ \A u \in Threads, k \in Keys : HoldsLock(u, k) => HoldsLock(u, k)' \/ (u = t /\ k = d.key)
        /\ \A i \in 1..Len(children'[t]) : children'[t][i].key # outer'[t].key
    <3>1. /\ d \in Child /\ d.key = children[t][n].key /\ todo' = todo
          /\ outer'[t].key = outer[t].key /\ children[t][n].notes \subseteq d.notes
      BY <1>2, <1>3, <2>2, <2>4, <2>5
    <3>2. /\ ~d.open /\ ReleaseLock(t, children[t][n].key)
          /\ Withdrawn(children[t][n]) => "again" \in d.notes
      BY <1>2, <2>1, <2>2 DEF Withdrawn
    <3>3. Withdrawn(children[t][n]) => Withdrawn(d)
      BY <1>2, <2>2 DEF Withdrawn, Final
    <3> QED BY <1>3, <2>1, <3>1, <3>2, <3>3, ChildOver
  <2>7. /\ p = "committing" => j \in 1..(Len(children[t]) + 1)
        /\ p # "committing" => j \in 0..Len(children[t])
    BY <1>1, <1>2, <1>3, <2>4
  <2>8. Types'
    BY <1>1, <1>3, <2>2, <2>4, <2>6, AfterIs DEF Types, Places
  <2>9. OnlyBy(t)
    BY <1>1, <1>3, <2>4, <2>6 DEF OnlyBy, Types
  <2>10. TaskFine(t)'
    BY <2>5 DEF TaskFine
  <2>11. OwnKey(t)'
    <3>1. o.open => o.key \in Keys /\ HoldsLock(t, o.key)'
      BY <1>1, <1>2, <1>3, <2>2, <2>4, <2>6 DEF ThreadFine, OwnKey
    <3> QED BY <1>1, <1>3, <2>4, <2>5, <2>6, <3>1 DEF ThreadFine, OwnKey
  <2>12. OuterFine(t)'
    BY <1>3, <2>4, <2>5, <2>6, <2>7, AfterIs DEF OuterFine, Busy
  <2> QED BY <2>6, <2>8, <2>9, <2>10, <2>11, <2>12, StepKeeps DEF ThreadFine
<1> QED BY <1>5, <1>6

LEMMA InvNext == Inv /\ [Next]_vars => Inv'
<1> SUFFICES ASSUME Inv, [Next]_vars PROVE Inv'
  OBVIOUS
<1>1. CASE UNCHANGED vars
  <2>1. Types'
    BY <1>1 DEF vars, Inv, Types
  <2>2. ASSUME NEW t \in Threads
        PROVE  ThreadFine(t)'
    <3>1. ThreadFine(t)
      BY DEF Inv
    <3>2. TaskFine(t)' /\ LocksFine(t)'
      BY <1>1, <3>1 DEF vars, ThreadFine, TaskFine, LocksFine, Lost, HoldsLock, Key
    <3>3. OwnKey(t)' /\ OuterFine(t)'
      BY <1>1, <3>1 DEF vars, ThreadFine, OwnKey, OuterFine, Busy, HoldsLock
    <3>4. KeysFine(children[t], todo[t])'
      BY <1>1, <3>1 DEF vars, ThreadFine
    <3> QED BY <3>2, <3>3, <3>4 DEF ThreadFine
  <2> QED BY <2>1, <2>2 DEF Inv
<1>2. ASSUME NEW t \in Threads, Step(t) \/ Crash(t)
      PROVE  Inv'
  BY <1>2, AcquireKeeps, TaskKeeps, QuietKeeps, ExitKeeps, RollBackChildKeeps,
     CommitChildKeeps DEF Step
<1> QED BY <1>1, <1>2 DEF Next

-----------------------------------------------------------------------------
(* What a step does to the threads and to their outer transactions.        *)

Frame(t) ==
  \A u \in Threads \ {t} :
    /\ pc'[u] = pc[u] /\ todo'[u] = todo[u] /\ outer'[u] = outer[u] /\ next'[u] = next[u]
    /\ current'[u] = current[u] /\ children'[u] = children[u]

LEMMA StepFrame ==
  ASSUME Types, NEW t \in Threads, Step(t) \/ Crash(t)
  PROVE  Frame(t)
<1> USE DEF lockVars, nestVars, Types, Frame, Go
<1>1. CASE AcquireLock(t)
  BY <1>1 DEF AcquireLock, CreateLockFile, WriteLockFile, ReadEmptyLockFile, LookUpLock, TakeLock,
              RegisterLock
<1>2. CASE BeginOuter(t) \/ Begin(t) \/ Retry(t) \/ Swallow(t) \/ Stage(t) \/ Crash(t)
  BY <1>2 DEF BeginOuter, Begin, Retry, Swallow, Done, Stage, Crash
<1>3. CASE Succeed(t)
  <2>1. PICK c, n : Reset(t, c, "outer") /\ n = Len(children[t])
    BY <1>3 DEF Succeed
  <2> QED BY <1>3, <2>1 DEF Succeed, Done, Reset, RollBackFrom
<1>4. CASE Raise(t)
  BY <1>4 DEF Raise, Reset, RollBackFrom
<1>5. CASE ExitWithError(t)
  BY <1>5 DEF ExitWithError, RollBackOuter, RollBackFrom
<1>6. CASE RollBackChild(t) \/ EndRollBack(t)
  BY <1>6 DEF RollBackChild, EndRollBack, CloseOuter
<1>7. CASE Exit(t)
  BY <1>7 DEF Exit, RollBackOuter, RollBackFrom, CloseOuter, StartCommit
<1>8. CASE CommitChild(t)
  BY <1>8 DEF CommitChild, FailCommit, RollBackFrom
<1>9. CASE EndCommit(t)
  BY <1>9 DEF EndCommit, FailCommit, RollBackFrom, CloseOuter
<1> QED BY <1>1, <1>2, <1>3, <1>4, <1>5, <1>6, <1>7, <1>8, <1>9 DEF Step

\* It begins once, keeps its notes, and stays committed.
OuterStep(u) ==
  /\ outer'[u].key = outer[u].key
  /\ \/ outer[u].state = "PENDING" /\ outer'[u] = Begun(outer[u].key) /\ outer[u].key \in Keys
     \/ /\ outer[u].notes \subseteq outer'[u].notes /\ (outer'[u].open => outer[u].open)
        /\ "cached" \in outer'[u].notes => "cached" \in outer[u].notes
        /\ outer[u].state = "COMMITTED" => outer'[u].state = "COMMITTED"
        /\ outer'[u].state = "PENDING" => outer'[u] = outer[u]

LEMMA OuterMoves ==
  ASSUME Inv, NEW t \in Threads, Step(t) \/ Crash(t)
  PROVE  OuterStep(t)
<1> USE DEF lockVars, nestVars
<1>1. Types /\ ThreadFine(t) /\ outer[t] \in Outer /\ Len(children[t]) \in Nat
  BY LenProperties DEF Inv, Types
<1>2. outer[t].state = "PENDING" => pc[t] \in {"entering", "writing", "begin", "done", "crashed"}
  BY <1>1 DEF ThreadFine, OuterFine
<1>3. ASSUME outer' = outer
      PROVE  OuterStep(t)
  BY <1>3 DEF OuterStep
<1>4. ASSUME NEW n \in Nat, NEW after \in {"outer", "failed", "done"}, RollBackFrom(t, n, after),
             outer[t].state # "COMMITTED", outer[t].state # "PENDING"
      PROVE  OuterStep(t)
  <2>1. PICK o \in Outer :
           /\ outer' = [outer EXCEPT ![t] = o]
           /\ o.key = outer[t].key /\ o.open = outer[t].open /\ o.notes = outer[t].notes
           /\ o.state \in {"ROLLED_BACK", "STAGED"}
    BY <1>1, <1>4, RollBackFromIs
  <2> QED BY <1>1, <1>4, <2>1 DEF OuterStep, Types
<1>5. ASSUME NEW o \in {outer[t], Again(outer[t])}, NEW s, CloseOuter(t, o, s),
             s = "COMMITTED" \/ s = outer[t].state, s # "PENDING"
      PROVE  OuterStep(t)
  <2>1. outer' = [outer EXCEPT ![t] = Finished(o, s)]
    BY <1>5 DEF CloseOuter
  <2>2. /\ Finished(o, s).key = o.key /\ Finished(o, s).notes = o.notes /\ o \in Outer
        /\ o.key = outer[t].key /\ outer[t].notes \subseteq o.notes
        /\ Finished(o, s).state = s /\ ~Finished(o, s).open
        /\ o.notes \subseteq outer[t].notes \cup {"again"}
    BY <1>1, <1>5 DEF Finished, Again, Outer, Notes
  <2> QED BY <1>1, <1>5, <2>1, <2>2 DEF OuterStep, Types
<1>6. CASE AcquireLock(t) \/ Begin(t) \/ Retry(t) \/ Swallow(t) \/ Crash(t) \/ RollBackChild(t)
  BY <1>3, <1>6 DEF AcquireLock, CreateLockFile, WriteLockFile, ReadEmptyLockFile, LookUpLock,
       TakeLock, RegisterLock, Begin, Retry, Swallow, Crash, RollBackChild
<1>7. CASE BeginOuter(t)
  <2>1. /\ outer[t].state = "PENDING" /\ Key(t) = outer[t].key /\ Key(t) \in Keys
        /\ outer' = [outer EXCEPT ![t] = Begun(Key(t))]
    BY <1>7, KeyIs DEF BeginOuter, Key
  <2> QED BY <1>1, <2>1, BegunIs DEF OuterStep, Types
<1>8. CASE Stage(t)
  <2>1. /\ outer' = [outer EXCEPT ![t].state = "STAGED"] /\ outer[t].state # "COMMITTED"
        /\ pc[t] = "outer"
    BY <1>8 DEF Stage
  <2>2. /\ outer'[t].key = outer[t].key /\ outer'[t].open = outer[t].open
        /\ outer'[t].notes = outer[t].notes /\ outer'[t].state = "STAGED"
    BY <1>1, <2>1 DEF Types, Outer
  <2> QED BY <2>1, <2>2 DEF OuterStep
<1>9. ASSUME NEW c, NEW after \in {"outer", "failed"}, Reset(t, c, after), pc[t] = "body"
      PROVE  OuterStep(t)
  <2>1. CASE c.state = "ROLLED_BACK" /\ outer[t].state \notin Final
    <3>1. PICK n : n = Len(children[t])
      OBVIOUS
    <3>2. RollBackFrom(t, n, after) /\ n \in Nat
      BY <1>1, <1>9, <2>1, <3>1 DEF Reset
    <3> QED BY <1>2, <1>4, <1>9, <2>1, <3>2 DEF Final
  <2>2. CASE ~(c.state = "ROLLED_BACK" /\ outer[t].state \notin Final)
    BY <1>3, <1>9, <2>2 DEF Reset
  <2> QED BY <2>1, <2>2
<1>10. CASE Succeed(t)
  <2>1. PICK c : Reset(t, c, "outer")
    BY <1>10 DEF Succeed
  <2> QED BY <1>9, <1>10, <2>1 DEF Succeed
<1>11. CASE Raise(t)
  BY <1>9, <1>11 DEF Raise
<1>12. ASSUME RollBackOuter(t), pc[t] \in {"outer", "failed"}
       PROVE  OuterStep(t)
  <2>1. CASE outer[t].state \in Final
    BY <1>3, <1>12, <2>1 DEF RollBackOuter
  <2>2. CASE outer[t].state \notin Final
    <3>1. PICK n : n = Len(children[t])
      OBVIOUS
    <3>2. RollBackFrom(t, n, "done") /\ n \in Nat
      BY <1>1, <1>12, <2>2, <3>1 DEF RollBackOuter
    <3> QED BY <1>2, <1>4, <1>12, <2>2, <3>2 DEF Final
  <2> QED BY <2>1, <2>2
<1>13. CASE ExitWithError(t)
  BY <1>12, <1>13 DEF ExitWithError
<1>14. CASE Exit(t)
  BY <1>2, <1>3, <1>5, <1>12, <1>14 DEF Exit, StartCommit
<1>15. CASE EndRollBack(t)
  BY <1>2, <1>5, <1>15, AfterIs DEF EndRollBack
<1>16. ASSUME FailCommit(t), pc[t] = "committing"
       PROVE  OuterStep(t)
  <2>1. PICK n : n = Len(children[t])
    OBVIOUS
  <2>2. RollBackFrom(t, n, "done") /\ n \in Nat /\ outer[t].state \in {"ACTIVE", "STAGED"}
    BY <1>1, <1>16, <2>1 DEF FailCommit, ThreadFine, OuterFine
  <2> QED BY <1>4, <2>2
<1>17. CASE CommitChild(t)
  BY <1>3, <1>16, <1>17 DEF CommitChild
<1>18. CASE EndCommit(t)
  BY <1>5, <1>16, <1>18 DEF EndCommit
<1> QED BY <1>6, <1>7, <1>8, <1>10, <1>11, <1>13, <1>14, <1>15, <1>17, <1>18 DEF Step

\* The places from which a thread starts to work for a task.
LEMMA ToBody ==
  ASSUME Types, NEW t \in Threads, Step(t) \/ Crash(t), pc'[t] = "body"
  PROVE  Begin(t)
<1> USE DEF lockVars, nestVars, Go, Types
<1>1. RollingBack("outer") # "body" /\ RollingBack("failed") # "body"
      /\ RollingBack("done") # "body"
  BY RollingBackIs
<1>2. ~AcquireLock(t)
  BY DEF AcquireLock, CreateLockFile, WriteLockFile, ReadEmptyLockFile, LookUpLock, TakeLock,
         RegisterLock
<1>3. ~(BeginOuter(t) \/ Retry(t) \/ Swallow(t) \/ Stage(t) \/ Crash(t))
  BY DEF BeginOuter, Retry, Swallow, Stage, Crash
<1>4. ~(Succeed(t) \/ Raise(t))
  <2>1. \A c : ~Reset(t, c, "outer") /\ ~Reset(t, c, "failed")
    BY <1>1 DEF Reset, RollBackFrom
  <2> QED BY <2>1 DEF Succeed, Raise
<1>5. ~RollBackOuter(t) /\ ~FailCommit(t)
  BY <1>1 DEF RollBackOuter, RollBackFrom, FailCommit
<1>6. ~ExitWithError(t) /\ ~Exit(t)
  BY <1>5 DEF ExitWithError, Exit, StartCommit
<1>7. ~RollBackChild(t) /\ ~EndRollBack(t)
  BY AfterIs DEF RollBackChild, EndRollBack
<1>8. ~CommitChild(t) /\ ~EndCommit(t)
  BY <1>5 DEF CommitChild, EndCommit
<1> QED BY <1>2, <1>3, <1>4, <1>6, <1>7, <1>8 DEF Step

-----------------------------------------------------------------------------
(* Records.                                                                *)

Fresh(k) == store[k] = 0 \/ CommittedAgain(k)

\* A task of t is going to write the record of k.
TaskComputes(t, k) ==
  \/ pc[t] = "body" /\ current[t].state = "ACTIVE" /\ Key(t) = k
  \/ \E c \in Elements(children[t]) : c.open /\ c.state = "STAGED" /\ c.key = k

\* t is going to write the record of k.
Computes(t, k) ==
  \/ TaskComputes(t, k)
  \/ outer[t].open /\ "cached" \notin outer[t].notes /\ outer[t].key = k

\* Who is going to write a record has found none.
Once ==
  /\ RecordWrittenOnce
  /\ \A t \in Threads, k \in Keys : Computes(t, k) => Fresh(k)
  /\ \A t \in Threads : \A c \in Elements(children[t]) : c.state # "ACTIVE"
  /\ \A t \in Threads :
       /\ "cached" \in outer[t].notes => outer[t].state = "COMMITTED"
       /\ outer[t].state = "PENDING" => outer[t].notes = {}

LEMMA OnceInit == Init => Once
<1> SUFFICES ASSUME Init PROVE Once
  OBVIOUS
<1>1. \A t \in Threads : Elements(children[t]) = {}
  BY DEF Init, Elements
<1>2. \A t \in Threads : pc[t] # "body" /\ ~outer[t].open /\ outer[t].notes = {}
  BY DEF Init
<1>3. \A k \in Keys : store[k] = 0
  BY DEF Init
<1> QED BY <1>1, <1>2, <1>3 DEF Once, RecordWrittenOnce, Computes, TaskComputes

\* Who computes a record has the lock of its key, and does so once.
LEMMA ComputesAlone ==
  ASSUME Inv, NEW t \in Threads, NEW k \in Keys, Computes(t, k), ~CommittedAgain(k)
  PROVE  /\ HoldsLock(t, k)
         /\ \A u \in Threads \ {t} : ~Computes(u, k)
<1>1. ASSUME NEW u \in Threads, Computes(u, k)
      PROVE  HoldsLock(u, k)
  <2>1. ThreadFine(u)
    BY DEF Inv
  <2>2. ~Lost(u, k)
    BY DEF Lost, CommittedAgain, Elements
  <2>3. CASE pc[u] = "body" /\ Key(u) = k
    BY <2>1, <2>3 DEF ThreadFine, TaskFine
  <2>4. CASE \E c \in Elements(children[u]) : c.open /\ c.key = k
    BY <2>1, <2>2, <2>4 DEF Elements, ThreadFine, LocksFine
  <2>5. CASE outer[u].open /\ outer[u].key = k
    BY <2>1, <2>5 DEF ThreadFine, OwnKey
  <2> QED BY <1>1, <2>3, <2>4, <2>5 DEF Computes, TaskComputes
<1> QED BY <1>1 DEF HoldsLock

\* Every child stays, with its notes.
ChildrenStay ==
  \A u \in Threads : \A c \in Elements(children[u]) :
    \E d \in Elements(children'[u]) : d.key = c.key /\ c.notes \subseteq d.notes

\* The outer transactions go on, and nobody begins to compute a record that is there.
OnceStep ==
  /\ ChildrenStay
  /\ \A u \in Threads : OuterStep(u)
  /\ \A u \in Threads, k \in Keys : TaskComputes(u, k)' => TaskComputes(u, k) \/ store[k] = 0
  /\ \A u \in Threads : \A c \in Elements(children'[u]) : c.state # "ACTIVE"

LEMMA AgainStays ==
  ASSUME Once, OnceStep, NEW k \in Keys, CommittedAgain(k)
  PROVE  CommittedAgain(k)'
<1>1. PICK t \in Threads :
        \E c \in Elements(children[t]) \cup {outer[t]} : c.key = k /\ "again" \in c.notes
  BY DEF CommittedAgain
<1>2. PICK c \in Elements(children[t]) \cup {outer[t]} : c.key = k /\ "again" \in c.notes
  BY <1>1
<1>3. CASE c \in Elements(children[t])
  BY <1>2, <1>3 DEF OnceStep, ChildrenStay, CommittedAgain
<1>4. CASE c = outer[t]
  <2>1. outer[t].state # "PENDING"
    BY <1>2, <1>4 DEF Once
  <2>2. outer'[t].key = k /\ "again" \in outer'[t].notes
    BY <1>2, <1>4, <2>1 DEF OnceStep, OuterStep
  <2> QED BY <2>2 DEF CommittedAgain
<1> QED BY <1>2, <1>3, <1>4

LEMMA ComputesStays ==
  ASSUME Inv, Once, OnceStep, NEW u \in Threads, NEW k \in Keys, Computes(u, k)'
  PROVE  Computes(u, k) \/ store[k] = 0
<1>1. CASE TaskComputes(u, k)'
  BY <1>1 DEF OnceStep, Computes
<1>2. CASE (outer[u].open /\ "cached" \notin outer[u].notes /\ outer[u].key = k)'
  <2>1. CASE outer'[u] = Begun(outer[u].key) /\ outer[u].key \in Keys
    BY <1>2, <2>1, BegunIs DEF Inv
  <2>2. CASE ~(outer'[u] = Begun(outer[u].key) /\ outer[u].key \in Keys)
    BY <1>2, <2>2 DEF OnceStep, OuterStep, Computes
  <2> QED BY <2>1, <2>2
<1> QED BY <1>1, <1>2 DEF Computes

\* No step makes anybody compute a record that is there, and a record that is written
\* has nobody left to compute it.
LEMMA OnceKeeps ==
  ASSUME Inv, Once, OnceStep,
         \/ store' = store
         \/ \E k \in Keys : /\ store' = [store EXCEPT ![k] = @ + 1]
                            /\ \/ CommittedAgain(k)'
                               \/ Fresh(k) /\ \A u \in Threads : ~Computes(u, k)'
  PROVE  Once'
<1>1. store \in [Keys -> Nat] /\ Types
  BY DEF Inv, Types
<1>2. \A k \in Keys : store[k] <= 1 \/ CommittedAgain(k)
  BY DEF Once, RecordWrittenOnce
<1>3. \A k \in Keys : CommittedAgain(k) => CommittedAgain(k)'
  BY AgainStays
<1>4. \A k \in Keys : /\ store'[k] <= 1 \/ CommittedAgain(k)'
                      /\ \A u \in Threads : Computes(u, k)' => Fresh(k)'
  <2> SUFFICES ASSUME NEW k \in Keys
               PROVE  /\ store'[k] <= 1 \/ CommittedAgain(k)'
                      /\ \A u \in Threads : Computes(u, k)' => Fresh(k)'
    OBVIOUS
  <2>1. ASSUME store'[k] = store[k], NEW u \in Threads, Computes(u, k)'
        PROVE  Fresh(k)'
    <3>1. Computes(u, k) \/ store[k] = 0
      BY <2>1, ComputesStays
    <3>2. Fresh(k)
      BY <3>1 DEF Once, Fresh
    <3> QED BY <1>3, <2>1, <3>2 DEF Fresh
  <2>2. CASE store'[k] = store[k]
    BY <1>2, <1>3, <2>1, <2>2
  <2>3. CASE store'[k] # store[k]
    <3>1. /\ store'[k] = store[k] + 1
          /\ CommittedAgain(k)' \/ (Fresh(k) /\ \A u \in Threads : ~Computes(u, k)')
      BY <1>1, <2>3
    <3>2. CASE CommittedAgain(k)'
      BY <3>2 DEF Fresh
    <3>3. CASE ~CommittedAgain(k)' /\ Fresh(k) /\ \A u \in Threads : ~Computes(u, k)'
      <4>1. store[k] = 0
        BY <1>3, <3>3 DEF Fresh
      <4> QED BY <3>1, <3>3, <4>1
    <3> QED BY <3>1, <3>2, <3>3
  <2> QED BY <2>2, <2>3
<1>5. RecordWrittenOnce'
  BY <1>4 DEF RecordWrittenOnce
<1>6. ASSUME NEW t \in Threads
      PROVE  /\ "cached" \in outer'[t].notes => outer'[t].state = "COMMITTED"
             /\ outer'[t].state = "PENDING" => outer'[t].notes = {}
  <2>1. OuterStep(t) /\ ("cached" \in outer[t].notes => outer[t].state = "COMMITTED")
        /\ (outer[t].state = "PENDING" => outer[t].notes = {})
    BY DEF OnceStep, Once
  <2>2. CASE outer'[t] = Begun(outer[t].key) /\ outer[t].key \in Keys
    <3>1. CASE store[outer[t].key] > 0
      BY <2>2, <3>1 DEF Begun
    <3>2. CASE ~(store[outer[t].key] > 0)
      BY <2>2, <3>2 DEF Begun
    <3> QED BY <3>1, <3>2
  <2>3. CASE ~(outer'[t] = Begun(outer[t].key) /\ outer[t].key \in Keys)
    BY <2>1, <2>3 DEF OuterStep
  <2> QED BY <2>2, <2>3
<1>7. \A t \in Threads : \A c \in Elements(children'[t]) : c.state # "ACTIVE"
  BY DEF OnceStep
<1> QED BY <1>4, <1>5, <1>6, <1>7 DEF Once

\* The outer transactions of the others stay as they are.
LEMMA OuterSteps ==
  ASSUME Inv, NEW t \in Threads, Step(t) \/ Crash(t)
  PROVE  \A u \in Threads : OuterStep(u)
<1>1. ASSUME NEW u \in Threads \ {t}
      PROVE  OuterStep(u)
  <2>1. outer'[u] = outer[u]
    BY StepFrame DEF Inv, Frame
  <2> QED BY <2>1 DEF OuterStep
<1>2. OuterStep(t)
  BY OuterMoves
<1> QED BY <1>1, <1>2

\* What others compute.
LEMMA OthersCompute ==
  ASSUME Inv, NEW t \in Threads, Step(t) \/ Crash(t), NEW u \in Threads \ {t}, NEW k
  PROVE  /\ Computes(u, k)' => Computes(u, k)
         /\ TaskComputes(u, k)' => TaskComputes(u, k)
<1>1. /\ pc'[u] = pc[u] /\ todo'[u] = todo[u] /\ outer'[u] = outer[u]
      /\ current'[u] = current[u] /\ children'[u] = children[u]
  BY StepFrame DEF Inv, Frame
<1> QED BY <1>1 DEF Computes, TaskComputes, Key

LEMMA ElementsAppend ==
  ASSUME NEW s \in Seq(Child), NEW c \in Child
  PROVE  Elements(Append(s, c)) = Elements(s) \cup {c}
<1>1. PICK m, r : m = Len(s) /\ r = Append(s, c)
  OBVIOUS
<1>2. /\ m \in Nat /\ Len(r) = m + 1 /\ r[m + 1] = c /\ \A i \in 1..m : r[i] = s[i]
  BY <1>1, AppendIs
<1>3. 1..(m + 1) = (1..m) \cup {m + 1}
  BY <1>2
<1> QED BY <1>1, <1>2, <1>3 DEF Elements

\* Steps that leave the children alone.
LEMMA QuietStep ==
  ASSUME Inv, Once, NEW t \in Threads, Step(t) \/ Crash(t), children' = children
  PROVE  OnceStep
<1>1. Types /\ ThreadFine(t)
  BY DEF Inv
<1>2. ASSUME NEW k \in Keys, TaskComputes(t, k)'
      PROVE  TaskComputes(t, k) \/ store[k] = 0
  <2>1. CASE pc'[t] = "body" /\ current'[t].state = "ACTIVE" /\ Key(t)' = k
    <3>1. Begin(t)
      BY <1>1, <2>1, ToBody
    <3>2. Key(t) \in Keys /\ Key(t)' = Key(t)
      BY <3>1, KeyIs DEF Begin, Key
    <3>3. PICK b, notes : b = Begun(Key(t)) /\ current'[t] = [b EXCEPT !.notes = notes]
      BY <1>1, <3>1 DEF Begin, Types
    <3>4. b \in Child /\ (b.state = "ACTIVE" => store[Key(t)] = 0)
      BY <1>1, <3>2, <3>3, BegunIs
    <3>5. current'[t].state = b.state
      BY <3>3, <3>4 DEF Child
    <3> QED BY <2>1, <3>2, <3>4, <3>5
  <2>2. CASE \E c \in Elements(children'[t]) : c.open /\ c.state = "STAGED" /\ c.key = k
    BY <2>2 DEF TaskComputes
  <2> QED BY <1>2, <2>1, <2>2 DEF TaskComputes
<1>3. \A u \in Threads, k \in Keys : TaskComputes(u, k)' => TaskComputes(u, k) \/ store[k] = 0
  BY <1>2, OthersCompute
<1>4. ChildrenStay /\ \A u \in Threads : \A c \in Elements(children'[u]) : c.state # "ACTIVE"
  BY DEF ChildrenStay, Once
<1> QED BY <1>3, <1>4, OuterSteps DEF OnceStep

LEMMA QuietOnce ==
  ASSUME Inv, Once, NEW t \in Threads,
         \/ AcquireLock(t) \/ BeginOuter(t) \/ Begin(t) \/ Retry(t) \/ Swallow(t) \/ Stage(t)
         \/ Crash(t) \/ ExitWithError(t) \/ Exit(t) \/ EndRollBack(t)
  PROVE  Once'
<1>1. store' = store /\ children' = children
  BY DEF lockVars, nestVars, AcquireLock, CreateLockFile, WriteLockFile, ReadEmptyLockFile,
         LookUpLock, TakeLock, RegisterLock, BeginOuter, Begin, Retry, Swallow, Stage, Crash,
         ExitWithError, Exit, EndRollBack
<1>2. Step(t) \/ Crash(t)
  BY DEF Step
<1> QED BY <1>1, <1>2, QuietStep, OnceKeeps

\* The outer transaction writes its own record, at the end of the commit.
LEMMA EndOnce ==
  ASSUME Inv, Once, NEW t \in Threads, EndCommit(t)
  PROVE  Once'
<1>1. Types /\ ThreadFine(t) /\ outer[t] \in Outer
  BY DEF Inv, Types
<1>2. children' = children /\ (Step(t) \/ Crash(t))
  BY DEF EndCommit, Step
<1>3. OnceStep
  BY <1>2, QuietStep
<1>4. CASE store' = store
  BY <1>3, <1>4, OnceKeeps
<1>5. CASE store' # store
  <2>1. PICK k : k = outer[t].key
    OBVIOUS
  <2>2. /\ k \in Keys /\ store' = [store EXCEPT ![k] = @ + 1]
        /\ outer' = [outer EXCEPT ![t] = Finished(Again(outer[t]), "COMMITTED")]
        /\ pc' = [pc EXCEPT ![t] = "done"]
    BY <1>1, <1>5, <2>1 DEF EndCommit, CloseOuter, Go, Outer
  <2>3. /\ outer'[t].key = k /\ ~outer'[t].open /\ pc'[t] = "done"
        /\ ~outer[t].open => "again" \in outer'[t].notes
    <3>1. k # None
      BY <2>2, TransactionsAssumption
    <3>2. PICK o : o = Again(outer[t])
      OBVIOUS
    <3>3. o \in Outer /\ o.key = k /\ (~outer[t].open => "again" \in o.notes)
      BY <1>1, <2>1, <3>1, <3>2 DEF Again, Outer, Notes
    <3>4. outer' = [outer EXCEPT ![t] = [o EXCEPT !.state = "COMMITTED", !.open = FALSE]]
      BY <2>2, <3>2 DEF Finished
    <3> QED BY <1>1, <2>2, <3>3, <3>4 DEF Types, Outer
  <2>4. CASE ~outer[t].open
    <3>1. CommittedAgain(k)'
      BY <2>3, <2>4 DEF CommittedAgain
    <3> QED BY <1>3, <2>2, <3>1, OnceKeeps
  <2>5. CASE outer[t].open /\ CommittedAgain(k)
    <3>1. CommittedAgain(k)'
      BY <1>3, <2>2, <2>5, AgainStays
    <3> QED BY <1>3, <2>2, <3>1, OnceKeeps
  <2>6. CASE outer[t].open /\ ~CommittedAgain(k)
    <3>1. outer[t].state # "COMMITTED"
      BY <1>1 DEF EndCommit, ThreadFine, OuterFine
    <3>2. Computes(t, k)
      BY <2>1, <2>6, <3>1 DEF Computes, Once
    <3>3. Fresh(k) /\ \A u \in Threads \ {t} : ~Computes(u, k)'
      BY <1>2, <2>2, <2>6, <3>2, ComputesAlone, OthersCompute DEF Once
    <3>4. \A c \in Elements(children[t]) : c.key # k
      BY <1>1, <2>1 DEF ThreadFine, OwnKey, Elements
    <3>5. ~Computes(t, k)'
      BY <1>2, <2>3, <3>4 DEF Computes, TaskComputes
    <3> QED BY <1>3, <2>2, <3>3, <3>5, OnceKeeps
  <2> QED BY <2>4, <2>5, <2>6
<1> QED BY <1>4, <1>5

\* The outer transaction takes over d, from the current task of t.
LEMMA TakenOver ==
  ASSUME Inv, Once, NEW t \in Threads, Step(t), pc[t] = "body", pc'[t] # "body",
         NEW d \in Child, d.key = Key(t),
         d.state # "ACTIVE", d.open /\ d.state = "STAGED" => current[t].state = "ACTIVE",
         children' = [children EXCEPT ![t] = Append(children[t], d)],
         \/ store' = store
         \/ /\ current[t].state = "ACTIVE" /\ d.state = "COMMITTED"
            /\ store' = [store EXCEPT ![Key(t)] = @ + 1]
  PROVE  Once'
<1>1. /\ Types /\ ThreadFine(t) /\ children[t] \in Seq(Child) /\ Len(children[t]) \in Nat
      /\ todo[t] \in Seq(Keys) /\ todo[t] # <<>>
  BY LenProperties DEF Inv, Types, ThreadFine, TaskFine
<1>2. PICK k : k = Key(t)
  OBVIOUS
<1>3. k \in Keys /\ k = todo[t][1] /\ 1 \in 1..Len(todo[t]) /\ k # outer[t].key
  <2>1. k = Head(todo[t]) /\ k \in Keys
    BY <1>2, KeyIs
  <2>2. k = todo[t][1] /\ 1 \in 1..Len(todo[t])
    BY <1>1, <2>1, TailIs
  <2> QED BY <1>1, <2>1, <2>2 DEF ThreadFine, OwnKey
<1>4. Elements(children'[t]) = Elements(children[t]) \cup {d}
  <2>1. children'[t] = Append(children[t], d)
    BY <1>1 DEF Types
  <2> QED BY <1>1, <2>1, ElementsAppend
<1>5. \A u \in Threads \ {t} : children'[u] = children[u]
  BY <1>1 DEF Types
<1>6. \A j \in Keys : TaskComputes(t, j)' => TaskComputes(t, j)
  BY <1>2, <1>4 DEF TaskComputes
<1>7. OnceStep
  <2>1. ChildrenStay
    BY <1>4, <1>5 DEF ChildrenStay
  <2>2. \A u \in Threads : \A c \in Elements(children'[u]) : c.state # "ACTIVE"
    BY <1>4, <1>5 DEF Once
  <2> QED BY <1>6, <2>1, <2>2, OthersCompute, OuterSteps DEF OnceStep
<1>8. ASSUME current[t].state = "ACTIVE", d.state = "COMMITTED", ~CommittedAgain(k)
      PROVE  Fresh(k) /\ \A u \in Threads : ~Computes(u, k)'
  <2>1. Computes(t, k)
    BY <1>2, <1>8 DEF Computes, TaskComputes
  <2>2. Fresh(k)
    BY <1>3, <2>1 DEF Once
  <2>3. \A u \in Threads \ {t} : ~Computes(u, k)'
    BY <1>3, <1>8, <2>1, ComputesAlone, OthersCompute
  <2>4. \A c \in Elements(children[t]) : c.key = k => ~c.open
    BY <1>1, <1>3 DEF Elements, ThreadFine, KeysFine, Withdrawn
  <2>5. ~Computes(t, k)'
    <3>1. ~TaskComputes(t, k)'
      BY <1>4, <1>8, <2>4 DEF TaskComputes
    <3>2. outer'[t].key # k
      BY <1>3, OuterMoves DEF OuterStep
    <3> QED BY <3>1, <3>2 DEF Computes
  <2> QED BY <2>2, <2>3, <2>5
<1>9. CommittedAgain(k) => CommittedAgain(k)'
  BY <1>3, <1>7, AgainStays
<1>10. \/ store' = store
       \/ \E j \in Keys : /\ store' = [store EXCEPT ![j] = @ + 1]
                          /\ \/ CommittedAgain(j)'
                             \/ Fresh(j) /\ \A u \in Threads : ~Computes(u, j)'
  BY <1>2, <1>3, <1>8, <1>9
<1> QED BY <1>7, <1>10, OnceKeeps

LEMMA TaskOnce ==
  ASSUME Inv, Once, NEW t \in Threads, Succeed(t) \/ Raise(t)
  PROVE  Once'
<1>1. Types /\ ThreadFine(t) /\ pc[t] = "body" /\ Step(t)
  BY DEF Inv, Succeed, Raise, Step
<1>2. PICK c : c = current[t]
  OBVIOUS
<1>3. c \in Child /\ c.key = Key(t) /\ c.open /\ c.state \in {"ACTIVE", "COMMITTED"}
  BY <1>1, <1>2 DEF ThreadFine, TaskFine
<1>4. pc'[t] # "body"
  <2>1. ~Begin(t)
    BY <1>1 DEF Begin
  <2> QED BY <1>1, <2>1, ToBody
<1>5. CASE Raise(t)
  <2>1. PICK d : d = Finished(c, "ROLLED_BACK")
    OBVIOUS
  <2>2. d \in Child /\ d.key = Key(t) /\ d.state = "ROLLED_BACK"
    BY <1>3, <2>1, FinishedIs DEF Final
  <2>3. children' = [children EXCEPT ![t] = Append(children[t], d)] /\ store' = store
    BY <1>2, <1>5, <2>1 DEF Raise, Reset
  <2> QED BY <1>1, <1>4, <2>2, <2>3, TakenOver
<1>6. CASE Succeed(t)
  <2>1. PICK s : s = IF c.state = "COMMITTED" THEN c ELSE [c EXCEPT !.state = "STAGED"]
    OBVIOUS
  <2>2. s \in Child /\ s.key = Key(t) /\ s.state \in {"STAGED", "COMMITTED"}
        /\ (s.state = "STAGED" => c.state = "ACTIVE")
    BY <1>3, <2>1 DEF Child
  <2>3. CASE mode[t] = "EAGER"
    <3>1. PICK d \in CommitResults(s) :
            store' = Written(s, d) /\ children' = [children EXCEPT ![t] = Append(children[t], d)]
      BY <1>2, <1>6, <2>1, <2>3 DEF Succeed, Reset
    <3>2. /\ d \in Child /\ d.key = Key(t) /\ ~d.open /\ d.state \in {s.state} \cup Final
      BY <2>2, <3>1, CommitIs
    <3>3. \/ store' = store
          \/ /\ c.state = "ACTIVE" /\ d.state = "COMMITTED"
             /\ store' = [store EXCEPT ![Key(t)] = @ + 1]
      BY <2>2, <3>1 DEF Written, Final
    <3>4. d.state # "ACTIVE"
      BY <2>2, <3>2 DEF Final
    <3> QED BY <1>1, <1>2, <1>4, <3>1, <3>2, <3>3, <3>4, TakenOver
  <2>4. CASE mode[t] # "EAGER"
    <3>1. children' = [children EXCEPT ![t] = Append(children[t], s)] /\ store' = store
      BY <1>2, <1>6, <2>1, <2>4 DEF Succeed, Reset
    <3> QED BY <1>1, <1>2, <1>4, <2>2, <3>1, TakenOver
  <2> QED BY <2>3, <2>4
<1> QED BY <1>5, <1>6

\* A commit or rollback makes d of the n-th child of t.
LEMMA ChildReplaced ==
  ASSUME Inv, Once, NEW t \in Threads, Step(t), NEW n \in 1..Len(children[t]),
         NEW c, c = children[t][n],
         NEW d \in Child, d.key = c.key, c.notes \subseteq d.notes, d.state # "ACTIVE",
         d = c \/ ~d.open, children' = [children EXCEPT ![t][n] = d], pc'[t] # "body",
         \/ store' = store
         \/ /\ c.state = "STAGED" /\ d.state = "COMMITTED" /\ (c.open \/ "again" \in d.notes)
            /\ store' = [store EXCEPT ![c.key] = @ + 1]
  PROVE  Once'
<1>1. Types /\ ThreadFine(t) /\ children[t] \in Seq(Child) /\ Len(children[t]) \in Nat
  BY LenProperties DEF Inv, Types
<1>2. PICK s, r, k : s = children[t] /\ r = [s EXCEPT ![n] = d] /\ k = c.key
  OBVIOUS
<1>3. children'[t] = r /\ (\A u \in Threads \ {t} : children'[u] = children[u])
  BY <1>1, <1>2 DEF Types
<1>4. /\ c \in Elements(s) /\ d \in Elements(r) /\ k \in Keys
      /\ \A e \in Elements(s) : e = c \/ e \in Elements(r)
      /\ \A e \in Elements(r) : e = d \/ \E i \in 1..Len(s) : i # n /\ e = s[i]
  <2>1. s \in Seq(Child) /\ n \in 1..Len(s) /\ s[n] = c
    BY <1>1, <1>2
  <2>2. k \in Keys
    BY <1>2, <2>1, ChildKeys
  <2>3. Len(r) = Len(s) /\ r[n] = d /\ \A i \in 1..Len(s) : i # n => r[i] = s[i]
    BY <1>2, <2>1, ExceptIs
  <2> QED BY <2>1, <2>2, <2>3 DEF Elements
<1>5. \A e \in Elements(r) : e = d \/ e \in Elements(s)
  BY <1>4 DEF Elements
<1>6. \A j \in Keys : TaskComputes(t, j)' => TaskComputes(t, j)
  <2>1. \A e \in Elements(r) : e.open => e \in Elements(s)
    BY <1>4, <1>5
  <2> QED BY <1>2, <1>3, <2>1 DEF TaskComputes
<1>7. OnceStep
  <2>1. ChildrenStay
    BY <1>2, <1>3, <1>4 DEF ChildrenStay
  <2>2. \A u \in Threads : \A e \in Elements(children'[u]) : e.state # "ACTIVE"
    <3>1. \A e \in Elements(r) : e.state # "ACTIVE"
      BY <1>2, <1>5 DEF Once
    <3> QED BY <1>3, <3>1 DEF Once
  <2> QED BY <1>6, <2>1, <2>2, OthersCompute, OuterSteps DEF OnceStep
<1>8. ASSUME c.state = "STAGED", d.state = "COMMITTED", c.open, ~CommittedAgain(k)
      PROVE  Fresh(k) /\ \A u \in Threads : ~Computes(u, k)'
  <2>1. Computes(t, k)
    BY <1>2, <1>4, <1>8 DEF Computes, TaskComputes
  <2>2. Fresh(k)
    BY <1>4, <2>1 DEF Once
  <2>3. \A u \in Threads \ {t} : ~Computes(u, k)'
    BY <1>4, <1>8, <2>1, ComputesAlone, OthersCompute
  <2>4. ASSUME NEW i \in 1..Len(s), i # n, s[i].key = k
        PROVE  ~s[i].open
    <3>1. i < n \/ n < i
      BY <1>1, <1>2, <2>4
    <3> QED BY <1>1, <1>2, <1>8, <2>4, <3>1 DEF ThreadFine, KeysFine, Withdrawn
  <2>5. ~TaskComputes(t, k)'
    BY <1>3, <1>4, <1>8, <2>4 DEF TaskComputes
  <2>6. outer'[t].key # k
    <3>1. outer[t].key # k
      BY <1>1, <1>2 DEF ThreadFine, OwnKey
    <3> QED BY <3>1, OuterMoves DEF OuterStep
  <2> QED BY <2>2, <2>3, <2>5, <2>6 DEF Computes
<1>9. CommittedAgain(k) => CommittedAgain(k)'
  BY <1>4, <1>7, AgainStays
<1>10. "again" \in d.notes => CommittedAgain(k)'
  BY <1>2, <1>3, <1>4 DEF CommittedAgain
<1>11. \/ store' = store
       \/ \E j \in Keys : /\ store' = [store EXCEPT ![j] = @ + 1]
                          /\ \/ CommittedAgain(j)'
                             \/ Fresh(j) /\ \A u \in Threads : ~Computes(u, j)'
  BY <1>2, <1>4, <1>8, <1>9, <1>10
<1> QED BY <1>7, <1>11, OnceKeeps

\* The child that a rollback or commit comes to.
LEMMA NextChild ==
  ASSUME Inv, NEW t \in Threads, RollBackChild(t) \/ CommitChild(t)
  PROVE  /\ Types /\ next[t] \in 1..Len(children[t]) /\ Len(children[t]) \in Nat
         /\ children[t] \in Seq(Child) /\ children[t][next[t]] \in Child
         /\ pc'[t] # "body"
<1>1. Types /\ ThreadFine(t) /\ children[t] \in Seq(Child) /\ Len(children[t]) \in Nat
  BY LenProperties DEF Inv, Types
<1>2. next[t] \in 1..Len(children[t])
  BY <1>1 DEF RollBackChild, CommitChild, ThreadFine, OuterFine
<1>3. ~Begin(t)
  BY AfterIs DEF Begin, RollBackChild, CommitChild
<1>4. pc'[t] # "body"
  BY <1>1, <1>3, ToBody DEF Step
<1> QED BY <1>1, <1>2, <1>4, ChildKeys

LEMMA ChildOnce ==
  ASSUME Inv, Once, NEW t \in Threads, RollBackChild(t) \/ CommitChild(t)
  PROVE  Once'
<1>1. Step(t) /\ pc'[t] # "body"
  BY NextChild DEF Step
<1>2. PICK n, c : n = next[t] /\ c = children[t][n]
  OBVIOUS
<1>3. n \in 1..Len(children[t]) /\ c \in Child
  BY <1>2, NextChild
<1>4. c.state # "ACTIVE"
  BY <1>2, <1>3 DEF Once, Elements
<1>5. CASE RollBackChild(t)
  <2>1. PICK d \in RollbackResults(c) : children' = [children EXCEPT ![t][n] = d]
    BY <1>2, <1>5 DEF RollBackChild
  <2>2. /\ d \in Child /\ d.key = c.key /\ c.notes \subseteq d.notes
        /\ d.state # "ACTIVE" /\ (d = c \/ ~d.open)
    BY <1>3, <1>4, <2>1, RollbackIs DEF Final
  <2>3. store' = store
    BY <1>5 DEF RollBackChild
  <2> QED BY <1>1, <1>2, <1>3, <2>1, <2>2, <2>3, ChildReplaced
<1>6. CASE CommitChild(t) /\ ~(c.state \in Final /\ ~HoldsLock(t, c.key))
  <2>1. PICK d \in CommitResults(c) :
          children' = [children EXCEPT ![t][n] = d] /\ store' = Written(c, d)
    BY <1>2, <1>6 DEF CommitChild
  <2>2. /\ d \in Child /\ d.key = c.key /\ c.notes \subseteq d.notes /\ ~d.open
        /\ d.state # "ACTIVE" /\ (c.state = "STAGED" /\ ~c.open => "again" \in d.notes)
    BY <1>3, <1>4, <2>1, CommitIs DEF Final
  <2>3. \/ store' = store
        \/ /\ c.state = "STAGED" /\ d.state = "COMMITTED" /\ (c.open \/ "again" \in d.notes)
           /\ store' = [store EXCEPT ![c.key] = @ + 1]
    BY <1>3, <1>4, <2>1, <2>2 DEF Written, Child, Final
  <2> QED BY <1>1, <1>2, <1>3, <2>1, <2>2, <2>3, ChildReplaced
<1>7. CASE CommitChild(t) /\ c.state \in Final /\ ~HoldsLock(t, c.key)
  <2>1. store' = store /\ children' = children
    BY <1>2, <1>7 DEF CommitChild
  <2> QED BY <1>1, <2>1, QuietStep, OnceKeeps
<1> QED BY <1>5, <1>6, <1>7

-----------------------------------------------------------------------------
(* Rollbacks.                                                              *)

\* What RollbackIsTotal says of a step of one thread.
RolledBack(t) ==
  mode[t] # "EAGER" /\ outer'[t].state = "ROLLED_BACK" =>
    /\ Saved(t)' \subseteq Saved(t)
    /\ outer[t].state = "ROLLED_BACK" \/ pc[t] = "committing" \/ Saved(t)' = {}

\* Before the commit nothing that was staged is written.
LEMMA NothingSaved ==
  ASSUME Inv, NEW t \in Threads, Busy(t), mode[t] # "EAGER"
  PROVE  Saved(t) = {}
<1>1. ThreadFine(t)
  BY DEF Inv
<1> QED BY <1>1 DEF ThreadFine, OuterFine, Saved

LEMMA QuietRollback ==
  ASSUME Inv, NEW t \in Threads, children'[t] = children[t],
         outer'[t].state # "ROLLED_BACK" \/ outer[t].state = "ROLLED_BACK"
           \/ pc[t] = "committing" \/ Busy(t)
  PROVE  RolledBack(t)
<1>1. Saved(t)' = Saved(t)
  BY DEF Saved
<1> QED BY <1>1, NothingSaved DEF RolledBack

LEMMA TaskRollback ==
  ASSUME Inv, NEW t \in Threads, Succeed(t) \/ Raise(t)
  PROVE  RolledBack(t)
<1> SUFFICES ASSUME mode[t] # "EAGER"
             PROVE  Saved(t)' = {}
  BY DEF RolledBack
<1>1. /\ Types /\ ThreadFine(t) /\ pc[t] = "body" /\ children[t] \in Seq(Child)
  BY DEF Inv, Types, Succeed, Raise
<1>2. PICK c, m : c = current[t] /\ m = Len(children[t])
  OBVIOUS
<1>3. c \in Child /\ (c.state = "COMMITTED" => "cached" \in c.notes) /\ Saved(t) = {}
  BY <1>1, <1>2, NothingSaved DEF ThreadFine, TaskFine, Busy
<1>4. PICK d \in Child :
        /\ children' = [children EXCEPT ![t] = Append(children[t], d)]
        /\ d.state = "COMMITTED" => "cached" \in d.notes
  <2>1. CASE Raise(t)
    <3>1. children' = [children EXCEPT ![t] = Append(children[t], Finished(c, "ROLLED_BACK"))]
      BY <1>2, <2>1 DEF Raise, Reset
    <3>2. Finished(c, "ROLLED_BACK") \in Child /\ Finished(c, "ROLLED_BACK").state = "ROLLED_BACK"
      BY <1>3, FinishedIs DEF Final
    <3> QED BY <3>1, <3>2
  <2>2. CASE Succeed(t)
    <3>1. PICK s : s = IF c.state = "COMMITTED" THEN c ELSE [c EXCEPT !.state = "STAGED"]
      OBVIOUS
    <3>2. s \in Child /\ (s.state = "COMMITTED" => "cached" \in s.notes)
      BY <1>3, <3>1 DEF Child
    <3>3. children' = [children EXCEPT ![t] = Append(children[t], s)]
      BY <1>2, <2>2, <3>1 DEF Succeed, Reset
    <3> QED BY <3>2, <3>3
  <2> QED BY <2>1, <2>2
<1>5. PICK r : r = Append(children[t], d)
  OBVIOUS
<1>6. /\ m \in Nat /\ Len(r) = m + 1 /\ r[m + 1] = d /\ children'[t] = r
      /\ \A i \in 1..m : r[i] = children[t][i]
  BY <1>1, <1>2, <1>4, <1>5, AppendIs DEF Types
<1>7. \A i \in 1..(m + 1) : i = m + 1 \/ i \in 1..m
  BY <1>6
<1>8. \A i \in 1..m : ~(children[t][i].state = "COMMITTED" /\ "cached" \notin children[t][i].notes)
  BY <1>2, <1>3 DEF Saved
<1>9. \A i \in 1..Len(r) : ~(r[i].state = "COMMITTED" /\ "cached" \notin r[i].notes)
  BY <1>4, <1>6, <1>7, <1>8
<1> QED BY <1>6, <1>9 DEF Saved

LEMMA ChildRollback ==
  ASSUME Inv, NEW t \in Threads, RollBackChild(t) \/ CommitChild(t)
  PROVE  RolledBack(t)
<1> SUFFICES ASSUME outer'[t].state = "ROLLED_BACK"
             PROVE  /\ Saved(t)' \subseteq Saved(t)
                    /\ outer[t].state = "ROLLED_BACK" \/ pc[t] = "committing"
  BY DEF RolledBack
<1>1. /\ Types /\ next[t] \in 1..Len(children[t]) /\ Len(children[t]) \in Nat
      /\ children[t] \in Seq(Child) /\ children[t][next[t]] \in Child
  BY NextChild
<1>2. PICK n, c : n = next[t] /\ c = children[t][n]
  OBVIOUS
<1>3. ASSUME NEW d \in Child, children' = [children EXCEPT ![t][n] = d],
             d.state = "COMMITTED" => d = c
      PROVE  Saved(t)' \subseteq Saved(t)
  <2>1. PICK r : r = [children[t] EXCEPT ![n] = d]
    OBVIOUS
  <2>2. /\ children'[t] = r /\ Len(r) = Len(children[t]) /\ r[n] = d
        /\ \A i \in 1..Len(children[t]) : i # n => r[i] = children[t][i]
    BY <1>1, <1>2, <1>3, <2>1, ExceptIs DEF Types
  <2> QED BY <1>2, <1>3, <2>2 DEF Saved
<1>4. CASE RollBackChild(t)
  <2>1. PICK d \in RollbackResults(c) : children' = [children EXCEPT ![t][n] = d]
    BY <1>2, <1>4 DEF RollBackChild
  <2>2. d \in Child /\ (d.state = "COMMITTED" => d = c)
    BY <1>1, <1>2, <2>1, RollbackIs
  <2>3. outer' = outer
    BY <1>4 DEF RollBackChild
  <2> QED BY <1>3, <2>1, <2>2, <2>3
<1>5. CASE CommitChild(t)
  <2>1. pc[t] = "committing"
    BY <1>5 DEF CommitChild
  <2>2. CASE children' = children
    BY <2>1, <2>2 DEF Saved
  <2>3. CASE children' # children
    <3>1. ThreadFine(t) /\ outer[t].state # "ROLLED_BACK"
      BY <2>1 DEF Inv, ThreadFine, OuterFine
    <3>2. PICK d \in CommitResults(c) : children' = [children EXCEPT ![t][n] = d] /\ d.state # "COMMITTED"
      BY <1>2, <1>5, <2>3, <3>1 DEF CommitChild
    <3>3. d \in Child
      BY <1>1, <1>2, <3>2, CommitIs
    <3> QED BY <1>3, <2>1, <3>2, <3>3
  <2> QED BY <2>2, <2>3
<1> QED BY <1>4, <1>5

LEMMA RollbackStep ==
  ASSUME Inv, NEW t \in Threads, Step(t) \/ Crash(t)
  PROVE  \A u \in Threads : RolledBack(u)
<1> USE DEF lockVars, nestVars
<1>1. Types /\ Frame(t)
  BY StepFrame DEF Inv
<1>2. ASSUME NEW u \in Threads \ {t}
      PROVE  RolledBack(u)
  BY <1>1, <1>2, QuietRollback DEF Frame
<1>3. CASE AcquireLock(t) \/ Begin(t) \/ Retry(t) \/ Swallow(t) \/ Crash(t)
  <2>1. outer' = outer /\ children' = children
    BY <1>3 DEF AcquireLock, CreateLockFile, WriteLockFile, ReadEmptyLockFile, LookUpLock,
         TakeLock, RegisterLock, Begin, Retry, Swallow, Crash
  <2> QED BY <1>2, <2>1, QuietRollback
<1>4. CASE BeginOuter(t) \/ Stage(t) \/ ExitWithError(t) \/ Exit(t)
  <2>1. children' = children /\ Busy(t)
    BY <1>4 DEF BeginOuter, Stage, ExitWithError, Exit, Busy
  <2> QED BY <1>2, <2>1, QuietRollback
<1>5. CASE EndRollBack(t)
  <2>1. children' = children /\ outer' = [outer EXCEPT ![t] = Finished(outer[t], outer[t].state)]
    BY <1>5 DEF EndRollBack, CloseOuter
  <2>2. outer'[t].state = outer[t].state
    <3>1. outer[t] \in Outer
      BY <1>1 DEF Types
    <3> QED BY <1>1, <2>1, <3>1 DEF Types, Outer, Finished
  <2> QED BY <1>2, <2>1, <2>2, QuietRollback
<1>6. CASE EndCommit(t)
  <2>1. children' = children /\ pc[t] = "committing"
    BY <1>6 DEF EndCommit
  <2> QED BY <1>2, <2>1, QuietRollback
<1>7. CASE Succeed(t) \/ Raise(t) \/ RollBackChild(t) \/ CommitChild(t)
  BY <1>2, <1>7, TaskRollback, ChildRollback
<1> QED BY <1>3, <1>4, <1>5, <1>6, <1>7 DEF Step

-----------------------------------------------------------------------------
(* The theorems.                                                           *)

LEMMA InvHolds ==
  ASSUME Managers = {"files"}
  PROVE  Spec => []Inv
<1>1. Init => Inv
  BY InvInit
<1>2. Inv /\ [Next]_vars => Inv'
  BY InvNext
<1> QED BY <1>1, <1>2, PTL DEF Spec

\* With lock files, every variable keeps its type.
THEOREM TypeCorrect ==
  ASSUME Managers = {"files"}
  PROVE  Spec => []TypeOK
<1>1. Inv => TypeOK
  <2> SUFFICES ASSUME Inv PROVE TypeOK
    OBVIOUS
  <2>1. Types
    BY DEF Inv
  <2> QED BY <2>1 DEF Types, TypeOK, Entry
<1> QED BY <1>1, InvHolds, PTL

\* With lock files, two threads never have open transactions of one key: whoever has
\* begun one, as the outer transaction, a child or the current task, has its lock, but
\* for a transaction that was rolled back and staged again (acquire_lock, begin, commit,
\* rollback).
THEOREM OneTransactionAtATime ==
  ASSUME Managers = {"files"}
  PROVE  Spec => []OneOpenTransaction
<1>1. Inv => OneOpenTransaction
  <2> SUFFICES ASSUME Inv, NEW t \in Threads, NEW u \in Threads, t # u,
                      NEW k, k \in OpenKeys(t), k \in OpenKeys(u), ~CommittedAgain(k)
               PROVE  FALSE
    BY DEF OneOpenTransaction
  <2>1. ASSUME NEW v \in Threads, k \in OpenKeys(v)
        PROVE  HoldsLock(v, k)
    <3>1. ThreadFine(v)
      BY DEF Inv
    <3>2. ~Lost(v, k)
      BY DEF Lost, CommittedAgain, Elements
    <3>3. CASE \E c \in Elements(children[v]) : c.open /\ c.key = k
      BY <3>1, <3>2, <3>3 DEF Elements, ThreadFine, LocksFine
    <3>4. CASE outer[v].open /\ outer[v].key = k
      BY <3>1, <3>4 DEF ThreadFine, OwnKey
    <3>5. CASE pc[v] \in {"begin", "body"} /\ k = Key(v)
      BY <3>1, <3>5 DEF ThreadFine, TaskFine
    <3> QED BY <2>1, <3>3, <3>4, <3>5 DEF OpenKeys
  <2> QED BY <2>1 DEF HoldsLock
<1> QED BY <1>1, InvHolds, PTL

\* With lock files, unless a task committed eagerly, a transaction that is rolled back
\* before its commit has written nothing of what was staged in it, and none is written as
\* long as it is rolled back (Transaction.rollback, Transaction.commit, Transaction.reset).
THEOREM RolledBackWhole ==
  ASSUME Managers = {"files"}
  PROVE  Spec => RollbackIsTotal
<1>1. Inv /\ [Next]_vars => [\A t \in Threads : RolledBack(t)]_vars
  BY RollbackStep DEF Next
<1>2. (\A t \in Threads : RolledBack(t)) <=>
        \A t \in Threads :
          mode[t] # "EAGER" /\ outer'[t].state = "ROLLED_BACK" =>
            /\ Saved(t)' \subseteq Saved(t)
            /\ outer[t].state = "ROLLED_BACK" \/ pc[t] = "committing" \/ Saved(t)' = {}
  BY DEF RolledBack
<1> QED BY <1>1, <1>2, InvHolds, PTL DEF Spec, RollbackIsTotal

LEMMA OnceNext == Inv /\ Once /\ [Next]_vars => Once'
<1> SUFFICES ASSUME Inv, Once, [Next]_vars PROVE Once'
  OBVIOUS
<1>1. CASE Next
  <2>1. PICK t \in Threads : Step(t) \/ Crash(t)
    BY <1>1 DEF Next
  <2> QED BY <2>1, QuietOnce, EndOnce, TaskOnce, ChildOnce DEF Step
<1>2. CASE UNCHANGED vars
  BY <1>2 DEF vars, Once, RecordWrittenOnce, Computes, TaskComputes, Fresh, CommittedAgain, Key
<1> QED BY <1>1, <1>2

\* With lock files, a record is written once, but for a transaction that gave its lock
\* back and is committed again: who is going to write it has its lock and found none.
THEOREM RecordsWrittenOnce ==
  ASSUME Managers = {"files"}
  PROVE  Spec => []RecordWrittenOnce
<1>1. Init => Inv /\ Once
  BY InvInit, OnceInit
<1>2. Inv /\ Once /\ [Next]_vars => Once'
  BY OnceNext
<1>3. Inv /\ [Next]_vars => Inv'
  BY InvNext
<1>4. Inv /\ Once => RecordWrittenOnce
  BY DEF Once
<1> QED BY <1>1, <1>2, <1>3, <1>4, PTL DEF Spec

-----------------------------------------------------------------------------
(* Locks that are not given back.                                          *)

\* A lock belongs to a transaction that is about to begin or open: the current task's,
\* a child, or the outer one.
Held(t) ==
  pc[t] # "crashed" => \A k \in Keys : HoldsLock(t, k) =>
    \/ pc[t] \in {"writing", "begin", "body"} /\ k = Key(t)
    \/ \E i \in 1..Len(children[t]) : children[t][i].key = k /\ children[t][i].open
    \/ outer[t].open /\ k = outer[t].key

\* Where the outer transaction is, in the states it has before it is done.
Placed(t) ==
  /\ outer[t].state = "PENDING" => ~outer[t].open /\ children[t] = <<>>
  /\ outer[t].state = "STAGED" =>
       /\ pc[t] \in {"outer", "committing", "rolling_back_done", "done", "crashed"}
       /\ pc[t] = "outer" => todo[t] = <<>>
  /\ pc[t] \in {"rolling_back", "rolling_back_failed"} => outer[t].state = "ROLLED_BACK"
  /\ pc[t] = "rolling_back_done" => outer[t].state \in {"ROLLED_BACK", "STAGED"}
  /\ outer[t].state = "COMMITTED" => pc[t] \in {"done", "crashed"}
  /\ outer[t].open => /\ pc[t] # "done"
                      /\ outer[t].state = "ROLLED_BACK" => pc[t] \in {"crashed"} \cup DOMAIN AfterRollback
  /\ Busy(t) /\ todo[t] # <<>> /\ (\E i \in 1..Len(children[t]) : children[t][i].state = "ROLLED_BACK")
       => outer[t].state = "ROLLED_BACK"

\* What becomes of a child that is open: a commit comes to it, and so does a rollback,
\* unless it has notes.
Settles(t, i, c) ==
  /\ c.state # "ROLLED_BACK" /\ (c.state = "COMMITTED" => c.notes # {}) /\ "again" \notin c.notes
  /\ mode[t] # "EAGER"
  /\ outer[t].state = "ROLLED_BACK" => \/ c.notes # {} \/ pc[t] = "crashed"
                                       \/ (pc[t] \in DOMAIN AfterRollback /\ i <= next[t])
  /\ pc[t] = "committing" => next[t] <= i
  /\ pc[t] = "done" => outer[t].state \in {"ROLLED_BACK", "STAGED"}

\* Every child before the n-th that is open has notes: a rollback need not come to it.
Noted(t, n) ==
  \A i \in 1..Len(children[t]) : i < n /\ children[t][i].open => children[t][i].notes # {}

\* A rollback ends early at a child whose lock is gone: one that was closed and is not
\* over, or whose key a failed attempt has.
Spared(t) ==
  /\ \A i, j \in 1..Len(children[t]) :
       i < j /\ children[t][i].key = children[t][j].key => Noted(t, Len(children[t]) + 1)
  /\ pc[t] \notin {"done", "crashed"} =>
       \A j \in 1..Len(children[t]) :
         ~children[t][j].open /\ children[t][j].state \notin Final =>
           Noted(t, j) \/ (pc[t] \in DOMAIN AfterRollback /\ next[t] < j)

Settling(t) ==
  /\ Placed(t) /\ Spared(t)
  /\ \A i \in 1..Len(children[t]) : children[t][i].open => Settles(t, i, children[t][i])
  /\ pc[t] = "body" => /\ "again" \notin current[t].notes
                       /\ outer[t].state = "ROLLED_BACK" => current[t].notes # {}

GivenBack == \A t \in Threads : Held(t) /\ ("cached" \in outer[t].notes \/ Settling(t))

\* The step gives no lock to another thread than t.
TakesNone(t) ==
  \A u \in Threads \ {t}, k \in Keys : HoldsLock(u, k)' => HoldsLock(u, k)

LEMMA ReleasedIs ==
  ASSUME Types, NEW t \in Threads, NEW k \in Keys, ReleaseLock(t, k)
  PROVE  \A u \in Threads, j \in Keys :
           HoldsLock(u, j)' => HoldsLock(u, j) /\ ~(u = t /\ j = k)
<1>1. CASE HoldsLock(t, k)
  BY <1>1 DEF ReleaseLock, Types, HoldsLock, Entry
<1>2. CASE ~HoldsLock(t, k)
  BY <1>2 DEF ReleaseLock, Types, HoldsLock
<1> QED BY <1>1, <1>2

\* Steps up to the body of a task, those after it failed, and the crash.
LEMMA QuietHeld ==
  ASSUME Inv, NEW t \in Threads, Held(t),
         AcquireLock(t) \/ BeginOuter(t) \/ Begin(t) \/ Retry(t) \/ Swallow(t) \/ Stage(t) \/ Crash(t)
  PROVE  TakesNone(t) /\ Held(t)'
<1> USE DEF lockVars, nestVars
<1>1. Types /\ ThreadFine(t) /\ todo[t] \in Seq(Keys) /\ outer[t] \in Outer
  BY DEF Inv, Types
<1>2. ASSUME NEW p \in {"writing", "begin", "body", "failed", "retrying", "outer", "crashed", "done"},
             pc' = [pc EXCEPT ![t] = p], pc[t] # "crashed", children' = children,
             outer[t].open => outer'[t].open /\ outer'[t].key = outer[t].key,
             \A k \in Keys : HoldsLock(t, k)' =>
                  \/ p \in {"writing", "begin", "body", "crashed"} /\ k = Key(t)'
                  \/ p = "crashed"
                  \/ outer'[t].open /\ k = outer'[t].key
                  \/ HoldsLock(t, k) /\ ~(pc[t] \in {"writing", "begin", "body"} /\ k = Key(t))
      PROVE  Held(t)'
  <2>1. pc'[t] = p
    BY <1>1, <1>2 DEF Types
  <2> QED BY <1>1, <1>2, <2>1 DEF Held
<1>3. Acquiring(t) \/ pc[t] = "writing" => Key(t) \in Keys
  BY KeyIs
<1>4. CASE CreateLockFile(t)
  <2>1. /\ pc' = [pc EXCEPT ![t] = "writing"] /\ pc[t] \in {"entering", "outer", "retrying"}
        /\ UNCHANGED <<todo, outer, current, children, next>> /\ Key(t)' = Key(t)
        /\ entry' = [entry EXCEPT ![Key(t)] = [holder |-> t, lock |-> "empty"]]
    BY <1>4 DEF CreateLockFile, Acquiring, Go, Key
  <2>2. \A u \in Threads, k \in Keys : HoldsLock(u, k)' =>
          HoldsLock(u, k) \/ (u = t /\ k = Key(t))
    BY <1>1, <2>1 DEF HoldsLock, Types
  <2> QED BY <1>2, <2>1, <2>2 DEF TakesNone
<1>5. CASE WriteLockFile(t)
  <2>1. /\ pc' = [pc EXCEPT ![t] = "begin"] /\ pc[t] = "writing"
        /\ UNCHANGED <<todo, outer, current, children, next>> /\ Key(t)' = Key(t)
        /\ entry' = [entry EXCEPT ![Key(t)].lock = "written"]
    BY <1>5 DEF WriteLockFile, Go, Key
  <2>2. HoldsLock(t, Key(t)) /\ Key(t) \in Keys
    BY <1>1, <1>3, <2>1 DEF ThreadFine, TaskFine
  <2>3. \A u \in Threads, k \in Keys : HoldsLock(u, k)' => HoldsLock(u, k)
    BY <1>1, <2>1, <2>2 DEF HoldsLock, Types, Entry
  <2> QED BY <1>2, <2>1, <2>3 DEF TakesNone
<1>6. CASE ReadEmptyLockFile(t)
  <2>1. PICK p \in {"done", "failed"} :
          /\ pc' = [pc EXCEPT ![t] = p] /\ pc[t] \in {"entering", "outer", "retrying"}
          /\ UNCHANGED <<entry, todo, outer, current, children, next>>
    BY <1>6 DEF ReadEmptyLockFile, Acquiring, Go
  <2>2. \A u \in Threads, k \in Keys : HoldsLock(u, k)' => HoldsLock(u, k)
    BY <2>1 DEF HoldsLock
  <2> QED BY <1>2, <2>1, <2>2 DEF TakesNone
<1>7. ~LookUpLock(t) /\ ~TakeLock(t) /\ ~RegisterLock(t)
  BY <1>1 DEF Types, LookUpLock, TakeLock, RegisterLock
<1>8. CASE BeginOuter(t)
  <2>1. /\ pc' = [pc EXCEPT ![t] = "outer"] /\ pc[t] = "begin" /\ Key(t) = outer[t].key
        /\ outer' = [outer EXCEPT ![t] = Begun(Key(t))] /\ Key(t) \in Keys
        /\ UNCHANGED <<entry, todo, current, children, next>>
    BY <1>8, KeyIs DEF BeginOuter, Go, Key
  <2>2. outer'[t].open /\ outer'[t].key = Key(t)
    BY <1>1, <2>1, BegunIs DEF Types
  <2>3. \A u \in Threads, k \in Keys : HoldsLock(u, k)' => HoldsLock(u, k)
    BY <2>1 DEF HoldsLock
  <2> QED BY <1>2, <2>1, <2>2, <2>3 DEF TakesNone
<1>9. CASE Begin(t)
  <2>1. /\ pc' = [pc EXCEPT ![t] = "body"] /\ pc[t] = "begin" /\ Key(t)' = Key(t)
        /\ UNCHANGED <<entry, todo, outer, children, next>>
    BY <1>9 DEF Begin, Go, Key
  <2>2. \A u \in Threads, k \in Keys : HoldsLock(u, k)' => HoldsLock(u, k)
    BY <2>1 DEF HoldsLock
  <2> QED BY <1>2, <2>1, <2>2 DEF TakesNone
<1>10. CASE Retry(t) \/ Swallow(t) \/ Stage(t)
  <2>1. PICK p \in {"retrying", "outer"} :
          /\ pc' = [pc EXCEPT ![t] = p] /\ pc[t] \in {"failed", "outer"}
          /\ UNCHANGED <<entry, current, children, next>>
    <3>1. CASE Stage(t)
      BY <1>1, <3>1 DEF Stage, Types
    <3> QED BY <1>10, <3>1 DEF Retry, Swallow, Go
  <2>2. outer[t].open => outer'[t].open /\ outer'[t].key = outer[t].key
    <3>1. CASE Stage(t)
      BY <1>1, <3>1 DEF Stage, Types, Outer
    <3> QED BY <1>10, <3>1 DEF Retry, Swallow
  <2>3. \A u \in Threads, k \in Keys : HoldsLock(u, k)' => HoldsLock(u, k)
    BY <2>1 DEF HoldsLock
  <2> QED BY <1>2, <2>1, <2>2, <2>3 DEF TakesNone
<1>11. CASE Crash(t)
  <2>1. /\ pc' = [pc EXCEPT ![t] = "crashed"] /\ pc[t] # "crashed"
        /\ UNCHANGED <<entry, todo, outer, current, children, next>>
    BY <1>11 DEF Crash, Go
  <2>2. \A u \in Threads, k \in Keys : HoldsLock(u, k)' => HoldsLock(u, k)
    BY <2>1 DEF HoldsLock
  <2> QED BY <1>2, <2>1, <2>2 DEF TakesNone
<1> QED BY <1>4, <1>5, <1>6, <1>7, <1>8, <1>9, <1>10, <1>11 DEF AcquireLock

\* The outer transaction takes over d, from the current task of t.
LEMMA TakenOverHeld ==
  ASSUME Inv, NEW t \in Threads, Held(t), pc[t] = "body", NEW d \in Child, d.key = Key(t),
         children' = [children EXCEPT ![t] = Append(children[t], d)],
         outer'[t].open = outer[t].open, outer'[t].key = outer[t].key,
         \A k \in Keys : HoldsLock(t, k)' => HoldsLock(t, k) /\ (k = Key(t) => d.open)
  PROVE  Held(t)'
<1>1. Types /\ children[t] \in Seq(Child)
  BY DEF Inv, Types
<1>2. PICK m, r : m = Len(children[t]) /\ r = Append(children[t], d)
  OBVIOUS
<1>3. /\ m \in Nat /\ Len(r) = m + 1 /\ r[m + 1] = d /\ \A i \in 1..m : r[i] = children[t][i]
      /\ 1..m \subseteq 1..(m + 1) /\ m + 1 \in 1..(m + 1) /\ children'[t] = r
  BY <1>1, <1>2, AppendIs DEF Types
<1> SUFFICES ASSUME NEW k \in Keys, HoldsLock(t, k)'
             PROVE  (\E i \in 1..Len(r) : r[i].key = k /\ r[i].open) \/ (outer'[t].open /\ k = outer'[t].key)
  BY <1>3 DEF Held
<1>4. CASE k = Key(t)
  BY <1>3, <1>4
<1>5. CASE k # Key(t)
  <2>1. (\E i \in 1..m : children[t][i].key = k /\ children[t][i].open) \/ (outer[t].open /\ k = outer[t].key)
    BY <1>2, <1>5 DEF Held
  <2> QED BY <1>3, <2>1
<1> QED BY <1>4, <1>5

LEMMA TaskHeld ==
  ASSUME Inv, NEW t \in Threads, Held(t), Succeed(t) \/ Raise(t)
  PROVE  TakesNone(t) /\ Held(t)'
<1>1. /\ Types /\ ThreadFine(t) /\ pc[t] = "body" /\ Step(t)
  BY DEF Inv, Succeed, Raise, Step
<1>2. PICK c : c = current[t]
  OBVIOUS
<1>3. c \in Child /\ c.key = Key(t) /\ c.open /\ Key(t) \in Keys /\ outer[t].state # "PENDING"
  BY <1>1, <1>2, KeyIs DEF ThreadFine, TaskFine
<1>4. outer'[t].key = outer[t].key
  BY <1>1, OuterMoves DEF OuterStep
<1>5. ASSUME NEW d \in Child, d.key = Key(t), NEW after \in {"outer", "failed"}, Reset(t, d, after),
             \/ ReleaseLock(t, Key(t))
             \/ entry' = entry /\ d.open
      PROVE  TakesNone(t) /\ Held(t)'
  <2>1. \A u \in Threads, j \in Keys :
          HoldsLock(u, j)' => HoldsLock(u, j) /\ (u = t /\ j = Key(t) => d.open)
    <3>1. CASE ReleaseLock(t, Key(t))
      BY <1>1, <1>3, <3>1, ReleasedIs
    <3>2. CASE entry' = entry /\ d.open
      BY <3>2 DEF HoldsLock
    <3> QED BY <1>5, <3>1, <3>2
  <2>2. outer'[t].open = outer[t].open
    <3>1. TakesOver(t, d, after)
      BY <1>1, <1>5, ResetIs
    <3> QED BY <1>1, <3>1 DEF TakesOver, Types
  <2>3. children' = [children EXCEPT ![t] = Append(children[t], d)]
    BY <1>5 DEF Reset
  <2> QED BY <1>1, <1>4, <1>5, <2>1, <2>2, <2>3, TakenOverHeld DEF TakesNone
<1>6. CASE Raise(t)
  <2>1. /\ Finished(c, "ROLLED_BACK") \in Child /\ Finished(c, "ROLLED_BACK").key = Key(t)
        /\ Reset(t, Finished(c, "ROLLED_BACK"), "failed") /\ ReleaseLock(t, Key(t))
    BY <1>2, <1>3, <1>6, FinishedIs DEF Raise, Final
  <2> QED BY <1>5, <2>1
<1>7. CASE Succeed(t)
  <2>1. PICK s : s = IF c.state = "COMMITTED" THEN c ELSE [c EXCEPT !.state = "STAGED"]
    OBVIOUS
  <2>2. s \in Child /\ s.key = Key(t) /\ s.open
    BY <1>3, <2>1 DEF Child
  <2>3. CASE mode[t] = "EAGER"
    <3>1. PICK d \in CommitResults(s) : Reset(t, d, "outer") /\ ReleaseLock(t, Key(t))
      BY <1>2, <1>3, <1>7, <2>1, <2>3 DEF Succeed
    <3>2. d \in Child /\ d.key = Key(t)
      BY <2>2, <3>1, CommitIs
    <3> QED BY <1>5, <3>1, <3>2
  <2>4. CASE mode[t] # "EAGER"
    <3>1. Reset(t, s, "outer") /\ entry' = entry
      BY <1>2, <1>7, <2>1, <2>4 DEF Succeed
    <3> QED BY <1>5, <2>2, <3>1
  <2> QED BY <2>3, <2>4
<1> QED BY <1>6, <1>7

\* The outer transaction goes on, or gives back its lock.
LEMMA OuterHeld ==
  ASSUME Inv, NEW t \in Threads, Held(t), children'[t] = children[t],
         pc[t] \notin {"writing", "begin", "body", "crashed"},
         outer'[t].key = outer[t].key,
         \/ entry' = entry /\ outer'[t].open = outer[t].open
         \/ /\ ~outer'[t].open
            /\ IF outer[t].open THEN ReleaseLock(t, outer[t].key) ELSE entry' = entry
  PROVE  TakesNone(t) /\ Held(t)'
<1>1. Types /\ (outer[t].open => outer[t].key \in Keys)
  BY DEF Inv, ThreadFine, OwnKey
<1>2. \A u \in Threads, k \in Keys :
        HoldsLock(u, k)' =>
          HoldsLock(u, k) /\ (u = t /\ outer[t].open /\ k = outer[t].key => outer'[t].open)
  <2>1. CASE outer[t].open /\ ReleaseLock(t, outer[t].key)
    BY <1>1, <2>1, ReleasedIs
  <2>2. CASE entry' = entry /\ (outer[t].open => outer'[t].open)
    BY <2>2 DEF HoldsLock
  <2> QED BY <2>1, <2>2
<1>3. ASSUME NEW k \in Keys, HoldsLock(t, k)'
      PROVE  \/ \E i \in 1..Len(children'[t]) : children'[t][i].key = k /\ children'[t][i].open
             \/ outer'[t].open /\ k = outer'[t].key
  BY <1>2, <1>3 DEF Held
<1> QED BY <1>2, <1>3 DEF TakesNone, Held

LEMMA FailIs ==
  ASSUME Inv, NEW t \in Threads, RollBackFrom(t, Len(children[t]), "done")
  PROVE  /\ Len(children[t]) \in Nat /\ pc'[t] = "rolling_back_done"
         /\ outer'[t].open = outer[t].open /\ outer'[t].notes = outer[t].notes
         /\ outer'[t].key = outer[t].key
         /\ \/ outer'[t].state = "ROLLED_BACK" /\ next'[t] = Len(children[t])
            \/ outer'[t] = outer[t] /\ outer[t].state = "STAGED" /\ next'[t] = 0
<1>1. Types
  BY DEF Inv
<1>2. PICK m : m = Len(children[t])
  OBVIOUS
<1>3. m \in Nat /\ RollBackFrom(t, m, "done")
  BY <1>1, <1>2, LenProperties DEF Types
<1>4. PICK p \in DOMAIN AfterRollback, o \in Outer, n \in {0, m} :
        /\ AfterRollback[p] = "done" /\ pc' = [pc EXCEPT ![t] = p]
        /\ outer' = [outer EXCEPT ![t] = o] /\ next' = [next EXCEPT ![t] = n]
        /\ o.key = outer[t].key /\ o.open = outer[t].open /\ o.notes = outer[t].notes
        /\ \/ o.state = "ROLLED_BACK" /\ n = m
           \/ o = outer[t] /\ o.state = "STAGED" /\ n = 0
  BY <1>1, <1>3, RollBackFromIs
<1>5. p = "rolling_back_done"
  BY <1>4, AfterIs
<1> QED BY <1>1, <1>2, <1>3, <1>4, <1>5 DEF Types

LEMMA EndHeld ==
  ASSUME Inv, NEW t \in Threads, Held(t),
         ExitWithError(t) \/ Exit(t) \/ EndCommit(t) \/ EndRollBack(t)
  PROVE  TakesNone(t) /\ Held(t)'
<1>1. Types /\ Step(t)
  BY DEF Inv, Step
<1>2. outer'[t].key = outer[t].key /\ children'[t] = children[t]
  BY <1>1, OuterMoves DEF OuterStep, ExitWithError, Exit, EndCommit, EndRollBack
<1>3. pc[t] \notin {"writing", "begin", "body", "crashed"}
  BY AfterIs DEF ExitWithError, Exit, EndCommit, EndRollBack
<1>4. ASSUME NEW o, NEW s, CloseOuter(t, o, s), o \in Outer
      PROVE  /\ ~outer'[t].open
             /\ IF outer[t].open THEN ReleaseLock(t, outer[t].key) ELSE entry' = entry
  BY <1>1, <1>4 DEF CloseOuter, Finished, Outer, Types
<1>5. outer[t] \in Outer /\ Again(outer[t]) \in Outer
  BY <1>1 DEF Types, Again, Outer, Notes
<1>6. ASSUME RollBackOuter(t)
      PROVE  outer'[t].open = outer[t].open
  BY <1>6, FailIs DEF RollBackOuter
<1>7. CASE ExitWithError(t)
  BY <1>2, <1>3, <1>6, <1>7, OuterHeld DEF ExitWithError, lockVars
<1>8. CASE Exit(t)
  <2>1. CASE RollBackOuter(t) /\ UNCHANGED <<entry, taken>>
    BY <1>2, <1>3, <1>6, <2>1, OuterHeld
  <2>2. CASE CloseOuter(t, outer[t], outer[t].state)
    BY <1>2, <1>3, <1>4, <1>5, <2>2, OuterHeld
  <2>3. CASE StartCommit(t)
    BY <1>2, <1>3, <2>3, OuterHeld DEF StartCommit
  <2> QED BY <1>8, <2>1, <2>2, <2>3 DEF Exit
<1>9. CASE EndCommit(t)
  <2>1. CASE CloseOuter(t, Again(outer[t]), "COMMITTED")
    BY <1>2, <1>3, <1>4, <1>5, <2>1, OuterHeld
  <2>2. CASE FailCommit(t) /\ entry' = entry
    BY <1>2, <1>3, <2>2, FailIs, OuterHeld DEF FailCommit
  <2> QED BY <1>9, <2>1, <2>2 DEF EndCommit
<1>10. CASE EndRollBack(t)
  BY <1>2, <1>3, <1>4, <1>5, <1>10, OuterHeld DEF EndRollBack
<1> QED BY <1>7, <1>8, <1>9, <1>10

\* What a commit or rollback makes of the next child of t: it is over and its lock given
\* back, or it stays as it is, and the locks too.
Replaced(t, n, d) ==
  /\ d \in Child /\ d.key = children[t][n].key /\ children[t][n].notes \subseteq d.notes
  /\ Len(children'[t]) = Len(children[t]) /\ children'[t][n] = d
  /\ \A i \in 1..Len(children[t]) : i # n => children'[t][i] = children[t][i]
  /\ \/ ~d.open /\ ReleaseLock(t, d.key) /\ (children[t][n].state = "ROLLED_BACK" => d.state = "ROLLED_BACK")
     \/ d = children[t][n] /\ entry' = entry

LEMMA ReplacedIs ==
  ASSUME Inv, NEW t \in Threads, RollBackChild(t) \/ CommitChild(t)
  PROVE  \E d : Replaced(t, next[t], d)
<1>1. /\ Types /\ next[t] \in 1..Len(children[t]) /\ Len(children[t]) \in Nat
      /\ children[t] \in Seq(Child) /\ children[t][next[t]] \in Child
  BY NextChild
<1>2. PICK n, c : n = next[t] /\ c = children[t][n]
  OBVIOUS
<1>3. ASSUME NEW d \in Child, children' = [children EXCEPT ![t][n] = d]
      PROVE  /\ Len(children'[t]) = Len(children[t]) /\ children'[t][n] = d
             /\ \A i \in 1..Len(children[t]) : i # n => children'[t][i] = children[t][i]
  <2>1. PICK r : r = [children[t] EXCEPT ![n] = d]
    OBVIOUS
  <2>2. /\ Len(r) = Len(children[t]) /\ r[n] = d
        /\ \A i \in 1..Len(children[t]) : i # n => r[i] = children[t][i]
    BY <1>1, <1>2, <2>1, ExceptIs
  <2>3. children'[t] = r
    BY <1>1, <1>3, <2>1 DEF Types
  <2> QED BY <2>2, <2>3
<1>4. CASE RollBackChild(t)
  <2>1. PICK d \in RollbackResults(c) : children' = [children EXCEPT ![t][n] = d]
    BY <1>2, <1>4 DEF RollBackChild
  <2>2. /\ d \in Child /\ d.key = c.key /\ c.notes \subseteq d.notes /\ (c.state \in Final => d = c)
        /\ c.state \notin Final => ~d.open
    BY <1>1, <1>2, <2>1, RollbackIs
  <2>3. \/ c.state \in Final /\ entry' = entry
        \/ c.state \notin Final /\ ReleaseLock(t, c.key)
    BY <1>2, <1>4 DEF RollBackChild
  <2>4. Replaced(t, n, d)
    BY <1>2, <1>3, <2>1, <2>2, <2>3 DEF Replaced, Final
  <2> QED BY <1>2, <2>4
<1>5. CASE CommitChild(t) /\ c.state \in Final /\ ~HoldsLock(t, c.key)
  <2>1. children' = children /\ entry' = entry
    BY <1>2, <1>5 DEF CommitChild
  <2>2. Replaced(t, n, c)
    BY <1>1, <1>2, <2>1 DEF Replaced
  <2> QED BY <1>2, <2>2
<1>6. CASE CommitChild(t) /\ ~(c.state \in Final /\ ~HoldsLock(t, c.key))
  <2>1. PICK d \in CommitResults(c) :
          children' = [children EXCEPT ![t][n] = d] /\ ReleaseLock(t, c.key)
    BY <1>2, <1>6 DEF CommitChild
  <2>2. /\ d \in Child /\ d.key = c.key /\ c.notes \subseteq d.notes /\ ~d.open
        /\ c.state \in Final => d.state = c.state
    BY <1>1, <1>2, <2>1, CommitIs
  <2>3. Replaced(t, n, d)
    BY <1>2, <1>3, <2>1, <2>2 DEF Replaced, Final
  <2> QED BY <1>2, <2>3
<1> QED BY <1>4, <1>5, <1>6

LEMMA ChildHeld ==
  ASSUME Inv, NEW t \in Threads, Held(t), RollBackChild(t) \/ CommitChild(t)
  PROVE  TakesNone(t) /\ Held(t)'
<1>1. /\ Types /\ next[t] \in 1..Len(children[t]) /\ children[t][next[t]] \in Child /\ Step(t)
  BY NextChild DEF Step
<1>2. PICK n, c : n = next[t] /\ c = children[t][n]
  OBVIOUS
<1>3. PICK d : Replaced(t, n, d)
  BY <1>2, ReplacedIs
<1>4. c.key \in Keys /\ d.key = c.key
  BY <1>1, <1>2, <1>3 DEF Replaced, Child
<1>5. \A u \in Threads, k \in Keys :
        HoldsLock(u, k)' => HoldsLock(u, k) /\ (u = t /\ k = c.key => d = c)
  <2>1. CASE ReleaseLock(t, c.key)
    BY <1>1, <1>4, <2>1, ReleasedIs
  <2>2. CASE entry' = entry /\ d = c
    BY <2>2 DEF HoldsLock
  <2> QED BY <1>2, <1>3, <1>4, <2>1, <2>2 DEF Replaced
<1>6. outer'[t].key = outer[t].key /\ outer'[t].open = outer[t].open
  <2>1. CASE outer' = outer
    BY <2>1
  <2>2. CASE RollBackFrom(t, Len(children[t]), "done")
    BY <2>2, FailIs
  <2> QED BY <2>1, <2>2 DEF RollBackChild, CommitChild, FailCommit
<1>7. pc[t] \notin {"writing", "begin", "body", "crashed"}
  BY AfterIs DEF RollBackChild, CommitChild
<1>8. ASSUME NEW k \in Keys, HoldsLock(t, k)'
      PROVE  \/ \E i \in 1..Len(children'[t]) : children'[t][i].key = k /\ children'[t][i].open
             \/ outer'[t].open /\ k = outer'[t].key
  <2>1. HoldsLock(t, k) /\ (k = c.key => d = c)
    BY <1>5, <1>8
  <2>2. CASE outer[t].open /\ k = outer[t].key
    BY <1>6, <2>2
  <2>3. CASE \E i \in 1..Len(children[t]) : children[t][i].key = k /\ children[t][i].open
    <3>1. PICK i \in 1..Len(children[t]) : children[t][i].key = k /\ children[t][i].open
      BY <2>3
    <3>2. children'[t][i] = children[t][i]
      BY <1>2, <1>3, <2>1, <3>1 DEF Replaced
    <3> QED BY <1>3, <3>1, <3>2 DEF Replaced
  <2> QED BY <1>7, <2>1, <2>2, <2>3 DEF Held
<1> QED BY <1>5, <1>8 DEF TakesNone, Held

\* The locks of t, whatever its step.
LEMMA HeldStep ==
  ASSUME Inv, NEW t \in Threads, Held(t), Step(t) \/ Crash(t)
  PROVE  TakesNone(t) /\ Held(t)'
BY QuietHeld, TaskHeld, EndHeld, ChildHeld DEF Step

LEMMA ModeStays ==
  ASSUME NEW t \in Threads, Step(t) \/ Crash(t)
  PROVE  mode' = mode
BY DEF Step, AcquireLock, CreateLockFile, WriteLockFile, ReadEmptyLockFile, LookUpLock, TakeLock,
       RegisterLock, BeginOuter, Begin, Succeed, Raise, Retry, Swallow, Stage, ExitWithError,
       RollBackChild, EndRollBack, Exit, CommitChild, EndCommit, Crash, lockVars

\* A rollback of the outer transaction that is over came to every child without notes.
LEMMA AllNoted ==
  ASSUME Types, NEW t \in Threads, Settling(t), outer[t].state = "ROLLED_BACK",
         pc[t] # "crashed", pc[t] \notin DOMAIN AfterRollback \/ next[t] = 0
  PROVE  \A n : Noted(t, n)
<1> SUFFICES ASSUME NEW i \in 1..Len(children[t]), children[t][i].open
             PROVE  children[t][i].notes # {}
  BY DEF Noted
<1>1. Settles(t, i, children[t][i])
  BY DEF Settling
<1>2. ~(i <= 0)
  OBVIOUS
<1> QED BY <1>1, <1>2 DEF Settles

\* A step that leaves the children alone.
LEMMA OuterSettles ==
  ASSUME Types, NEW t \in Threads, Settling(t), children'[t] = children[t], mode' = mode,
         Placed(t)',
         \/ outer'[t].state # "ROLLED_BACK"
         \/ \A n : Noted(t, n)
         \/ pc'[t] = "crashed"
         \/ pc'[t] \in DOMAIN AfterRollback /\ next'[t] = Len(children[t]),
         pc'[t] = "committing" => next'[t] = 1,
         pc'[t] = "done" =>
           \/ outer'[t].state \in {"ROLLED_BACK", "STAGED"}
           \/ \A i \in 1..Len(children[t]) : ~children[t][i].open,
         \/ pc'[t] \in {"done", "crashed"}
         \/ pc[t] \notin {"done", "crashed"} \cup DOMAIN AfterRollback
         \/ pc[t] \notin {"done", "crashed"} /\ \A n : Noted(t, n),
         pc'[t] = "body" => /\ "again" \notin current'[t].notes
                            /\ outer'[t].state = "ROLLED_BACK" => current'[t].notes # {}
  PROVE  Settling(t)'
<1>1. Len(children[t]) \in Nat /\ \A n : Noted(t, n)' <=> Noted(t, n)
  BY LenProperties DEF Types, Noted
<1>2. Spared(t)'
  <2>1. pc'[t] \notin {"done", "crashed"} => pc[t] \notin {"done", "crashed"} /\
          \A j \in 1..Len(children[t]) :
            ~children[t][j].open /\ children[t][j].state \notin Final => Noted(t, j)
    BY DEF Settling, Spared
  <2>2. \A i, j \in 1..Len(children[t]) :
          i < j /\ children[t][i].key = children[t][j].key => Noted(t, Len(children[t]) + 1)
    BY DEF Settling, Spared
  <2> QED BY <1>1, <2>1, <2>2 DEF Spared
<1>3. ASSUME NEW i \in 1..Len(children[t]), children[t][i].open
      PROVE  Settles(t, i, children[t][i])'
  <2>1. Settles(t, i, children[t][i])
    BY <1>3 DEF Settling
  <2>2. i < Len(children[t]) + 1 /\ i <= Len(children[t]) /\ 1 <= i
    BY <1>1
  <2>3. (\A n : Noted(t, n)) => children[t][i].notes # {}
    BY <1>3, <2>2 DEF Noted
  <2> QED BY <1>3, <2>1, <2>2, <2>3 DEF Settles
<1> QED BY <1>2, <1>3 DEF Settling

\* Steps that begin a transaction, those after it failed, and the crash.
LEMMA QuietSettles ==
  ASSUME Inv, Once, NEW t \in Threads, Settling(t),
         AcquireLock(t) \/ BeginOuter(t) \/ Begin(t) \/ Retry(t) \/ Swallow(t) \/ Stage(t) \/ Crash(t)
  PROVE  "cached" \in outer'[t].notes \/ Settling(t)'
<1> USE DEF lockVars, nestVars
<1>1. Types /\ ThreadFine(t) /\ outer[t] \in Outer /\ Placed(t) /\ mode' = mode
  BY ModeStays DEF Inv, Types, Settling, Step
<1>2. outer[t].state = "ROLLED_BACK" /\ pc[t] \notin {"crashed"} \cup DOMAIN AfterRollback =>
        \A n : Noted(t, n)
  BY <1>1, AllNoted
<1>3. CASE AcquireLock(t)
  <2>1. CASE CreateLockFile(t)
    <3>1. /\ pc'[t] = "writing" /\ pc[t] \in {"entering", "outer", "retrying"}
          /\ pc[t] = "outer" => todo[t] # <<>>
          /\ UNCHANGED <<todo, outer, current, children, next>>
      BY <1>1, <2>1 DEF CreateLockFile, Acquiring, Go, Types
    <3>2. Placed(t)'
      BY <1>1, <3>1, AfterIs DEF Placed, Busy
    <3> QED BY <1>1, <1>2, <3>1, <3>2, AfterIs, OuterSettles
  <2>2. CASE WriteLockFile(t)
    <3>1. /\ pc'[t] = "begin" /\ pc[t] = "writing"
          /\ UNCHANGED <<todo, outer, current, children, next>>
      BY <1>1, <2>2 DEF WriteLockFile, Go, Types
    <3>2. Placed(t)'
      BY <1>1, <3>1, AfterIs DEF Placed, Busy
    <3> QED BY <1>1, <1>2, <3>1, <3>2, AfterIs, OuterSettles
  <2>3. CASE ReadEmptyLockFile(t)
    <3>1. /\ pc'[t] = IF pc[t] = "entering" THEN "done" ELSE "failed"
          /\ pc[t] \in {"entering", "outer", "retrying"} /\ (pc[t] = "outer" => todo[t] # <<>>)
          /\ UNCHANGED <<todo, outer, current, children, next>>
      BY <1>1, <2>3 DEF ReadEmptyLockFile, Acquiring, Go, Types
    <3>2. pc[t] = "entering" => outer[t].state = "PENDING" /\ ~outer[t].open /\ children[t] = <<>>
      BY <1>1 DEF ThreadFine, OuterFine, Placed
    <3>3. Placed(t)'
      BY <1>1, <3>1, <3>2, AfterIs DEF Placed, Busy
    <3>4. children[t] = <<>> => \A i \in 1..Len(children[t]) : ~children[t][i].open
      OBVIOUS
    <3> QED BY <1>1, <1>2, <3>1, <3>2, <3>3, <3>4, AfterIs, OuterSettles
  <2>4. ~LookUpLock(t) /\ ~TakeLock(t) /\ ~RegisterLock(t)
    BY <1>1 DEF Types, LookUpLock, TakeLock, RegisterLock
  <2> QED BY <1>3, <2>1, <2>2, <2>3, <2>4 DEF AcquireLock
<1>4. CASE BeginOuter(t)
  <2>1. /\ pc'[t] = "outer" /\ pc[t] = "begin" /\ Key(t) = outer[t].key /\ Key(t) \in Keys
        /\ outer'[t] = Begun(Key(t)) /\ outer[t].state = "PENDING"
        /\ UNCHANGED <<todo, current, children, next>>
    BY <1>1, <1>4, KeyIs DEF BeginOuter, Go, Key, Types
  <2>2. /\ children[t] = <<>> /\ (\A i \in 1..Len(children[t]) : FALSE)
        /\ outer'[t].state \in {"ACTIVE", "COMMITTED"}
        /\ outer'[t].state = "COMMITTED" => "cached" \in outer'[t].notes
    BY <1>1, <2>1, BegunIs DEF Placed
  <2>3. /\ children'[t] = children[t] /\ (\A i \in 1..Len(children'[t]) : FALSE)
        /\ pc'[t] = "outer" /\ pc[t] = "begin"
    BY <2>1, <2>2
  <2>4. CASE outer'[t].state = "ACTIVE"
    <3>1. Placed(t)'
      BY <2>3, <2>4, AfterIs DEF Placed
    <3> QED BY <1>1, <2>3, <2>4, <3>1, AfterIs, OuterSettles
  <2> QED BY <2>2, <2>4
<1>5. CASE Begin(t)
  <2>1. /\ pc'[t] = "body" /\ pc[t] = "begin" /\ outer[t].state # "PENDING"
        /\ UNCHANGED <<todo, outer, children, next>> /\ Key(t) \in Keys
    BY <1>1, <1>5, KeyIs DEF Begin, Go, Types
  <2>2. /\ "again" \notin current'[t].notes
        /\ outer[t].state = "ROLLED_BACK" => "late" \in current'[t].notes
    <3>1. PICK b, late : /\ b = Begun(Key(t)) /\ late = IF outer[t].state = "ROLLED_BACK" THEN {"late"} ELSE {}
      OBVIOUS
    <3>2. PICK c : c = [b EXCEPT !.notes = b.notes \cup late]
      OBVIOUS
    <3>3. current' = [current EXCEPT ![t] = c]
      BY <1>5, <3>1, <3>2 DEF Begin
    <3>4. b \in Child /\ "again" \notin b.notes
      BY <1>1, <2>1, <3>1, BegunIs
    <3>5. c.notes = b.notes \cup late
      BY <3>2, <3>4 DEF Child
    <3>6. "again" \notin late /\ (outer[t].state = "ROLLED_BACK" => "late" \in late)
      BY <3>1
    <3> QED BY <1>1, <3>3, <3>4, <3>5, <3>6 DEF Types
  <2>3. Placed(t)'
    BY <1>1, <2>1, AfterIs DEF Placed, Busy
  <2> QED BY <1>1, <1>2, <2>1, <2>2, <2>3, AfterIs, OuterSettles
<1>6. CASE Retry(t) \/ Swallow(t)
  <2>1. /\ pc'[t] \in {"retrying", "outer"} /\ pc[t] = "failed"
        /\ UNCHANGED <<outer, current, children, next>>
    BY <1>1, <1>6 DEF Retry, Swallow, Go, Types
  <2>2. todo'[t] # <<>> => todo[t] # <<>>
    BY <1>1, <2>1 DEF ThreadFine, TaskFine
  <2>3. Placed(t)'
    BY <1>1, <2>1, <2>2, AfterIs DEF Placed, Busy
  <2> QED BY <1>1, <1>2, <2>1, <2>3, AfterIs, OuterSettles
<1>7. CASE Stage(t)
  <2>1. /\ pc'[t] = "outer" /\ pc[t] = "outer" /\ todo[t] = <<>> /\ outer'[t].state = "STAGED"
        /\ outer'[t].open = outer[t].open
        /\ UNCHANGED <<todo, current, children, next>>
    BY <1>1, <1>7 DEF Stage, Types, Outer
  <2>2. Placed(t)'
    BY <2>1, AfterIs DEF Placed
  <2> QED BY <1>1, <2>1, <2>2, AfterIs, OuterSettles
<1>8. CASE Crash(t)
  <2>1. /\ pc'[t] = "crashed" /\ pc[t] # "crashed"
        /\ UNCHANGED <<todo, outer, current, children, next>>
    BY <1>1, <1>8 DEF Crash, Go, Types
  <2>2. Placed(t)'
    BY <1>1, <2>1, AfterIs DEF Placed, Busy
  <2> QED BY <1>1, <2>1, <2>2, AfterIs, OuterSettles
<1> QED BY <1>3, <1>4, <1>5, <1>6, <1>7, <1>8

LEMMA FailSettles ==
  ASSUME Inv, NEW t \in Threads, Settling(t), RollBackFrom(t, Len(children[t]), "done"),
         children'[t] = children[t], mode' = mode, pc[t] \in {"outer", "failed", "committing"}
  PROVE  Settling(t)'
<1>1. /\ Types /\ pc'[t] = "rolling_back_done"
      /\ outer'[t].open = outer[t].open
      /\ \/ outer'[t].state = "ROLLED_BACK" /\ next'[t] = Len(children[t])
         \/ outer'[t] = outer[t] /\ outer[t].state = "STAGED" /\ next'[t] = 0
  BY FailIs DEF Inv
<1>2. Placed(t)'
  BY <1>1, AfterIs DEF Placed, Busy
<1>3. pc[t] \notin {"done", "crashed"} \cup DOMAIN AfterRollback /\ pc'[t] \in DOMAIN AfterRollback
  BY <1>1, AfterIs
<1>4. outer'[t].state = "ROLLED_BACK" => next'[t] = Len(children[t])
  BY <1>1
<1> QED BY <1>1, <1>2, <1>3, <1>4, OuterSettles

LEMMA EndSettles ==
  ASSUME Inv, NEW t \in Threads, Settling(t),
         ExitWithError(t) \/ Exit(t) \/ EndCommit(t) \/ EndRollBack(t)
  PROVE  Settling(t)'
<1>1. /\ Types /\ ThreadFine(t) /\ Placed(t) /\ mode' = mode
      /\ children'[t] = children[t] /\ todo' = todo
  BY ModeStays DEF Inv, Settling, Step, ExitWithError, Exit, EndCommit, EndRollBack
<1>2. outer[t].state = "ROLLED_BACK" /\ (pc[t] \notin {"crashed"} \cup DOMAIN AfterRollback
        \/ (pc[t] # "crashed" /\ next[t] = 0)) => \A n : Noted(t, n)
  BY <1>1, AllNoted
<1>3. ASSUME NEW o \in Outer, NEW s, CloseOuter(t, o, s)
      PROVE  outer'[t].state = s /\ ~outer'[t].open
  BY <1>1, <1>3 DEF CloseOuter, Finished, Outer, Types
<1>4. outer[t] \in Outer /\ Again(outer[t]) \in Outer
      /\ outer[t].state \in {"PENDING", "ACTIVE", "STAGED", "COMMITTED", "ROLLED_BACK"}
  BY <1>1 DEF Types, Again, Outer, Notes, Final
<1>5. ASSUME pc[t] \in {"outer", "failed"}, outer[t].state \in Final, pc'[t] = "done",
             outer'[t].state = outer[t].state, ~outer'[t].open
      PROVE  Settling(t)'
  <2>1. outer[t].state = "ROLLED_BACK" /\ \A n : Noted(t, n)
    BY <1>1, <1>2, <1>5, AfterIs DEF Placed, Final
  <2>2. Placed(t)'
    BY <1>1, <1>5, <2>1, AfterIs DEF Placed, Busy
  <2> QED BY <1>1, <1>5, <2>1, <2>2, AfterIs, OuterSettles
<1>6. ASSUME RollBackOuter(t), pc[t] \in {"outer", "failed"}
      PROVE  Settling(t)'
  <2>1. CASE outer[t].state \in Final
    <3>1. outer' = outer /\ pc'[t] = "done"
      BY <1>1, <1>6, <2>1 DEF RollBackOuter, Go, Types
    <3>2. ~outer[t].open
      BY <1>1, <1>6, <2>1, AfterIs DEF Placed, Final
    <3> QED BY <1>5, <1>6, <2>1, <3>1, <3>2
  <2>2. CASE outer[t].state \notin Final
    BY <1>1, <1>6, <2>2, FailSettles DEF RollBackOuter
  <2> QED BY <2>1, <2>2
<1>7. CASE ExitWithError(t)
  BY <1>6, <1>7 DEF ExitWithError
<1>8. CASE Exit(t)
  <2>1. CASE RollBackOuter(t)
    BY <1>6, <1>8, <2>1 DEF Exit
  <2>2. CASE CloseOuter(t, outer[t], outer[t].state) /\ Go(t, "done") /\ outer[t].state \in Final
    <3>1. pc'[t] = "done" /\ pc[t] = "outer"
      BY <1>1, <1>8, <2>2 DEF Exit, Go, Types
    <3> QED BY <1>3, <1>4, <1>5, <2>2, <3>1
  <2>3. CASE StartCommit(t) /\ outer[t].state \notin Final
    <3>1. pc'[t] = "committing" /\ pc[t] = "outer" /\ outer' = outer /\ next'[t] = 1
      BY <1>1, <1>8, <2>3 DEF Exit, StartCommit, Go, Types
    <3>2. outer[t].state # "ROLLED_BACK" /\ outer[t].state # "COMMITTED"
      BY <2>3 DEF Final
    <3>3. Placed(t)'
      BY <1>1, <3>1, <3>2, AfterIs DEF Placed, Busy
    <3> QED BY <1>1, <3>1, <3>2, <3>3, AfterIs, OuterSettles
  <2> QED BY <1>8, <2>1, <2>2, <2>3 DEF Exit
<1>9. CASE EndCommit(t)
  <2>1. pc[t] = "committing" /\ next[t] > Len(children[t])
    BY <1>9 DEF EndCommit
  <2>2. CASE CloseOuter(t, Again(outer[t]), "COMMITTED") /\ Go(t, "done")
    <3>1. pc'[t] = "done" /\ outer'[t].state = "COMMITTED" /\ ~outer'[t].open
      BY <1>1, <1>3, <1>4, <2>2 DEF Go, Types
    <3>2. Placed(t)'
      BY <3>1, AfterIs DEF Placed, Busy
    <3>3. \A i \in 1..Len(children[t]) : ~children[t][i].open
      <4>1. next[t] \in Nat /\ Len(children[t]) \in Nat
        BY <1>1, LenProperties DEF Types
      <4>2. \A i \in 1..Len(children[t]) : ~(next[t] <= i)
        BY <2>1, <4>1
      <4> QED BY <2>1, <4>2 DEF Settling, Settles
    <3> QED BY <1>1, <2>1, <3>1, <3>2, <3>3, AfterIs, OuterSettles
  <2>3. CASE FailCommit(t)
    BY <1>1, <2>1, <2>3, FailSettles DEF FailCommit
  <2> QED BY <1>9, <2>2, <2>3 DEF EndCommit
<1>10. CASE EndRollBack(t)
  <2>1. /\ pc[t] \in DOMAIN AfterRollback /\ next[t] = 0 /\ pc'[t] = AfterRollback[pc[t]]
        /\ outer'[t].state = outer[t].state /\ ~outer'[t].open
    BY <1>1, <1>3, <1>4, <1>10 DEF EndRollBack, Go, Types
  <2>2. \/ pc[t] = "rolling_back_done" /\ pc'[t] = "done"
           /\ outer[t].state \in {"ROLLED_BACK", "STAGED"}
        \/ pc[t] \in {"rolling_back", "rolling_back_failed"} /\ pc'[t] \in {"outer", "failed"}
           /\ outer[t].state = "ROLLED_BACK"
    BY <1>1, <2>1, AfterIs DEF Placed
  <2>3. outer[t].state = "ROLLED_BACK" => \A n : Noted(t, n)
    BY <1>2, <2>1, <2>2
  <2>4. Placed(t)'
    BY <1>1, <2>1, <2>2, AfterIs DEF Placed, Busy
  <2> QED BY <1>1, <2>1, <2>2, <2>3, <2>4, AfterIs, OuterSettles
<1> QED BY <1>7, <1>8, <1>9, <1>10

\* The outer transaction takes over d, from the current task of t.
LEMMA TakenOverSettles ==
  ASSUME Inv, NEW t \in Threads, Settling(t), pc[t] = "body", NEW d \in Child, d.key = Key(t),
         NEW after \in {"outer", "failed"}, Reset(t, d, after), mode' = mode,
         d.open => /\ mode[t] # "EAGER" /\ d.state # "ROLLED_BACK"
                   /\ d.state = "COMMITTED" => d.notes # {}
                   /\ d.notes = current[t].notes,
         ~d.open => d.state \in Final \/ mode[t] = "EAGER"
  PROVE  Settling(t)'
<1>1. /\ Types /\ ThreadFine(t) /\ Placed(t) /\ Spared(t) /\ children[t] \in Seq(Child)
      /\ todo[t] # <<>> /\ todo[t] \in Seq(Keys) /\ d.key = Head(todo[t])
      /\ outer[t].state # "PENDING"
  BY KeyIs DEF Inv, Types, Settling
<1>2. PICK m, r : m = Len(children[t]) /\ r = Append(children[t], d)
  OBVIOUS
<1>3. /\ m \in Nat /\ Len(r) = m + 1 /\ r[m + 1] = d /\ \A i \in 1..m : r[i] = children[t][i]
      /\ children'[t] = r
  BY <1>1, <1>2, AppendIs DEF Reset, Types
<1>4. \A i \in 1..(m + 1) : i = m + 1 \/ (i \in 1..m /\ i < m + 1 /\ i <= m)
  BY <1>3
<1>5. /\ outer[t].state \in {"ACTIVE", "ROLLED_BACK"} /\ mode'[t] = mode[t]
      /\ outer[t].state = "ROLLED_BACK" => ~outer[t].open
  <2>1. outer[t].state \in {"PENDING", "ACTIVE", "STAGED", "COMMITTED", "ROLLED_BACK"}
    BY <1>1 DEF Types, Outer, Final
  <2> QED BY <1>1, <2>1, AfterIs DEF Placed
<1>6. /\ outer'[t].open = outer[t].open
      /\ \/ /\ pc'[t] = after /\ outer'[t] = outer[t]
            /\ d.state = "ROLLED_BACK" => outer[t].state = "ROLLED_BACK"
         \/ /\ pc'[t] \in {"rolling_back", "rolling_back_failed"}
            /\ outer'[t].state = "ROLLED_BACK" /\ next'[t] = m
            /\ d.state = "ROLLED_BACK" /\ outer[t].state # "ROLLED_BACK"
  <2>1. TakesOver(t, d, after)
    BY <1>1, ResetIs
  <2>2. PICK p \in {after} \cup DOMAIN AfterRollback, o \in Outer, n \in Nat :
          /\ pc' = [pc EXCEPT ![t] = p] /\ outer' = [outer EXCEPT ![t] = o]
          /\ next' = [next EXCEPT ![t] = n]
          /\ o.key = outer[t].key /\ o.open = outer[t].open /\ o.notes = outer[t].notes
          /\ \/ /\ p = after /\ o = outer[t] /\ n = next[t]
                /\ d.state = "ROLLED_BACK" => outer[t].state \in Final
             \/ /\ p \in DOMAIN AfterRollback /\ AfterRollback[p] = after
                /\ d.state = "ROLLED_BACK" /\ outer[t].state \notin Final
                /\ \/ o.state = "ROLLED_BACK" /\ n = m
                   \/ o = outer[t] /\ o.state = "STAGED" /\ n = 0
    BY <1>2, <2>1 DEF TakesOver
  <2>3. pc'[t] = p /\ outer'[t] = o /\ next'[t] = n
    BY <1>1, <2>2 DEF Types
  <2> QED BY <1>5, <2>2, <2>3, AfterIs DEF Final
<1>7. /\ pc'[t] \notin {"begin", "body", "committing", "rolling_back_done", "crashed", "done"}
      /\ pc'[t] \in {after} \cup DOMAIN AfterRollback
      /\ outer'[t].state \in {"ACTIVE", "ROLLED_BACK"}
      /\ outer[t].state = "ROLLED_BACK" => outer'[t].state = "ROLLED_BACK"
  BY <1>5, <1>6, AfterIs
<1>8. (\E i \in 1..m : children[t][i].state = "ROLLED_BACK") => outer[t].state = "ROLLED_BACK"
  BY <1>1, <1>2 DEF Placed, Busy
<1>9. Placed(t)'
  <2>1. (\E i \in 1..(m + 1) : r[i].state = "ROLLED_BACK") => outer'[t].state = "ROLLED_BACK"
    BY <1>3, <1>4, <1>6, <1>7, <1>8
  <2>2. outer'[t].open /\ outer'[t].state = "ROLLED_BACK" => pc'[t] \in DOMAIN AfterRollback
    BY <1>5, <1>6, AfterIs
  <2>3. pc'[t] \in {"rolling_back", "rolling_back_failed"} => outer'[t].state = "ROLLED_BACK"
    BY <1>6
  <2> QED BY <1>3, <1>7, <2>1, <2>2, <2>3 DEF Placed
<1>10. /\ \A n : outer[t].state = "ROLLED_BACK" => Noted(t, n)
       /\ outer[t].state = "ROLLED_BACK" /\ d.open => d.notes # {}
  BY <1>1, AllNoted, AfterIs DEF Settling
<1>11. Spared(t)'
  <2>1. ASSUME NEW i \in 1..(m + 1), NEW j \in 1..(m + 1), i < j, r[i].key = r[j].key
        PROVE  Noted(t, m + 2)'
    <3>1. i \in 1..m /\ r[i] = children[t][i]
      BY <1>3, <1>4, <2>1
    <3>2. Withdrawn(children[t][i])
      <4>1. CASE j \in 1..m
        BY <1>1, <1>2, <1>3, <2>1, <3>1, <4>1 DEF ThreadFine, KeysFine
      <4>2. CASE j = m + 1
        <5>1. todo[t][1] = d.key /\ 1 \in 1..Len(todo[t])
          BY <1>1, TailIs
        <5> QED BY <1>1, <1>2, <1>3, <2>1, <3>1, <4>2, <5>1 DEF ThreadFine, KeysFine
      <4> QED BY <1>4, <4>1, <4>2
    <3>3. outer[t].state = "ROLLED_BACK" /\ Noted(t, m + 1)
      BY <1>8, <1>10, <3>1, <3>2 DEF Withdrawn
    <3> QED BY <1>2, <1>3, <1>4, <1>10, <3>3 DEF Noted
  <2>2. ASSUME NEW j \in 1..(m + 1), ~r[j].open, r[j].state \notin Final
        PROVE  Noted(t, j)'
    <3>1. CASE j \in 1..m
      <4>1. Noted(t, j)
        BY <1>1, <1>2, <1>3, <2>2, <3>1, AfterIs DEF Spared
      <4>2. \A i \in 1..(m + 1) : i < j => i \in 1..m
        BY <1>3, <3>1
      <4> QED BY <1>2, <1>3, <4>1, <4>2 DEF Noted
    <3>2. CASE j = m + 1
      <4>1. mode[t] = "EAGER"
        BY <1>3, <2>2, <3>2
      <4>2. \A i \in 1..m : ~children[t][i].open
        BY <1>2, <4>1 DEF Settling, Settles
      <4> QED BY <1>3, <1>4, <2>2, <3>2, <4>2 DEF Noted
    <3> QED BY <1>4, <3>1, <3>2
  <2>3. Len(r) + 1 = m + 2
    BY <1>3
  <2> QED BY <1>3, <2>1, <2>2, <2>3 DEF Spared
<1>12. ASSUME NEW i \in 1..(m + 1), r[i].open
       PROVE  Settles(t, i, r[i])'
  <2>1. CASE i = m + 1
    <3>1. /\ r[i] = d /\ mode[t] # "EAGER" /\ d.state # "ROLLED_BACK"
          /\ (d.state = "COMMITTED" => d.notes # {}) /\ "again" \notin d.notes
      BY <1>3, <1>12, <2>1 DEF Settling
    <3>2. outer'[t] = outer[t]
      BY <1>6, <3>1
    <3>3. outer'[t].state = "ROLLED_BACK" => d.notes # {}
      BY <1>3, <1>10, <1>12, <2>1, <3>2
    <3> QED BY <1>5, <1>7, <3>1, <3>3 DEF Settles
  <2>2. CASE i \in 1..m /\ i <= m
    <3>1. r[i] = children[t][i] /\ Settles(t, i, r[i])
      BY <1>2, <1>3, <1>12, <2>2 DEF Settling
    <3>2. CASE outer'[t] = outer[t]
      BY <1>5, <1>7, <3>1, <3>2, AfterIs DEF Settles
    <3>3. CASE next'[t] = m /\ pc'[t] \in {"rolling_back", "rolling_back_failed"}
      BY <1>5, <1>7, <2>2, <3>1, <3>3, AfterIs DEF Settles
    <3> QED BY <1>6, <3>2, <3>3
  <2> QED BY <1>4, <2>1, <2>2
<1> QED BY <1>3, <1>7, <1>9, <1>11, <1>12 DEF Settling

LEMMA TaskSettles ==
  ASSUME Inv, NEW t \in Threads, Settling(t), Succeed(t) \/ Raise(t)
  PROVE  Settling(t)'
<1>1. Types /\ ThreadFine(t) /\ pc[t] = "body" /\ mode' = mode
  BY ModeStays DEF Inv, Succeed, Raise, Step
<1>2. PICK c : c = current[t]
  OBVIOUS
<1>3. /\ c \in Child /\ c.key = Key(t) /\ c.open /\ c.state \in {"ACTIVE", "COMMITTED"}
      /\ c.state = "COMMITTED" => "cached" \in c.notes
  BY <1>1, <1>2 DEF ThreadFine, TaskFine
<1>4. CASE Raise(t)
  <2>1. PICK d : d = Finished(c, "ROLLED_BACK")
    OBVIOUS
  <2>2. d \in Child /\ d.key = Key(t) /\ ~d.open /\ d.state \in Final
    BY <1>3, <2>1, FinishedIs DEF Final
  <2>3. Reset(t, d, "failed")
    BY <1>2, <1>4, <2>1 DEF Raise
  <2> QED BY <1>1, <2>2, <2>3, TakenOverSettles
<1>5. CASE Succeed(t)
  <2>1. PICK s : s = IF c.state = "COMMITTED" THEN c ELSE [c EXCEPT !.state = "STAGED"]
    OBVIOUS
  <2>2. /\ s \in Child /\ s.key = Key(t) /\ s.open /\ s.state \in {"STAGED", "COMMITTED"}
        /\ s.notes = c.notes /\ (s.state = "COMMITTED" => s.notes # {})
    BY <1>3, <2>1 DEF Child
  <2>3. CASE mode[t] = "EAGER"
    <3>1. PICK d \in CommitResults(s) : Reset(t, d, "outer")
      BY <1>2, <1>5, <2>1, <2>3 DEF Succeed
    <3>2. d \in Child /\ d.key = Key(t) /\ ~d.open
      BY <2>2, <3>1, CommitIs
    <3> QED BY <1>1, <2>3, <3>1, <3>2, TakenOverSettles
  <2>4. CASE mode[t] # "EAGER"
    <3>1. Reset(t, s, "outer")
      BY <1>2, <1>5, <2>1, <2>4 DEF Succeed
    <3> QED BY <1>1, <1>2, <2>2, <2>4, <3>1, TakenOverSettles
  <2> QED BY <2>3, <2>4
<1> QED BY <1>4, <1>5

\* Where a rollback comes to a child that is not over and whose lock is gone, the children
\* before it have notes.
LEMMA NotedBefore ==
  ASSUME Inv, NEW t \in Threads, Settling(t), pc[t] \in DOMAIN AfterRollback,
         next[t] \in 1..Len(children[t]), children[t][next[t]].state \notin Final,
         ~HoldsLock(t, children[t][next[t]].key)
  PROVE  Noted(t, next[t])
<1>1. /\ Types /\ ThreadFine(t) /\ Spared(t) /\ Len(children[t]) \in Nat /\ next[t] \in Nat
  BY LenProperties DEF Inv, Types, Settling
<1>2. PICK n, c : n = next[t] /\ c = children[t][n]
  OBVIOUS
<1>3. CASE ~c.open
  <2>1. ~(next[t] < n) /\ pc[t] \notin {"done", "crashed"}
    BY <1>1, <1>2, AfterIs
  <2> QED BY <1>1, <1>2, <1>3, <2>1 DEF Spared
<1>4. CASE c.open
  <2>1. PICK j \in 1..Len(children[t]) :
          children[t][j].key = c.key /\ "again" \in children[t][j].notes
    BY <1>1, <1>2, <1>4 DEF ThreadFine, LocksFine, Lost
  <2>2. "again" \notin c.notes
    BY <1>2, <1>4 DEF Settling, Settles
  <2>3. j < n \/ n < j
    BY <1>1, <1>2, <2>1, <2>2
  <2>4. Noted(t, Len(children[t]) + 1)
    BY <1>1, <1>2, <2>1, <2>3 DEF Spared
  <2>5. \A i \in 1..Len(children[t]) : i < Len(children[t]) + 1
    BY <1>1
  <2> QED BY <2>4, <2>5 DEF Noted
<1> QED BY <1>2, <1>3, <1>4

\* The n-th child is replaced, and the commit or rollback goes on, or a rollback begins.
LEMMA ReplacedSettles ==
  ASSUME Inv, NEW t \in Threads, Settling(t), NEW n, n = next[t], n \in 1..Len(children[t]),
         NEW d, Replaced(t, n, d), mode' = mode, Placed(t)', next'[t] \in Nat,
         \/ /\ pc[t] \in DOMAIN AfterRollback /\ pc'[t] = pc[t] /\ next'[t] < n
            /\ outer'[t] = outer[t] /\ (next'[t] = n - 1 \/ Noted(t, n))
            /\ d.open => d.state \in Final
         \/ /\ pc[t] = "committing" /\ ~d.open
            /\ \/ pc'[t] = "committing" /\ next'[t] = n + 1 /\ outer'[t] = outer[t]
               \/ /\ pc'[t] = "rolling_back_done"
                  /\ outer'[t].state = "ROLLED_BACK" => next'[t] = Len(children[t])
  PROVE  Settling(t)'
<1>1. /\ Types /\ ThreadFine(t) /\ Spared(t) /\ Len(children[t]) \in Nat /\ n \in Nat
      /\ mode'[t] = mode[t]
  BY LenProperties DEF Inv, Types, Settling
<1>2. PICK s, r : s = children[t] /\ r = children'[t]
  OBVIOUS
<1>3. /\ Len(r) = Len(s) /\ r[n] = d /\ d.key = s[n].key /\ s[n].notes \subseteq d.notes
      /\ \A i \in 1..Len(s) : i # n => r[i] = s[i]
      /\ d.open => d = s[n]
  BY <1>2 DEF Replaced
<1>4. \A i \in 1..Len(s) : r[i].key = s[i].key /\ (r[i].open => r[i] = s[i])
  BY <1>3
<1>5. \A i \in 1..Len(s) : r[i].open => s[i].open /\ Settles(t, i, s[i])
  BY <1>2, <1>4 DEF Settling
<1>6. \A m : Noted(t, m) => Noted(t, m)'
  BY <1>2, <1>3, <1>4 DEF Noted
<1>7. pc[t] \notin {"body", "done", "crashed"} /\ pc'[t] \notin {"body", "done", "crashed"}
      /\ "committing" \notin DOMAIN AfterRollback /\ "rolling_back_done" \in DOMAIN AfterRollback
  BY AfterIs
<1>8. pc[t] = "committing" => \A m \in 1..Len(s) : m <= n => Noted(t, m)
  BY <1>1, <1>2 DEF Noted, Settling, Settles
<1>9. Spared(t)'
  <2>1. \A i, j \in 1..Len(r) : i < j /\ r[i].key = r[j].key => Noted(t, Len(r) + 1)'
    BY <1>1, <1>2, <1>3, <1>4, <1>6 DEF Spared
  <2>2. ASSUME NEW j \in 1..Len(s), ~r[j].open, r[j].state \notin Final
        PROVE  Noted(t, j)' \/ (pc'[t] \in DOMAIN AfterRollback /\ next'[t] < j)
    <3>1. CASE j = n
      BY <1>1, <1>6, <1>8, <3>1
    <3>2. CASE j # n
      <4>1. Noted(t, j) \/ (pc[t] \in DOMAIN AfterRollback /\ n < j)
        BY <1>1, <1>2, <1>3, <1>7, <2>2, <3>2 DEF Spared
      <4>2. n < j /\ next'[t] < n => next'[t] < j
        BY <1>1
      <4> QED BY <1>6, <1>7, <4>1, <4>2
    <3> QED BY <3>1, <3>2
  <2> QED BY <1>2, <1>3, <2>1, <2>2 DEF Spared
<1>10. ASSUME NEW i \in 1..Len(s), r[i].open
       PROVE  Settles(t, i, r[i])'
  <2>1. r[i] = s[i] /\ s[i].open /\ Settles(t, i, s[i]) /\ i \in Nat
    BY <1>4, <1>5, <1>10
  <2>2. CASE pc[t] = "committing"
    <3>1. i # n /\ n <= i /\ i <= Len(s)
      BY <1>1, <1>3, <1>10, <2>1, <2>2, <1>7 DEF Settles
    <3>2. n + 1 <= i
      BY <1>1, <2>1, <3>1
    <3>3. outer[t].state # "ROLLED_BACK"
      BY <1>1, <2>2 DEF ThreadFine, OuterFine
    <3> QED BY <1>1, <1>2, <1>7, <2>1, <2>2, <3>1, <3>2, <3>3 DEF Settles
  <2>3. CASE pc[t] \in DOMAIN AfterRollback
    <3>1. /\ pc'[t] = pc[t] /\ outer'[t] = outer[t] /\ (next'[t] = n - 1 \/ Noted(t, n))
          /\ i = n => r[i].state \in Final
      BY <1>3, <1>7, <1>10, <2>3
    <3>2. CASE r[i].notes # {}
      BY <1>1, <1>7, <2>1, <2>3, <3>1, <3>2 DEF Settles
    <3>3. CASE r[i].notes = {}
      <4>1. i # n
        BY <2>1, <3>1, <3>3 DEF Settles, Final
      <4>2. outer[t].state = "ROLLED_BACK" => i <= n
        BY <1>7, <2>1, <3>3 DEF Settles
      <4>3. i < n => next'[t] = n - 1
        BY <1>2, <2>1, <3>1, <3>3 DEF Noted
      <4>4. outer[t].state = "ROLLED_BACK" => i <= next'[t]
        BY <1>1, <2>1, <4>1, <4>2, <4>3
      <4> QED BY <1>1, <1>7, <2>1, <2>3, <3>1, <4>4 DEF Settles
    <3> QED BY <3>2, <3>3
  <2> QED BY <2>2, <2>3
<1> QED BY <1>2, <1>3, <1>7, <1>9, <1>10 DEF Settling

LEMMA ChildSettles ==
  ASSUME Inv, NEW t \in Threads, Settling(t), RollBackChild(t) \/ CommitChild(t)
  PROVE  Settling(t)'
<1>1. /\ Types /\ ThreadFine(t) /\ Placed(t) /\ next[t] \in 1..Len(children[t])
      /\ Len(children[t]) \in Nat /\ children[t][next[t]] \in Child
      /\ mode' = mode /\ todo' = todo
  BY NextChild, ModeStays DEF Inv, Settling, Step, RollBackChild, CommitChild
<1>2. PICK n, c : n = next[t] /\ c = children[t][n]
  OBVIOUS
<1>3. PICK d : Replaced(t, n, d)
  BY <1>2, ReplacedIs
<1>4. n \in Nat /\ n \in 1..Len(children[t]) /\ children'[t][n] = d
  BY <1>1, <1>2, <1>3 DEF Replaced
<1>5. CASE RollBackChild(t)
  <2>1. /\ pc[t] \in DOMAIN AfterRollback /\ pc' = pc /\ outer' = outer
        /\ next'[t] = IF c.state \in Final \/ HoldsLock(t, c.key) THEN n - 1 ELSE 0
    BY <1>1, <1>2, <1>5 DEF RollBackChild, Types
  <2>2. next'[t] \in Nat /\ next'[t] < n
    BY <1>4, <2>1
  <2>3. next'[t] = n - 1 \/ Noted(t, n)
    BY <1>1, <1>2, <2>1, NotedBefore
  <2>4. d.open => d.state \in Final
    <3>1. PICK e \in RollbackResults(c) : children' = [children EXCEPT ![t][n] = e]
      BY <1>2, <1>5 DEF RollBackChild
    <3>2. c.state \notin Final => ~e.open
      BY <1>1, <1>2, <3>1, RollbackIs
    <3>3. children'[t][n] = e
      <4>1. PICK r : r = [children[t] EXCEPT ![n] = e]
        OBVIOUS
      <4>2. children'[t] = r
        BY <1>1, <3>1, <4>1 DEF Types
      <4>3. e \in Child /\ children[t] \in Seq(Child)
        BY <1>1, <1>2, <3>1, RollbackIs DEF Types
      <4> QED BY <1>4, <4>1, <4>2, <4>3, ExceptIs
    <3>4. c.state \in Final => e = c
      BY <1>1, <1>2, <3>1, RollbackIs
    <3> QED BY <1>4, <3>2, <3>3, <3>4
  <2>5. Placed(t)'
    <3>1. pc[t] \in {"rolling_back", "rolling_back_failed"} => outer[t].state = "ROLLED_BACK"
      BY <1>1 DEF Placed
    <3>2. outer[t].state # "PENDING"
      BY <1>1, <2>1, AfterIs DEF ThreadFine, OuterFine
    <3> QED BY <1>1, <2>1, <3>1, <3>2, AfterIs DEF Placed, Busy
  <2> QED BY <1>1, <1>2, <1>3, <1>4, <2>1, <2>2, <2>3, <2>4, <2>5, ReplacedSettles
<1>6. CASE CommitChild(t) /\ c.state \in Final /\ ~HoldsLock(t, c.key)
  BY <1>1, <1>2, <1>6, FailSettles DEF CommitChild, FailCommit
<1>7. CASE CommitChild(t) /\ ~(c.state \in Final /\ ~HoldsLock(t, c.key))
  <2>1. PICK e \in CommitResults(c) :
          /\ children' = [children EXCEPT ![t][n] = e]
          /\ \/ RollBackFrom(t, Len(children[t]), "done")
             \/ next' = [next EXCEPT ![t] = n + 1] /\ UNCHANGED <<pc, outer>>
    BY <1>2, <1>7 DEF CommitChild, FailCommit
  <2>2. ~d.open
    <3>1. e \in Child /\ ~e.open /\ children[t] \in Seq(Child)
      BY <1>1, <1>2, <2>1, CommitIs DEF Types
    <3>2. PICK r : r = [children[t] EXCEPT ![n] = e]
      OBVIOUS
    <3>3. children'[t] = r
      BY <1>1, <2>1, <3>2 DEF Types
    <3> QED BY <1>4, <3>1, <3>2, <3>3, ExceptIs
  <2>3. pc[t] = "committing" /\ outer[t].state \in {"ACTIVE", "STAGED"}
    BY <1>1, <1>7 DEF CommitChild, ThreadFine, OuterFine
  <2>4. CASE RollBackFrom(t, Len(children[t]), "done")
    <3>1. /\ pc'[t] = "rolling_back_done" /\ outer'[t].open = outer[t].open
          /\ \/ outer'[t].state = "ROLLED_BACK" /\ next'[t] = Len(children[t])
             \/ outer'[t].state = "STAGED" /\ next'[t] = 0
      BY <2>4, FailIs
    <3>2. /\ next'[t] \in Nat
          /\ outer'[t].state = "ROLLED_BACK" => next'[t] = Len(children[t])
      BY <1>1, <3>1
    <3>3. Placed(t)'
      BY <3>1, AfterIs DEF Placed, Busy
    <3> QED BY <1>1, <1>2, <1>3, <1>4, <2>2, <2>3, <3>1, <3>2, <3>3, ReplacedSettles
  <2>5. CASE next' = [next EXCEPT ![t] = n + 1] /\ UNCHANGED <<pc, outer>>
    <3>1. next'[t] = n + 1 /\ next'[t] \in Nat /\ pc'[t] = "committing" /\ outer'[t] = outer[t]
      BY <1>1, <1>4, <2>3, <2>5 DEF Types
    <3>2. Placed(t)'
      BY <1>1, <2>3, <3>1, AfterIs DEF Placed, Busy
    <3> QED BY <1>1, <1>2, <1>3, <1>4, <2>2, <2>3, <3>1, <3>2, ReplacedSettles
  <2> QED BY <2>1, <2>4, <2>5
<1> QED BY <1>5, <1>6, <1>7

LEMMA BackStep ==
  ASSUME Inv, Once, GivenBack, NEW t \in Threads, Step(t) \/ Crash(t)
  PROVE  GivenBack'
<1>1. Types /\ Frame(t) /\ mode' = mode /\ Held(t)
  BY StepFrame, ModeStays DEF Inv, GivenBack
<1>2. TakesNone(t) /\ Held(t)'
  BY <1>1, HeldStep
<1>3. "cached" \in outer'[t].notes \/ Settling(t)'
  <2>1. CASE "cached" \in outer[t].notes
    BY <2>1, OuterMoves DEF OuterStep, Once
  <2>2. CASE Settling(t)
    BY <2>2, QuietSettles, TaskSettles, EndSettles, ChildSettles DEF Step
  <2> QED BY <2>1, <2>2 DEF GivenBack
<1>4. ASSUME NEW u \in Threads \ {t}
      PROVE  Held(u)' /\ ("cached" \in outer'[u].notes \/ Settling(u)')
  <2>1. Held(u) /\ ("cached" \in outer[u].notes \/ Settling(u))
    BY DEF GivenBack
  <2>2. /\ pc'[u] = pc[u] /\ todo'[u] = todo[u] /\ outer'[u] = outer[u] /\ next'[u] = next[u]
        /\ current'[u] = current[u] /\ children'[u] = children[u] /\ mode'[u] = mode[u]
    BY <1>1 DEF Frame
  <2>3. Held(u)'
    BY <1>2, <2>1, <2>2 DEF TakesNone, Held, Key
  <2>4. Settling(u) => Settling(u)'
    <3>1. Placed(u) => Placed(u)'
      BY <2>2 DEF Placed, Busy
    <3>2. Spared(u) => Spared(u)'
      BY <2>2 DEF Spared, Noted
    <3>3. \A i, c : Settles(u, i, c) => Settles(u, i, c)'
      BY <2>2 DEF Settles
    <3> QED BY <2>2, <3>1, <3>2, <3>3 DEF Settling
  <2> QED BY <2>1, <2>2, <2>3, <2>4
<1> QED BY <1>2, <1>3, <1>4 DEF GivenBack

\* With lock files, a thread that has left its outer transaction has given back its locks,
\* unless that was found cached, its rollback hook raised, or it was rolled back and the
\* lock is that of a task that was found cached or began after it (Transaction.commit,
\* Transaction.rollback, release_lock).
THEOREM LocksGivenBack ==
  ASSUME Managers = {"files"}
  PROVE  Spec => []LocksStranded
<1>1. Init => Inv /\ Once /\ GivenBack
  <2> SUFFICES ASSUME Init PROVE GivenBack
    BY InvInit, OnceInit
  <2>1. ASSUME NEW t \in Threads
        PROVE  /\ pc[t] \in {"outer", "entering"} /\ children[t] = <<>> /\ ~outer[t].open
               /\ outer[t].state \in {"ACTIVE", "PENDING"} /\ \A k \in Keys : entry[k] = None
               /\ \A i \in 1..Len(children[t]) : FALSE
    BY DEF Init
  <2>2. ASSUME NEW t \in Threads
        PROVE  Held(t) /\ Placed(t) /\ Spared(t)
    BY <2>1, AfterIs DEF Held, Placed, Spared, HoldsLock
  <2> QED BY <2>1, <2>2 DEF GivenBack, Settling
<1>2. Inv /\ Once /\ GivenBack /\ [Next]_vars => GivenBack'
  <2> SUFFICES ASSUME Inv, Once, GivenBack, [Next]_vars PROVE GivenBack'
    OBVIOUS
  <2>1. CASE UNCHANGED vars
    BY <2>1 DEF vars, GivenBack, Held, Settling, Placed, Spared, Noted, Settles, Busy, HoldsLock, Key
  <2> QED BY <2>1, BackStep DEF Next
<1>3. Inv /\ [Next]_vars => Inv'
  BY InvNext
<1>4. Inv /\ Once /\ [Next]_vars => Once'
  BY OnceNext
<1>5. GivenBack => LocksStranded
  <2> SUFFICES ASSUME GivenBack, NEW t \in Threads, NEW k \in Keys, pc[t] = "done",
                      HoldsLock(t, k), "cached" \notin outer[t].notes, outer[t].state # "STAGED"
               PROVE  /\ outer[t].state = "ROLLED_BACK"
                      /\ \E c \in Elements(children[t]) :
                           c.key = k /\ c.open /\ c.notes # {}
    BY DEF LocksStranded
  <2>1. Held(t) /\ Settling(t)
    BY DEF GivenBack
  <2>2. PICK i \in 1..Len(children[t]) : children[t][i].key = k /\ children[t][i].open
    BY <2>1 DEF Held, Settling, Placed
  <2>3. Settles(t, i, children[t][i])
    BY <2>1, <2>2 DEF Settling
  <2>4. outer[t].state = "ROLLED_BACK" /\ children[t][i].notes # {}
    BY <2>3, AfterIs DEF Settles
  <2> QED BY <2>2, <2>4 DEF Elements
<1> QED BY <1>1, <1>2, <1>3, <1>4, <1>5, PTL DEF Spec
=============================================================================
