---------------------------- MODULE TaskQueueProofs ----------------------------
(***************************************************************************)
(* Scheduled task runs are not lost on their way to a worker, whatever the *)
(* number of task runs, keys, workers and queue slots, in whatever order   *)
(* connections break and workers die.                                      *)
(***************************************************************************)
EXTENDS TaskQueue, SequenceTheorems, TLAPS

-----------------------------------------------------------------------------
(* Elements of queues.                                                     *)

LEMMA ElementsOfAppend ==
  ASSUME NEW S, NEW q \in Seq(S), NEW e \in S
  PROVE  Elements(Append(q, e)) = Elements(q) \cup {e}
<1>1. /\ Append(q, e) \in Seq(S) /\ Len(Append(q, e)) = Len(q) + 1
      /\ \A i \in 1..Len(q) : Append(q, e)[i] = q[i]
      /\ Append(q, e)[Len(q) + 1] = e
  BY AppendProperties
<1>2. /\ DOMAIN q = 1..Len(q) /\ Len(q) \in Nat
      /\ DOMAIN Append(q, e) = 1..(Len(q) + 1)
  BY <1>1, LenProperties
<1> QED BY <1>1, <1>2 DEF Elements

LEMMA ElementsOfTail ==
  ASSUME NEW S, NEW q \in Seq(S), q # <<>>
  PROVE  Elements(q) = {Head(q)} \cup Elements(Tail(q))
<1>1. /\ Tail(q) \in Seq(S) /\ Len(Tail(q)) = Len(q) - 1
      /\ \A i \in 1..Len(Tail(q)) : Tail(q)[i] = q[i + 1]
  BY HeadTailProperties
<1>2. /\ DOMAIN q = 1..Len(q) /\ Len(q) \in Nat \ {0} /\ Head(q) = q[1]
      /\ DOMAIN Tail(q) = 1..(Len(q) - 1)
  BY <1>1, LenProperties, EmptySeq
<1>3. ASSUME NEW i \in 1..Len(q)
      PROVE  q[i] \in {Head(q)} \cup Elements(Tail(q))
  <2>1. CASE i = 1
    BY <1>2, <2>1
  <2>2. CASE i # 1
    <3>1. i - 1 \in DOMAIN Tail(q) /\ Tail(q)[i - 1] = q[i]
      BY <1>1, <1>2, <2>2
    <3> QED BY <3>1 DEF Elements
  <2> QED BY <2>1, <2>2
<1>4. ASSUME NEW i \in DOMAIN Tail(q)
      PROVE  Tail(q)[i] \in Elements(q)
  BY <1>1, <1>2 DEF Elements
<1>5. Head(q) \in Elements(q)
  BY <1>2 DEF Elements
<1> QED BY <1>2, <1>3, <1>4, <1>5 DEF Elements

LEMMA ElementsOfConcat ==
  ASSUME NEW S, NEW q \in Seq(S), NEW s \in Seq(S)
  PROVE  Elements(q \o s) = Elements(q) \cup Elements(s)
<1>1. /\ q \o s \in Seq(S) /\ Len(q \o s) = Len(q) + Len(s)
      /\ \A i \in 1..(Len(q) + Len(s)) :
           (q \o s)[i] = IF i <= Len(q) THEN q[i] ELSE s[i - Len(q)]
  BY ConcatProperties
<1>2. /\ Len(q) \in Nat /\ Len(s) \in Nat
      /\ DOMAIN q = 1..Len(q) /\ DOMAIN s = 1..Len(s)
      /\ DOMAIN (q \o s) = 1..(Len(q) + Len(s))
  BY <1>1, LenProperties
<1>3. ASSUME NEW i \in 1..(Len(q) + Len(s))
      PROVE  (q \o s)[i] \in Elements(q) \cup Elements(s)
  <2>1. CASE i <= Len(q)
    BY <1>1, <1>2, <2>1 DEF Elements
  <2>2. CASE i > Len(q)
    BY <1>1, <1>2, <2>2 DEF Elements
  <2> QED BY <1>2, <2>1, <2>2
<1>4. ASSUME NEW i \in 1..Len(q)
      PROVE  q[i] \in Elements(q \o s)
  BY <1>1, <1>2 DEF Elements
<1>5. ASSUME NEW i \in 1..Len(s)
      PROVE  s[i] \in Elements(q \o s)
  <2>1. Len(q) + i \in DOMAIN (q \o s) /\ (q \o s)[Len(q) + i] = s[i]
    BY <1>1, <1>2
  <2> QED BY <2>1 DEF Elements
<1> QED BY <1>2, <1>3, <1>4, <1>5 DEF Elements

LEMMA HeadOfConcat ==
  ASSUME NEW S, NEW q \in Seq(S), NEW s \in Seq(S), q # <<>>
  PROVE  Head(q \o s) = Head(q)
<1>1. /\ q \o s \in Seq(S) /\ Len(q \o s) = Len(q) + Len(s)
      /\ \A i \in 1..(Len(q) + Len(s)) :
           (q \o s)[i] = IF i <= Len(q) THEN q[i] ELSE s[i - Len(q)]
  BY ConcatProperties
<1>2. Len(q) \in Nat \ {0} /\ Len(s) \in Nat
  BY EmptySeq, LenProperties
<1> DEFINE c == q \o s
<1>3. c \in Seq(S) /\ c # <<>> /\ c[1] = q[1]
  BY <1>1, <1>2, EmptySeq
<1> HIDE DEF c
<1>4. Head(c) = c[1] /\ Head(q) = q[1]
  BY <1>3
<1> QED BY <1>3, <1>4 DEF c

-----------------------------------------------------------------------------
(* The invariant.                                                          *)

QueueTypes ==
  /\ scheduled \in [Keys -> Seq(TaskRuns)] /\ retry \in [Keys -> Seq(TaskRuns)]
  /\ \A k \in Keys : Len(scheduled[k]) <= ScheduledSize /\ Len(retry[k]) <= RetrySize

ServerTypes ==
  /\ submission \in [TaskRuns -> {"none", "putting", "put"}]
  /\ server \in [Workers -> {"down", "waiting", "delivering"}]
  /\ hand \in [Workers -> TaskRuns \cup {None}]
  /\ \A w \in Workers : (hand[w] # None) <=> (server[w] = "delivering")
  /\ wire \in [Workers -> TaskRuns \cup {None}] /\ ack \in [Workers -> BOOLEAN]
  /\ stale \in [Workers -> Nat] /\ orphans \in [TaskRuns -> Nat]
  /\ unsure \subseteq TaskRuns /\ lost \subseteq TaskRuns

WorkerTypes ==
  /\ worker \in [Workers -> {"listening", "acquiring", "dead"}]
  /\ received \in [Workers -> TaskRuns \cup {None}]
  /\ \A w \in Workers : (received[w] # None) <=> (worker[w] = "acquiring")
  /\ running \in [Workers -> [TaskRuns -> Nat]]
  /\ started \subseteq TaskRuns

Types == QueueTypes /\ ServerTypes /\ WorkerTypes

\* A message on the wire is what the subscription delivers, until it is received; an
\* acknowledgement is of a run that the worker has, has begun, or has lost.
ConnectionOK(w) ==
  /\ server[w] = "delivering" <=> wire[w] # None \/ ack[w]
  /\ wire[w] # None => wire[w] = hand[w] /\ ~ack[w]
  /\ ack[w] => received[w] = hand[w] \/ hand[w] \in started \cup lost
  /\ \A r \in TaskRuns : running[w][r] > 0 => r \in started

Connections == \A w \in Workers : ConnectionOK(w)

Inv == Types /\ Connections /\ TasksKept

LEMMA InvInit == Init => Inv
<1>1. <<>> \in Seq(TaskRuns) /\ Len(<<>>) = 0
  BY EmptySeq
<1> QED BY <1>1, TaskQueueAssumption
        DEF Init, Inv, Types, QueueTypes, ServerTypes, WorkerTypes, Connections,
            ConnectionOK, TasksKept

-----------------------------------------------------------------------------
(* The queues.                                                             *)

LEMMA ElementsOfQueues ==
  ASSUME NEW new \in [Keys -> Seq(TaskRuns)], NEW again \in [Keys -> Seq(TaskRuns)]
  PROVE  UNION {Elements(again[k] \o new[k]) : k \in Keys}
           = UNION {Elements(again[k]) \cup Elements(new[k]) : k \in Keys}
<1>1. ASSUME NEW k \in Keys
      PROVE  Elements(again[k] \o new[k]) = Elements(again[k]) \cup Elements(new[k])
  <2>1. again[k] \in Seq(TaskRuns) /\ new[k] \in Seq(TaskRuns)
    OBVIOUS
  <2> QED BY <2>1, ElementsOfConcat
<1> QED BY <1>1

LEMMA InQueuesIs ==
  ASSUME QueueTypes
  PROVE  InQueues = UNION {Elements(retry[k]) \cup Elements(scheduled[k]) : k \in Keys}
BY ElementsOfQueues DEF QueueTypes, InQueues, Waiting

LEMMA InQueuesWillBe ==
  ASSUME QueueTypes'
  PROVE  InQueues' = UNION {Elements(retry'[k]) \cup Elements(scheduled'[k]) : k \in Keys}
<1>1. scheduled' \in [Keys -> Seq(TaskRuns)] /\ retry' \in [Keys -> Seq(TaskRuns)]
  BY DEF QueueTypes
<1>2. InQueues' = UNION {Elements(retry'[k] \o scheduled'[k]) : k \in Keys}
  BY DEF InQueues, Waiting
<1> QED BY <1>1, <1>2, ElementsOfQueues

\* A request puts its run in the queue of scheduled runs, if there is room.
LEMMA PutAdds ==
  ASSUME QueueTypes, NEW r \in TaskRuns, Len(scheduled[KeyOf[r]]) < ScheduledSize,
         scheduled' = [scheduled EXCEPT ![KeyOf[r]] = Append(@, r)], retry' = retry
  PROVE  QueueTypes' /\ InQueues' = InQueues \cup {r}
<1> DEFINE k == KeyOf[r]
<1>1. k \in Keys /\ scheduled[k] \in Seq(TaskRuns)
  BY TaskQueueAssumption DEF QueueTypes
<1>2. /\ Append(scheduled[k], r) \in Seq(TaskRuns)
      /\ Len(Append(scheduled[k], r)) = Len(scheduled[k]) + 1
      /\ Elements(Append(scheduled[k], r)) = Elements(scheduled[k]) \cup {r}
  BY <1>1, AppendProperties, ElementsOfAppend
<1>3. Len(scheduled[k]) \in Nat /\ ScheduledSize \in Nat
  BY <1>1, LenProperties, TaskQueueAssumption
<1>4. QueueTypes'
  BY <1>1, <1>2, <1>3 DEF QueueTypes
<1>5. \A j \in Keys : Elements(scheduled'[j]) = IF j = k THEN Elements(scheduled[k]) \cup {r}
                                                ELSE Elements(scheduled[j])
  BY <1>1, <1>2 DEF QueueTypes
<1> QED BY <1>1, <1>4, <1>5, InQueuesIs, InQueuesWillBe

LEMMA PutBackAdds ==
  ASSUME QueueTypes, NEW r \in TaskRuns, Len(retry[KeyOf[r]]) < RetrySize,
         retry' = [retry EXCEPT ![KeyOf[r]] = Append(@, r)], scheduled' = scheduled
  PROVE  QueueTypes' /\ InQueues' = InQueues \cup {r}
<1> DEFINE k == KeyOf[r]
<1>1. k \in Keys /\ retry[k] \in Seq(TaskRuns)
  BY TaskQueueAssumption DEF QueueTypes
<1>2. /\ Append(retry[k], r) \in Seq(TaskRuns)
      /\ Len(Append(retry[k], r)) = Len(retry[k]) + 1
      /\ Elements(Append(retry[k], r)) = Elements(retry[k]) \cup {r}
  BY <1>1, AppendProperties, ElementsOfAppend
<1>3. Len(retry[k]) \in Nat /\ RetrySize \in Nat
  BY <1>1, LenProperties, TaskQueueAssumption
<1>4. QueueTypes'
  BY <1>1, <1>2, <1>3 DEF QueueTypes
<1>5. \A j \in Keys : Elements(retry'[j]) = IF j = k THEN Elements(retry[k]) \cup {r}
                                            ELSE Elements(retry[j])
  BY <1>1, <1>2 DEF QueueTypes
<1> QED BY <1>1, <1>4, <1>5, InQueuesIs, InQueuesWillBe

\* A subscription takes the first run of one queue.
Takes(r, k) ==
  \/ /\ retry[k] # <<>> /\ r = Head(retry[k])
     /\ retry' = [retry EXCEPT ![k] = Tail(retry[k])] /\ scheduled' = scheduled
  \/ /\ scheduled[k] # <<>> /\ r = Head(scheduled[k])
     /\ scheduled' = [scheduled EXCEPT ![k] = Tail(scheduled[k])] /\ retry' = retry

LEMMA GetTakesOne ==
  ASSUME QueueTypes, NEW w \in Workers, NEW r, GetNowait(w, r)
  PROVE  \E k \in Keys : Takes(r, k)
<1>1. PICK i \in DOMAIN Subscribed[w] :
        LET k == Subscribed[w][i]
        IN  /\ Waiting(k) # <<>> /\ r = Head(Waiting(k))
            /\ IF retry[k] # <<>>
                 THEN retry' = [retry EXCEPT ![k] = Tail(@)] /\ UNCHANGED scheduled
                 ELSE scheduled' = [scheduled EXCEPT ![k] = Tail(@)] /\ UNCHANGED retry
  BY DEF GetNowait
<1> DEFINE k == Subscribed[w][i]
<1>2. k \in Keys
  <2>1. Subscribed[w] \in Seq(Keys)
    BY TaskQueueAssumption
  <2> QED BY <2>1, ElementOfSeq, LenProperties
<1>3. /\ retry[k] \in Seq(TaskRuns) /\ scheduled[k] \in Seq(TaskRuns)
      /\ retry[k] \o scheduled[k] # <<>> /\ r = Head(retry[k] \o scheduled[k])
      /\ IF retry[k] # <<>>
           THEN retry' = [retry EXCEPT ![k] = Tail(@)] /\ scheduled' = scheduled
           ELSE scheduled' = [scheduled EXCEPT ![k] = Tail(@)] /\ retry' = retry
  BY <1>1, <1>2 DEF QueueTypes, Waiting
<1> HIDE DEF k
<1>4. CASE retry[k] # <<>>
  <2>1. r = Head(retry[k])
    BY <1>3, <1>4, HeadOfConcat
  <2> QED BY <1>2, <1>3, <1>4, <2>1 DEF Takes
<1>5. CASE retry[k] = <<>>
  <2>1. r = Head(scheduled[k]) /\ scheduled[k] # <<>>
    BY <1>3, <1>5, ConcatEmptySeq
  <2> QED BY <1>2, <1>3, <1>5, <2>1 DEF Takes
<1> QED BY <1>4, <1>5

LEMMA GetTakes ==
  ASSUME QueueTypes, NEW w \in Workers, NEW r, GetNowait(w, r)
  PROVE  /\ QueueTypes' /\ r \in TaskRuns
         /\ InQueues \subseteq InQueues' \cup {r}
         /\ InQueues' \subseteq InQueues
<1>1. PICK k \in Keys : Takes(r, k)
  BY GetTakesOne
<1>2. retry[k] \in Seq(TaskRuns) /\ scheduled[k] \in Seq(TaskRuns)
  BY DEF QueueTypes
<1>3. /\ ScheduledSize \in Nat /\ RetrySize \in Nat
      /\ \A j \in Keys : Len(scheduled[j]) \in Nat /\ Len(retry[j]) \in Nat
  BY LenProperties, TaskQueueAssumption DEF QueueTypes
<1>4. ASSUME retry[k] # <<>>, r = Head(retry[k]), scheduled' = scheduled,
             retry' = [retry EXCEPT ![k] = Tail(retry[k])]
      PROVE  /\ QueueTypes' /\ r \in TaskRuns
             /\ InQueues \subseteq InQueues' \cup {r} /\ InQueues' \subseteq InQueues
  <2>1. /\ r \in TaskRuns /\ Tail(retry[k]) \in Seq(TaskRuns)
        /\ Len(Tail(retry[k])) = Len(retry[k]) - 1
        /\ Elements(retry[k]) = {r} \cup Elements(Tail(retry[k]))
    BY <1>2, <1>4, HeadTailProperties, ElementsOfTail
  <2>2. QueueTypes'
    BY <1>3, <1>4, <2>1 DEF QueueTypes
  <2>3. \A j \in Keys : Elements(retry'[j]) = IF j = k THEN Elements(Tail(retry[k]))
                                              ELSE Elements(retry[j])
    BY <1>4 DEF QueueTypes
  <2> QED BY <1>4, <2>1, <2>2, <2>3, InQueuesIs, InQueuesWillBe
<1>5. ASSUME scheduled[k] # <<>>, r = Head(scheduled[k]), retry' = retry,
             scheduled' = [scheduled EXCEPT ![k] = Tail(scheduled[k])]
      PROVE  /\ QueueTypes' /\ r \in TaskRuns
             /\ InQueues \subseteq InQueues' \cup {r} /\ InQueues' \subseteq InQueues
  <2>1. /\ r \in TaskRuns /\ Tail(scheduled[k]) \in Seq(TaskRuns)
        /\ Len(Tail(scheduled[k])) = Len(scheduled[k]) - 1
        /\ Elements(scheduled[k]) = {r} \cup Elements(Tail(scheduled[k]))
    BY <1>2, <1>5, HeadTailProperties, ElementsOfTail
  <2>2. QueueTypes'
    BY <1>3, <1>5, <2>1 DEF QueueTypes
  <2>3. \A j \in Keys : Elements(scheduled'[j]) = IF j = k THEN Elements(Tail(scheduled[k]))
                                                  ELSE Elements(scheduled[j])
    BY <1>5 DEF QueueTypes
  <2> QED BY <1>5, <2>1, <2>2, <2>3, InQueuesIs, InQueuesWillBe
<1> QED BY <1>1, <1>4, <1>5 DEF Takes

-----------------------------------------------------------------------------
(* Steps.                                                                  *)

Kept(r) ==
  submission[r] = "put" =>
    \/ r \in started \cup lost
    \/ r \in InQueues \cup InHands \cup Orphaned
    \/ \E w \in Workers : received[w] = r

LEMMA TasksKeptIs == TasksKept <=> \A r \in TaskRuns : Kept(r)
BY DEF TasksKept, Kept

\* A subscription whose connection is cut hands over what it delivered.
LEMMA DisconnectKeeps ==
  ASSUME ServerTypes, NEW w \in Workers, Disconnect(w)
  PROVE  /\ hand' = [hand EXCEPT ![w] = None] /\ server' = [server EXCEPT ![w] = "down"]
         /\ wire' = [wire EXCEPT ![w] = None] /\ ack' = [ack EXCEPT ![w] = FALSE]
         /\ stale' \in [Workers -> Nat] /\ orphans' \in [TaskRuns -> Nat]
         /\ unsure' \subseteq TaskRuns
         /\ \A v \in Workers : (hand'[v] # None) <=> (server'[v] = "delivering")
         /\ InHands \cup Orphaned \subseteq InHands' \cup Orphaned'
<1>1. CASE server[w] = "waiting"
  <2>1. hand' = [hand EXCEPT ![w] = None] /\ hand[w] = None /\ orphans' = orphans
    BY <1>1 DEF Disconnect, ServerTypes
  <2>2. InHands' = InHands /\ Orphaned' = Orphaned
    BY <2>1 DEF InHands, Orphaned, ServerTypes
  <2> QED BY <1>1, <2>1, <2>2 DEF Disconnect, ServerTypes
<1>2. CASE server[w] # "waiting"
  <2>1. /\ hand' = [hand EXCEPT ![w] = None] /\ hand[w] \in TaskRuns
        /\ orphans' = [orphans EXCEPT ![hand[w]] = @ + 1] /\ server[w] = "delivering"
    BY <1>2 DEF Disconnect, ServerTypes
  <2>2. orphans' \in [TaskRuns -> Nat] /\ Orphaned' = Orphaned \cup {hand[w]}
    BY <2>1 DEF Orphaned, ServerTypes
  <2>3. InHands \subseteq InHands' \cup {hand[w]}
    BY <2>1 DEF InHands, ServerTypes
  <2> QED BY <1>2, <2>1, <2>2, <2>3 DEF Disconnect, ServerTypes
<1> QED BY <1>1, <1>2

LEMMA InvNext ==
  ASSUME Inv, [Next]_vars
  PROVE  Inv'
<1> USE DEF Inv, Types, Connections
<1>n. None \notin TaskRuns
  BY TaskQueueAssumption
<1>1. ASSUME NEW r \in TaskRuns, Submit(r)
      PROVE  Inv'
  <2>1. Types' /\ Connections'
    BY <1>1 DEF Submit, queues, connection, execution, QueueTypes, ServerTypes, WorkerTypes,
                ConnectionOK
  <2>2. ASSUME NEW q \in TaskRuns
        PROVE  Kept(q)'
    BY <1>1, TasksKeptIs
    DEF Submit, queues, connection, execution, ServerTypes, Kept, InQueues, InHands,
        Orphaned, Waiting
  <2> QED BY <2>1, <2>2 DEF TasksKept, Kept
<1>2. ASSUME NEW r \in TaskRuns, Put(r)
      PROVE  Inv'
  <2>1. QueueTypes' /\ InQueues' = InQueues \cup {r}
    BY <1>2, PutAdds DEF Put
  <2>2. Types' /\ Connections'
    BY <1>2, <2>1 DEF Put, connection, execution, ServerTypes, WorkerTypes, ConnectionOK
  <2>3. ASSUME NEW q \in TaskRuns
        PROVE  Kept(q)'
    BY <1>2, <2>1, TasksKeptIs
    DEF Put, connection, execution, ServerTypes, Kept, InHands, Orphaned
  <2> QED BY <2>2, <2>3 DEF TasksKept, Kept
<1>3. ASSUME NEW r \in TaskRuns, PutBack(r)
      PROVE  Inv'
  <2>1. QueueTypes' /\ InQueues' = InQueues \cup {r}
    BY <1>3, PutBackAdds DEF PutBack
  <2>2. Types' /\ Connections'
    BY <1>3, <2>1 DEF PutBack, connection, execution, ServerTypes, WorkerTypes, ConnectionOK
  <2>3. ASSUME NEW q \in TaskRuns
        PROVE  Kept(q)'
    BY <1>3, <2>1, TasksKeptIs
    DEF PutBack, connection, execution, ServerTypes, Kept, InHands, Orphaned
  <2> QED BY <2>2, <2>3 DEF TasksKept, Kept
<1>4. ASSUME NEW w \in Workers, Subscribe(w)
      PROVE  Inv'
  <2>1. Types' /\ Connections'
    BY <1>4 DEF Subscribe, queues, execution, QueueTypes, ServerTypes, WorkerTypes,
                ConnectionOK
  <2>2. ASSUME NEW q \in TaskRuns
        PROVE  Kept(q)'
    BY <1>4, TasksKeptIs
    DEF Subscribe, queues, execution, Kept, InQueues, InHands, Orphaned, Waiting
  <2> QED BY <2>1, <2>2 DEF TasksKept, Kept
<1>5. ASSUME NEW w \in Workers, Deliver(w)
      PROVE  Inv'
  <2>1. PICK r \in TaskRuns : /\ GetNowait(w, r)
                             /\ hand' = [hand EXCEPT ![w] = r]
                             /\ wire' = [wire EXCEPT ![w] = r]
    BY <1>5 DEF Deliver
  <2>2. QueueTypes' /\ InQueues \subseteq InQueues' \cup {r}
    BY <2>1, GetTakes
  <2>3. hand[w] = None
    BY <1>5 DEF Deliver, ServerTypes
  <2>4. Types'
    BY <1>5, <1>n, <2>1, <2>2 DEF Deliver, execution, ServerTypes, WorkerTypes
  <2>5. Connections'
    BY <1>5, <1>n, <2>1 DEF Deliver, execution, ServerTypes, WorkerTypes, ConnectionOK
  <2>6. InHands \cup {r} \subseteq InHands'
    BY <1>n, <2>1, <2>3 DEF InHands, ServerTypes
  <2>7. ASSUME NEW q \in TaskRuns
        PROVE  Kept(q)'
    BY <1>5, <2>2, <2>6, TasksKeptIs DEF Deliver, execution, Kept, Orphaned
  <2> QED BY <2>4, <2>5, <2>7 DEF TasksKept, Kept
<1>6. ASSUME NEW w \in Workers, Acknowledged(w)
      PROVE  Inv'
  <2>1. Types' /\ Connections'
    BY <1>6 DEF Acknowledged, queues, execution, QueueTypes, ServerTypes, WorkerTypes,
                ConnectionOK
  <2>2. InHands \subseteq InHands' \cup {hand[w]}
    BY <1>6 DEF Acknowledged, InHands, ServerTypes
  <2>3. received[w] = hand[w] \/ hand[w] \in started \cup lost
    BY <1>6 DEF Acknowledged, ConnectionOK
  <2>4. ASSUME NEW q \in TaskRuns
        PROVE  Kept(q)'
    BY <1>6, <2>2, <2>3, TasksKeptIs
    DEF Acknowledged, queues, execution, Kept, InQueues, Orphaned, Waiting
  <2> QED BY <2>1, <2>4 DEF TasksKept, Kept
<1>7. ASSUME NEW w \in Workers, DeliverStale(w)
      PROVE  Inv'
  <2>1. CASE UNCHANGED <<queues, orphans>>
    <3>1. Types' /\ Connections'
      BY <1>7, <2>1 DEF DeliverStale, queues, connection, execution, QueueTypes,
                        ServerTypes, WorkerTypes, ConnectionOK
    <3>2. ASSUME NEW q \in TaskRuns
          PROVE  Kept(q)'
      BY <1>7, <2>1, TasksKeptIs
      DEF DeliverStale, queues, connection, execution, Kept, InQueues, InHands, Orphaned,
          Waiting
    <3> QED BY <3>1, <3>2 DEF TasksKept, Kept
  <2>2. ASSUME NEW r \in TaskRuns, GetNowait(w, r),
               orphans' = [orphans EXCEPT ![r] = @ + 1]
        PROVE  Inv'
    <3>1. QueueTypes' /\ InQueues \subseteq InQueues' \cup {r}
      BY <2>2, GetTakes
    <3>2. Types' /\ Connections'
      BY <1>7, <2>2, <3>1
      DEF DeliverStale, connection, execution, ServerTypes, WorkerTypes, ConnectionOK
    <3>3. Orphaned \cup {r} \subseteq Orphaned'
      BY <2>2 DEF Orphaned, ServerTypes
    <3>4. ASSUME NEW q \in TaskRuns
          PROVE  Kept(q)'
      BY <1>7, <3>1, <3>3, TasksKeptIs
      DEF DeliverStale, connection, execution, Kept, InHands
    <3> QED BY <3>2, <3>4 DEF TasksKept, Kept
  <2> QED BY <1>7, <2>1, <2>2 DEF DeliverStale
<1>8. ASSUME NEW w \in Workers, Receive(w)
      PROVE  Inv'
  <2>1. wire[w] \in TaskRuns /\ hand[w] = wire[w] /\ received[w] = None
    BY <1>8 DEF Receive, ConnectionOK, ServerTypes, WorkerTypes
  <2>2. Types'
    BY <1>8, <1>n, <2>1
    DEF Receive, queues, QueueTypes, ServerTypes, WorkerTypes
  <2>3. Connections'
    BY <1>8, <2>1
    DEF Receive, queues, ServerTypes, WorkerTypes, ConnectionOK
  <2>4. ASSUME NEW q \in TaskRuns
        PROVE  Kept(q)'
    BY <1>8, <1>n, <2>1, TasksKeptIs
    DEF Receive, queues, WorkerTypes, Kept, InQueues, InHands, Orphaned, Waiting
  <2> QED BY <2>2, <2>3, <2>4 DEF TasksKept, Kept
<1>9. ASSUME NEW w \in Workers, AcquireToken(w)
      PROVE  Inv'
  <2>1. received[w] \in TaskRuns /\ worker[w] = "acquiring"
    BY <1>9 DEF AcquireToken, WorkerTypes
  <2>2. /\ started' = started \cup {received[w]} /\ running' \in [Workers -> [TaskRuns -> Nat]]
        /\ \A v \in Workers, r \in TaskRuns : running'[v][r] > 0 => r \in started'
    <3>1. CASE Refused(w, received[w])
      <4>1. UNCHANGED <<running, started>>
        BY <1>9, <3>1 DEF AcquireToken
      <4>2. received[w] \in started
        BY <2>1, <3>1 DEF Refused, ConnectionOK
      <4> QED BY <4>1, <4>2 DEF WorkerTypes, ConnectionOK
    <3>2. CASE ~Refused(w, received[w])
      <4> DEFINE q == received[w]
                 mine == [running[w] EXCEPT ![q] = @ + 1]
      <4>1. /\ running' = [running EXCEPT ![w] = mine]
            /\ started' = started \cup {q}
        BY <1>9, <3>2 DEF AcquireToken
      <4>2. mine \in [TaskRuns -> Nat] /\ \A r \in TaskRuns \ {q} : mine[r] = running[w][r]
        BY <2>1 DEF WorkerTypes
      <4> HIDE DEF mine
      <4>3. \A r \in TaskRuns : mine[r] > 0 => r \in started'
        BY <4>1, <4>2 DEF ConnectionOK
      <4> QED BY <4>1, <4>2, <4>3 DEF WorkerTypes, ConnectionOK
    <3> QED BY <3>1, <3>2
  <2>3. /\ worker' = [worker EXCEPT ![w] = "listening"]
        /\ received' = [received EXCEPT ![w] = None]
        /\ UNCHANGED <<submission, scheduled, retry, server, hand, wire, ack, stale,
                       orphans, unsure, lost>>
    BY <1>9 DEF AcquireToken, Listen, queues, connection
  <2>4. Types'
    BY <2>1, <2>2, <2>3 DEF QueueTypes, ServerTypes, WorkerTypes
  <2>5. Connections'
    BY <2>1, <2>2, <2>3 DEF WorkerTypes, ConnectionOK
  <2>6. ASSUME NEW q \in TaskRuns
        PROVE  Kept(q)'
    BY <2>1, <2>2, <2>3, TasksKeptIs
    DEF WorkerTypes, Kept, InQueues, InHands, Orphaned, Waiting
  <2> QED BY <2>4, <2>5, <2>6 DEF TasksKept, Kept
<1>10. ASSUME NEW w \in Workers, NEW r \in TaskRuns, Finish(w, r)
       PROVE  Inv'
  <2>1. Types' /\ Connections'
    BY <1>10 DEF Finish, queues, connection, QueueTypes, ServerTypes, WorkerTypes,
                 ConnectionOK
  <2>2. ASSUME NEW q \in TaskRuns
        PROVE  Kept(q)'
    BY <1>10, TasksKeptIs
    DEF Finish, queues, connection, Kept, InQueues, InHands, Orphaned, Waiting
  <2> QED BY <2>1, <2>2 DEF TasksKept, Kept
<1>11. ASSUME NEW w \in Workers, Break(w)
       PROVE  Inv'
  <2>1. Disconnect(w) /\ UNCHANGED <<submission, scheduled, retry, worker, received,
                                    running, started, lost>>
    BY <1>11 DEF Break, queues, execution
  <2>2. Types'
    BY <2>1, DisconnectKeeps DEF QueueTypes, ServerTypes, WorkerTypes
  <2>3. Connections'
    BY <2>1, DisconnectKeeps DEF ServerTypes, ConnectionOK
  <2>4. ASSUME NEW q \in TaskRuns
        PROVE  Kept(q)'
    BY <2>1, DisconnectKeeps, TasksKeptIs DEF Kept, InQueues, Waiting
  <2> QED BY <2>2, <2>3, <2>4 DEF TasksKept, Kept
<1>12. ASSUME NEW w \in Workers, Die(w)
       PROVE  Inv'
  <2>1. /\ worker' = [worker EXCEPT ![w] = "dead"]
        /\ received' = [received EXCEPT ![w] = None]
        /\ running' = [running EXCEPT ![w] = [r \in TaskRuns |-> 0]]
        /\ lost' = lost \cup ({received[w]} \ {None})
        /\ UNCHANGED <<submission, scheduled, retry, started>>
        /\ Disconnect(w)
             \/ (server[w] = "down" /\ UNCHANGED <<server, hand, wire, ack, stale, orphans,
                                                  unsure>>)
    BY <1>12 DEF Die, queues, connection
  <2>2. /\ InHands \cup Orphaned \subseteq InHands' \cup Orphaned'
        /\ ServerTypes' /\ server'[w] = "down" /\ wire'[w] = None /\ ~ack'[w]
        /\ \A v \in Workers \ {w} : /\ server'[v] = server[v] /\ hand'[v] = hand[v]
                                    /\ wire'[v] = wire[v] /\ ack'[v] = ack[v]
    <3>1. CASE Disconnect(w)
      <4>1. lost' \subseteq TaskRuns /\ submission' = submission
        BY <2>1 DEF ServerTypes, WorkerTypes
      <4>2. ServerTypes'
        BY <3>1, <4>1, DisconnectKeeps DEF ServerTypes
      <4>3. InHands \cup Orphaned \subseteq InHands' \cup Orphaned'
        BY <3>1, DisconnectKeeps
      <4> QED BY <3>1, <4>2, <4>3, DisconnectKeeps DEF ServerTypes
    <3>2. CASE server[w] = "down" /\ UNCHANGED <<server, hand, wire, ack, stale, orphans,
                                                 unsure>>
      BY <2>1, <3>2 DEF ServerTypes, WorkerTypes, ConnectionOK, InHands, Orphaned
    <3> QED BY <2>1, <3>1, <3>2
  <2>3. QueueTypes' /\ WorkerTypes'
    BY <2>1 DEF QueueTypes, WorkerTypes
  <2>4. Connections'
    BY <2>1, <2>2 DEF WorkerTypes, ConnectionOK
  <2>5. ASSUME NEW q \in TaskRuns
        PROVE  Kept(q)'
    BY <1>n, <2>1, <2>2, TasksKeptIs DEF WorkerTypes, Kept, InQueues, Waiting
  <2> QED BY <2>2, <2>3, <2>4, <2>5 DEF TasksKept, Kept
<1>13. CASE Restart
  <2>1. <<>> \in Seq(TaskRuns) /\ Len(<<>>) = 0
    BY EmptySeq
  <2>2. QueueTypes'
    BY <1>13, <2>1, TaskQueueAssumption DEF Restart, QueueTypes
  <2>3. InQueues \cup InHands \cup Orphaned \subseteq TaskRuns
    <3>1. InQueues \subseteq TaskRuns
      <4>1. ASSUME NEW S, NEW q \in Seq(S)
            PROVE  Elements(q) \subseteq S
        BY ElementOfSeq, LenProperties DEF Elements
      <4> QED BY <4>1, InQueuesIs DEF QueueTypes
    <3> QED BY <3>1 DEF InHands, Orphaned, ServerTypes
  <2>4. ServerTypes' /\ WorkerTypes'
    BY <1>13, <2>3 DEF Restart, execution, ServerTypes, WorkerTypes
  <2>5. Connections'
    BY <1>13 DEF Restart, execution, ServerTypes, ConnectionOK
  <2>6. ASSUME NEW q \in TaskRuns
        PROVE  Kept(q)'
    BY <1>13, TasksKeptIs DEF Restart, execution, ServerTypes, Kept
  <2> QED BY <2>2, <2>4, <2>5, <2>6 DEF TasksKept, Kept
<1>14. CASE UNCHANGED vars
  <2>1. Types' /\ Connections'
    BY <1>14 DEF vars, QueueTypes, ServerTypes, WorkerTypes, ConnectionOK
  <2>2. TasksKept'
    BY <1>14 DEF vars, TasksKept, InQueues, InHands, Orphaned, Waiting
  <2> QED BY <2>1, <2>2
<1> QED BY <1>1, <1>2, <1>3, <1>4, <1>5, <1>6, <1>7, <1>8, <1>9, <1>10, <1>11, <1>12, <1>13,
           <1>14 DEF Next, ServerStep, WorkerStep

\* Every variable keeps its type, and queues their capacity.
THEOREM TypeCorrect == Spec => []TypeOK
<1>1. Inv => TypeOK
  BY DEF Inv, Types, QueueTypes, ServerTypes, WorkerTypes, TypeOK
<1> QED BY <1>1, InvInit, InvNext, PTL DEF Spec

\* No task run that was scheduled is forgotten: it waits, is being delivered, is with a
\* worker or has begun, unless a server or a worker stopped with it in memory.
THEOREM NoTaskForgotten == Spec => []TasksKept
<1>1. Inv => TasksKept
  BY DEF Inv
<1> QED BY <1>1, InvInit, InvNext, PTL DEF Spec

-----------------------------------------------------------------------------
(* Runs that are not delivered twice.                                      *)

\* An element that occurs once at most.
Once(q, r) == \A i, j \in DOMAIN q : q[i] = r /\ q[j] = r => i = j

LEMMA OnceAppended ==
  ASSUME NEW S, NEW q \in Seq(S), NEW e \in S, NEW r, Once(q, r),
         e = r => r \notin Elements(q)
  PROVE  Once(Append(q, e), r)
<1>1. /\ Append(q, e) \in Seq(S) /\ Len(Append(q, e)) = Len(q) + 1
      /\ \A i \in 1..Len(q) : Append(q, e)[i] = q[i]
      /\ Append(q, e)[Len(q) + 1] = e
  BY AppendProperties
<1>2. /\ DOMAIN q = 1..Len(q) /\ Len(q) \in Nat
      /\ DOMAIN Append(q, e) = 1..(Len(q) + 1)
  BY <1>1, LenProperties
<1>3. ASSUME NEW i \in 1..(Len(q) + 1), Append(q, e)[i] = r
      PROVE  (i = Len(q) + 1 /\ e = r) \/ (i \in DOMAIN q /\ q[i] = r /\ e # r)
  BY <1>1, <1>2, <1>3 DEF Elements
<1> QED BY <1>2, <1>3 DEF Once

LEMMA OnceTaken ==
  ASSUME NEW S, NEW q \in Seq(S), q # <<>>, NEW r, Once(q, r)
  PROVE  /\ Once(Tail(q), r)
         /\ Head(q) = r => r \notin Elements(Tail(q))
<1>1. /\ Tail(q) \in Seq(S) /\ Len(Tail(q)) = Len(q) - 1
      /\ \A i \in 1..Len(Tail(q)) : Tail(q)[i] = q[i + 1]
  BY HeadTailProperties
<1>2. /\ DOMAIN q = 1..Len(q) /\ Len(q) \in Nat \ {0} /\ Head(q) = q[1]
      /\ DOMAIN Tail(q) = 1..(Len(q) - 1)
  BY <1>1, LenProperties, EmptySeq
<1>3. \A i \in DOMAIN Tail(q) : i + 1 \in DOMAIN q /\ Tail(q)[i] = q[i + 1] /\ i + 1 # 1
  BY <1>1, <1>2
<1>4. Once(Tail(q), r)
  BY <1>2, <1>3 DEF Once
<1>5. Head(q) = r => r \notin Elements(Tail(q))
  BY <1>2, <1>3 DEF Once, Elements
<1> QED BY <1>4, <1>5

\* r is queued once at most, and in the queues of its key.
QueuedOnce(r) ==
  \A k \in Keys :
    /\ Once(retry[k], r) /\ Once(scheduled[k], r)
    /\ r \in Elements(retry[k]) => r \notin Elements(scheduled[k])
    /\ r \in Elements(retry[k]) \cup Elements(scheduled[k]) => k = KeyOf[r]

\* A worker has r; the server has given r to w, and may know so.
Has(w, r) == received[w] = r \/ running[w][r] > 0
Given(w, r) == hand[w] = r \/ Has(w, r)

\* As long as no acknowledgement of r got lost there is one of it: in a queue, on its way
\* back to one, or with one worker.  That a delivered run has not been received is why
\* it may be put back.
Alone(r) ==
  /\ submission[r] # "put"
       => r \notin InQueues /\ orphans[r] = 0 /\ \A w \in Workers : ~Given(w, r)
  /\ QueuedOnce(r)
  /\ r \in InQueues => orphans[r] = 0 /\ \A w \in Workers : ~Given(w, r)
  /\ orphans[r] > 0 => orphans[r] = 1 /\ \A w \in Workers : ~Given(w, r)
  /\ \A v, w \in Workers : Given(v, r) /\ Given(w, r) => v = w
  /\ \A w \in Workers : wire[w] = r => ~Has(w, r)

Uniqueness == \A r \in TaskRuns \ unsure : Alone(r)

\* The limiter of a worker refuses a run that it executes.
TokensHeld ==
  \A w \in Workers, r \in TaskRuns : Limit[w] # None => running[w][r] <= 1

LEMMA UniqueInit == Init => Uniqueness /\ TokensHeld
<1> SUFFICES ASSUME Init PROVE Uniqueness /\ TokensHeld
  OBVIOUS
<1>1. DOMAIN <<>> = {} /\ Elements(<<>>) = {}
  BY DEF Elements
<1>2. \A k \in Keys : scheduled[k] = <<>> /\ retry[k] = <<>>
  BY DEF Init
<1>3. QueueTypes
  BY InvInit DEF Inv, Types
<1>4. InQueues = {}
  BY <1>1, <1>2, <1>3, InQueuesIs
<1>5. \A r : QueuedOnce(r)
  BY <1>1, <1>2 DEF QueuedOnce, Once
<1>6. None \notin TaskRuns
  BY TaskQueueAssumption
<1> QED BY <1>4, <1>5, <1>6 DEF Init, Uniqueness, Alone, Given, Has, TokensHeld

\* What is put into a queue, or taken from it, and is nowhere else, stays unique.
LEMMA PutQueuedOnce ==
  ASSUME QueueTypes, NEW r \in TaskRuns, NEW q \in TaskRuns, QueuedOnce(q),
         q = r => q \notin InQueues,
         \/ /\ scheduled' = [scheduled EXCEPT ![KeyOf[r]] = Append(@, r)]
            /\ retry' = retry
         \/ /\ retry' = [retry EXCEPT ![KeyOf[r]] = Append(@, r)]
            /\ scheduled' = scheduled
  PROVE  QueuedOnce(q)'
<1>1. KeyOf[r] \in Keys
  BY TaskQueueAssumption
<1>2. \A k \in Keys : retry[k] \in Seq(TaskRuns) /\ scheduled[k] \in Seq(TaskRuns)
  BY DEF QueueTypes
<1>3. \A k \in Keys : q = r => q \notin Elements(retry[k]) /\ q \notin Elements(scheduled[k])
  BY InQueuesIs
<1> SUFFICES ASSUME NEW k \in Keys
             PROVE  /\ Once(retry'[k], q) /\ Once(scheduled'[k], q)
                    /\ q \in Elements(retry'[k]) => q \notin Elements(scheduled'[k])
                    /\ q \in Elements(retry'[k]) \cup Elements(scheduled'[k])
                         => k = KeyOf[q]
  BY DEF QueuedOnce
<1>4. /\ Once(retry[k], q) /\ Once(scheduled[k], q)
      /\ q \in Elements(retry[k]) => q \notin Elements(scheduled[k])
      /\ q \in Elements(retry[k]) \cup Elements(scheduled[k]) => k = KeyOf[q]
  BY DEF QueuedOnce
<1>5. CASE k # KeyOf[r]
  <2>1. retry'[k] = retry[k] /\ scheduled'[k] = scheduled[k]
    BY <1>1, <1>5 DEF QueueTypes
  <2> QED BY <1>4, <2>1
<1>6. CASE k = KeyOf[r]
  <2>1. /\ Once(Append(retry[k], r), q) /\ Once(Append(scheduled[k], r), q)
        /\ Elements(Append(retry[k], r)) = Elements(retry[k]) \cup {r}
        /\ Elements(Append(scheduled[k], r)) = Elements(scheduled[k]) \cup {r}
    BY <1>2, <1>3, <1>4, OnceAppended, ElementsOfAppend
  <2>2. \/ scheduled'[k] = Append(scheduled[k], r) /\ retry'[k] = retry[k]
        \/ retry'[k] = Append(retry[k], r) /\ scheduled'[k] = scheduled[k]
    BY <1>6 DEF QueueTypes
  <2> QED BY <1>3, <1>4, <1>6, <2>1, <2>2
<1> QED BY <1>5, <1>6

LEMMA TakenQueuedOnce ==
  ASSUME QueueTypes, QueueTypes', NEW r, NEW k \in Keys, Takes(r, k), NEW q \in TaskRuns,
         QueuedOnce(q)
  PROVE  QueuedOnce(q)' /\ (q = r => q \notin InQueues')
<1>1. \A j \in Keys : retry[j] \in Seq(TaskRuns) /\ scheduled[j] \in Seq(TaskRuns)
  BY DEF QueueTypes
<1>2. \A j \in Keys :
        /\ Once(retry[j], q) /\ Once(scheduled[j], q)
        /\ q \in Elements(retry[j]) => q \notin Elements(scheduled[j])
        /\ q \in Elements(retry[j]) \cup Elements(scheduled[j]) => j = KeyOf[q]
  BY DEF QueuedOnce
<1>3. ASSUME retry[k] # <<>>, r = Head(retry[k]), scheduled' = scheduled,
             retry' = [retry EXCEPT ![k] = Tail(retry[k])]
      PROVE  QueuedOnce(q)' /\ (q = r => q \notin InQueues')
  <2>1. /\ Once(Tail(retry[k]), q) /\ (q = r => q \notin Elements(Tail(retry[k])))
        /\ Elements(retry[k]) = {r} \cup Elements(Tail(retry[k]))
    BY <1>1, <1>2, <1>3, OnceTaken, ElementsOfTail
  <2>2. \A j \in Keys : retry'[j] = IF j = k THEN Tail(retry[k]) ELSE retry[j]
    BY <1>3 DEF QueueTypes
  <2>3. QueuedOnce(q)'
    BY <1>2, <1>3, <2>1, <2>2 DEF QueuedOnce
  <2>4. q = r => \A j \in Keys : /\ q \notin Elements(retry'[j])
                                /\ q \notin Elements(scheduled'[j])
    BY <1>2, <1>3, <2>1, <2>2
  <2> QED BY <2>3, <2>4, InQueuesWillBe
<1>4. ASSUME scheduled[k] # <<>>, r = Head(scheduled[k]), retry' = retry,
             scheduled' = [scheduled EXCEPT ![k] = Tail(scheduled[k])]
      PROVE  QueuedOnce(q)' /\ (q = r => q \notin InQueues')
  <2>1. /\ Once(Tail(scheduled[k]), q) /\ (q = r => q \notin Elements(Tail(scheduled[k])))
        /\ Elements(scheduled[k]) = {r} \cup Elements(Tail(scheduled[k]))
    BY <1>1, <1>2, <1>4, OnceTaken, ElementsOfTail
  <2>2. \A j \in Keys : scheduled'[j] = IF j = k THEN Tail(scheduled[k]) ELSE scheduled[j]
    BY <1>4 DEF QueueTypes
  <2>3. QueuedOnce(q)'
    BY <1>2, <1>4, <2>1, <2>2 DEF QueuedOnce
  <2>4. q = r => \A j \in Keys : /\ q \notin Elements(retry'[j])
                                /\ q \notin Elements(scheduled'[j])
    BY <1>2, <1>4, <2>1, <2>2
  <2> QED BY <2>3, <2>4, InQueuesWillBe
<1> QED BY <1>3, <1>4 DEF Takes


LEMMA GetUnique ==
  ASSUME QueueTypes, NEW w \in Workers, NEW r, GetNowait(w, r), NEW q \in TaskRuns,
         QueuedOnce(q)
  PROVE  /\ QueuedOnce(q)' /\ InQueues' \subseteq InQueues
         /\ q = r => q \in InQueues /\ q \notin InQueues'
<1>1. QueueTypes' /\ InQueues' \subseteq InQueues
  BY GetTakes
<1>2. PICK k \in Keys : Takes(r, k)
  BY GetTakesOne
<1>3. QueuedOnce(q)' /\ (q = r => q \notin InQueues')
  BY <1>1, <1>2, TakenQueuedOnce
<1>4. retry[k] \in Seq(TaskRuns) /\ scheduled[k] \in Seq(TaskRuns)
  BY DEF QueueTypes
<1>5. r \in InQueues
  BY <1>2, <1>4, ElementsOfTail, InQueuesIs DEF Takes
<1> QED BY <1>1, <1>3, <1>5

LEMMA QueuesStay ==
  ASSUME scheduled' = scheduled, retry' = retry, NEW q
  PROVE  InQueues' = InQueues /\ (QueuedOnce(q) <=> QueuedOnce(q)')
BY DEF InQueues, Waiting, QueuedOnce

LEMMA TokensNext ==
  ASSUME Inv, TokensHeld, [Next]_vars
  PROVE  TokensHeld'
<1>1. WorkerTypes
  BY DEF Inv, Types
<1>2. CASE running' = running
  BY <1>2 DEF TokensHeld
<1>3. ASSUME NEW w \in Workers, AcquireToken(w)
      PROVE  TokensHeld'
  <2> DEFINE r == received[w]
  <2>1. r \in TaskRuns
    BY <1>1, <1>3 DEF AcquireToken, WorkerTypes
  <2>2. CASE ~Refused(w, r)
    <3> DEFINE mine == [running[w] EXCEPT ![r] = @ + 1]
    <3>1. running' = [running EXCEPT ![w] = mine]
      BY <1>3, <2>2 DEF AcquireToken
    <3>2. ASSUME NEW q \in TaskRuns, Limit[w] # None
          PROVE  mine[q] <= 1
      BY <1>1, <2>1, <2>2, <3>2 DEF Refused, TokensHeld, WorkerTypes
    <3> HIDE DEF mine
    <3> QED BY <1>1, <3>1, <3>2 DEF TokensHeld, WorkerTypes
  <2>3. CASE Refused(w, r)
    BY <1>2, <1>3, <2>3 DEF AcquireToken
  <2> QED BY <2>2, <2>3
<1>4. ASSUME NEW w \in Workers, NEW r \in TaskRuns, Finish(w, r)
      PROVE  TokensHeld'
  BY <1>1, <1>4 DEF Finish, TokensHeld, WorkerTypes
<1>5. ASSUME NEW w \in Workers, Die(w)
      PROVE  TokensHeld'
  BY <1>1, <1>5 DEF Die, TokensHeld, WorkerTypes
<1> QED BY <1>2, <1>3, <1>4, <1>5
        DEF Next, vars, ServerStep, WorkerStep, Submit, Put, PutBack, Deliver, Acknowledged,
            DeliverStale, Subscribe, Receive, Break, Restart, execution

\* What was delivered and not received goes back; what was received may be there twice.
LEMMA DisconnectUnique ==
  ASSUME ServerTypes, NEW w \in Workers, ConnectionOK(w), Disconnect(w),
         NEW q \in TaskRuns \ unsure', Alone(q)
  PROVE  \/ hand[w] # q /\ orphans'[q] = orphans[q]
         \/ /\ hand[w] = q /\ orphans'[q] = 1 /\ q \notin InQueues
            /\ submission[q] = "put"
            /\ \A v \in Workers : ~Has(v, q) /\ (hand[v] = q => v = w)
<1>1. CASE server[w] = "waiting"
  <2>1. hand[w] # q
    BY <1>1, TaskQueueAssumption DEF ServerTypes
  <2> QED BY <1>1, <2>1 DEF Disconnect
<1>2. CASE server[w] # "waiting"
  <2>1. /\ hand[w] \in TaskRuns /\ server[w] = "delivering"
        /\ orphans' = [orphans EXCEPT ![hand[w]] = @ + 1]
        /\ unsure' = unsure \cup (IF ack[w] THEN {hand[w]} ELSE {})
    BY <1>2 DEF Disconnect, ServerTypes
  <2>2. CASE hand[w] # q
    BY <2>1, <2>2 DEF ServerTypes
  <2>3. CASE hand[w] = q
    <3>1. ~ack[w] /\ wire[w] = q
      BY <2>1, <2>3 DEF ConnectionOK
    <3>2. Given(w, q) /\ ~Has(w, q)
      BY <2>3, <3>1 DEF Given, Alone
    <3>3. /\ orphans[q] \in Nat /\ ~(orphans[q] > 0) /\ q \notin InQueues
          /\ submission[q] = "put" /\ \A v \in Workers : Given(v, q) => v = w
      BY <3>2 DEF Alone, ServerTypes
    <3>4. orphans'[q] = 1
      BY <2>1, <2>3, <3>3 DEF ServerTypes
    <3> QED BY <2>3, <3>2, <3>3, <3>4 DEF Given
  <2> QED BY <2>2, <2>3
<1> QED BY <1>1, <1>2


LEMMA AloneNext ==
  ASSUME Inv, Inv', [Next]_vars, NEW q \in TaskRuns \ unsure', Alone(q)
  PROVE  Alone(q)'
<1> USE DEF Inv, Types, Connections
<1>n. None \notin TaskRuns
  BY TaskQueueAssumption
<1>1. ASSUME NEW r \in TaskRuns, Submit(r)
      PROVE  Alone(q)'
  BY <1>1, QueuesStay
  DEF Submit, queues, connection, execution, ServerTypes, Alone, Given, Has
<1>2. ASSUME NEW r \in TaskRuns, Put(r)
      PROVE  Alone(q)'
  <2>1. InQueues' = InQueues \cup {r}
    BY <1>2, PutAdds DEF Put
  <2>2. submission' = [submission EXCEPT ![r] = "put"] /\ submission[r] # "put"
    BY <1>2 DEF Put
  <2>3. QueuedOnce(q)'
    BY <1>2, <2>2, PutQueuedOnce DEF Put, Alone
  <2> QED BY <1>2, <2>1, <2>2, <2>3
          DEF Put, connection, execution, ServerTypes, Alone, Given, Has
<1>3. ASSUME NEW r \in TaskRuns, PutBack(r)
      PROVE  Alone(q)'
  <2>1. InQueues' = InQueues \cup {r}
    BY <1>3, PutBackAdds DEF PutBack
  <2>2. orphans' = [orphans EXCEPT ![r] = @ - 1] /\ orphans[r] > 0
    BY <1>3 DEF PutBack
  <2>3. QueuedOnce(q)'
    <3>1. q = r => q \notin InQueues
      BY <2>2 DEF Alone
    <3>2. /\ retry' = [retry EXCEPT ![KeyOf[r]] = Append(@, r)] /\ scheduled' = scheduled
          /\ QueueTypes /\ QueuedOnce(q) /\ q \in TaskRuns
      BY <1>3 DEF PutBack, Alone
    <3> QED BY <3>1, <3>2, PutQueuedOnce
  <2> QED BY <1>3, <2>1, <2>2, <2>3
          DEF PutBack, connection, execution, ServerTypes, Alone, Given, Has
<1>4. ASSUME NEW w \in Workers, Subscribe(w)
      PROVE  Alone(q)'
  BY <1>4, QueuesStay DEF Subscribe, queues, execution, Alone, Given, Has
<1>5. ASSUME NEW w \in Workers, Deliver(w)
      PROVE  Alone(q)'
  <2>1. PICK r \in TaskRuns : /\ GetNowait(w, r)
                             /\ hand' = [hand EXCEPT ![w] = r]
                             /\ wire' = [wire EXCEPT ![w] = r]
    BY <1>5 DEF Deliver
  <2>2. QueuedOnce(q)' /\ (q = r => q \in InQueues /\ q \notin InQueues')
        /\ InQueues' \subseteq InQueues
    BY <2>1, GetUnique DEF Alone
  <2>3. hand[w] = None
    BY <1>5 DEF Deliver, ServerTypes
  <2> QED BY <1>5, <1>n, <2>1, <2>2, <2>3
          DEF Deliver, execution, ServerTypes, Alone, Given, Has
<1>6. ASSUME NEW w \in Workers, Acknowledged(w)
      PROVE  Alone(q)'
  BY <1>6, <1>n, QueuesStay
  DEF Acknowledged, queues, execution, ServerTypes, Alone, Given, Has
<1>7. ASSUME NEW w \in Workers, DeliverStale(w)
      PROVE  Alone(q)'
  <2>1. CASE UNCHANGED <<queues, orphans>>
    BY <1>7, <2>1, QueuesStay
    DEF DeliverStale, queues, connection, execution, Alone, Given, Has
  <2>2. CASE \E r \in TaskRuns : GetNowait(w, r) /\ orphans' = [orphans EXCEPT ![r] = @ + 1]
    <3>1. PICK r \in TaskRuns : GetNowait(w, r) /\ orphans' = [orphans EXCEPT ![r] = @ + 1]
      BY <2>2
    <3>2. QueuedOnce(q)' /\ (q = r => q \in InQueues /\ q \notin InQueues')
          /\ InQueues' \subseteq InQueues
      BY <3>1, GetUnique DEF Alone
    <3> QED BY <1>7, <3>1, <3>2
            DEF DeliverStale, connection, execution, ServerTypes, Alone, Given, Has
  <2> QED BY <1>7, <2>1, <2>2 DEF DeliverStale
<1>8. ASSUME NEW w \in Workers, Receive(w)
      PROVE  Alone(q)'
  <2>1. wire[w] \in TaskRuns /\ hand[w] = wire[w] /\ received[w] = None
    BY <1>8 DEF Receive, ConnectionOK, ServerTypes, WorkerTypes
  <2> QED BY <1>8, <1>n, <2>1, QueuesStay
          DEF Receive, queues, ServerTypes, WorkerTypes, Alone, Given, Has
<1>9. ASSUME NEW w \in Workers, AcquireToken(w)
      PROVE  Alone(q)'
  <2>1. received[w] \in TaskRuns
    BY <1>9 DEF AcquireToken, WorkerTypes
  <2>2. ASSUME NEW v \in Workers, running'[v][q] > 0
        PROVE  Has(v, q)
    <3>1. CASE ~Refused(w, received[w])
      <4> DEFINE mine == [running[w] EXCEPT ![received[w]] = @ + 1]
      <4>1. running' = [running EXCEPT ![w] = mine]
        BY <1>9, <3>1 DEF AcquireToken
      <4>2. mine[q] > 0 => received[w] = q \/ running[w][q] > 0
        BY <2>1 DEF WorkerTypes
      <4> HIDE DEF mine
      <4> QED BY <2>2, <4>1, <4>2 DEF WorkerTypes, Has
    <3>2. CASE Refused(w, received[w])
      BY <1>9, <2>2, <3>2 DEF AcquireToken, Has
    <3> QED BY <3>1, <3>2
  <2>3. received' = [received EXCEPT ![w] = None]
    BY <1>9 DEF AcquireToken, Listen
  <2>4. \A v \in Workers : Has(v, q)' => Has(v, q)
    BY <1>n, <2>2, <2>3 DEF WorkerTypes, Has
  <2> QED BY <1>9, <2>4, QueuesStay DEF AcquireToken, queues, connection, Alone, Given
<1>10. ASSUME NEW w \in Workers, NEW r \in TaskRuns, Finish(w, r)
       PROVE  Alone(q)'
  <2>1. \A v \in Workers : Has(v, q)' => Has(v, q)
    BY <1>10 DEF Finish, WorkerTypes, Has
  <2> QED BY <1>10, <2>1, QueuesStay DEF Finish, queues, connection, Alone, Given
<1>11. ASSUME NEW w \in Workers, Disconnect(w),
              UNCHANGED <<submission, scheduled, retry>>,
              \A v \in Workers : Has(v, q)' => Has(v, q)
       PROVE  Alone(q)'
  <2>1. InQueues' = InQueues /\ QueuedOnce(q)'
    BY <1>11, QueuesStay DEF Alone
  <2>2. /\ hand' = [hand EXCEPT ![w] = None] /\ wire' = [wire EXCEPT ![w] = None]
        /\ submission' = submission
    BY <1>11 DEF Disconnect
  <2>3. CASE hand[w] # q /\ orphans'[q] = orphans[q]
    BY <1>n, <1>11, <2>1, <2>2, <2>3 DEF ServerTypes, Alone, Given
  <2>4. CASE /\ hand[w] = q /\ orphans'[q] = 1 /\ q \notin InQueues
             /\ submission[q] = "put"
             /\ \A v \in Workers : ~Has(v, q) /\ (hand[v] = q => v = w)
    <3>1. \A v \in Workers : ~Given(v, q)'
      BY <1>n, <1>11, <2>2, <2>4 DEF ServerTypes, Given
    <3> QED BY <1>11, <2>1, <2>2, <2>4, <3>1 DEF Alone, Given
  <2> QED BY <1>11, <2>3, <2>4, DisconnectUnique
<1>12. ASSUME NEW w \in Workers, Break(w)
       PROVE  Alone(q)'
  <2>1. Disconnect(w) /\ UNCHANGED <<submission, scheduled, retry, received, running>>
    BY <1>12 DEF Break, queues, execution
  <2>2. \A v \in Workers : Has(v, q)' => Has(v, q)
    BY <2>1 DEF Has
  <2> QED BY <1>11, <2>1, <2>2
<1>13. ASSUME NEW w \in Workers, Die(w)
       PROVE  Alone(q)'
  <2>1. \A v \in Workers : Has(v, q)' => Has(v, q)
    BY <1>n, <1>13 DEF Die, WorkerTypes, Has
  <2>2. UNCHANGED <<submission, scheduled, retry>>
    BY <1>13 DEF Die, queues
  <2>3. CASE server[w] # "down"
    BY <1>11, <1>13, <2>1, <2>2, <2>3 DEF Die
  <2>4. CASE server[w] = "down"
    <3>1. UNCHANGED <<server, hand, wire, ack, stale, orphans, unsure>>
      BY <1>13, <2>4 DEF Die, connection
    <3> QED BY <2>1, <2>2, <3>1, QueuesStay DEF Alone, Given
  <2> QED BY <2>3, <2>4
<1>14. CASE Restart
  <2>1. /\ scheduled' = [k \in Keys |-> <<>>] /\ retry' = [k \in Keys |-> <<>>]
        /\ hand' = [v \in Workers |-> None] /\ wire' = [v \in Workers |-> None]
        /\ orphans' = [r \in TaskRuns |-> 0] /\ received' = received /\ running' = running
    BY <1>14 DEF Restart, execution
  <2>2. DOMAIN <<>> = {} /\ Elements(<<>>) = {}
    BY DEF Elements
  <2>3. \A k \in Keys : scheduled'[k] = <<>> /\ retry'[k] = <<>>
    BY <2>1
  <2>4. InQueues' = {} /\ QueuedOnce(q)'
    BY <2>2, <2>3, InQueuesWillBe DEF QueuedOnce, Once
  <2>5. \A v \in Workers : (Has(v, q) <=> Has(v, q)') /\ (Given(v, q)' => Has(v, q))
    BY <1>n, <2>1 DEF Given, Has
  <2>6. submission'[q] # "put" => submission[q] # "put"
    BY <1>14 DEF Restart, ServerTypes
  <2> QED BY <1>n, <2>1, <2>4, <2>5, <2>6 DEF Alone, Given
<1>15. CASE UNCHANGED vars
  BY <1>15, QueuesStay DEF vars, Alone, Given, Has
<1> QED BY <1>1, <1>2, <1>3, <1>4, <1>5, <1>6, <1>7, <1>8, <1>9, <1>10, <1>12, <1>13, <1>14,
           <1>15 DEF Next, ServerStep, WorkerStep

\* A worker with a limit never executes a run twice at once, and two workers have it at
\* once only if an acknowledgement got lost.
THEOREM ExecutedOnceAtATime == Spec => []OneExecutionAtATime
<1> DEFINE J == Inv /\ Uniqueness /\ TokensHeld
<1>1. Init => J
  BY InvInit, UniqueInit
<1>2. J /\ [Next]_vars => J'
  <2> SUFFICES ASSUME J, [Next]_vars PROVE J'
    OBVIOUS
  <2>1. Inv' /\ TokensHeld'
    BY InvNext, TokensNext
  <2>2. unsure \subseteq unsure'
    BY DEF Next, vars, ServerStep, WorkerStep, Submit, Put, PutBack, Deliver, Acknowledged,
           DeliverStale, Subscribe, Receive, AcquireToken, Finish, Break, Die, Disconnect,
           Restart
  <2>3. ASSUME NEW q, q \in TaskRuns \ unsure'
        PROVE  Alone(q)'
    BY <2>1, <2>2, <2>3, AloneNext DEF Uniqueness
  <2> QED BY <2>1, <2>3 DEF Uniqueness
<1>3. J => OneExecutionAtATime
  BY DEF Uniqueness, Alone, Given, Has, TokensHeld, OneExecutionAtATime
<1> QED BY <1>1, <1>2, <1>3, PTL DEF Spec

=============================================================================
