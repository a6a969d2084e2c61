-------------------------- MODULE EventServicesProofs --------------------------
(***************************************************************************)
(* What the consumers of events promise whatever the number of events,     *)
(* tasks, copies and retries: no event is forgotten, none is evaluated     *)
(* before the event it follows, none is evaluated twice in quiet times,    *)
(* and a task run's row shows its last state.                              *)
(***************************************************************************)
EXTENDS EventServices, SequenceTheorems, WellFoundedInduction, TLAPS

-----------------------------------------------------------------------------
(* Queues and stacks.                                                      *)

EventsOf(q) == {q[i].event : i \in DOMAIN q}

LEMMA EventsOfAppend ==
  ASSUME NEW S, NEW q \in Seq(S), NEW m \in S
  PROVE  /\ Append(q, m) \in Seq(S)
         /\ EventsOf(Append(q, m)) = EventsOf(q) \cup {m.event}
<1>1. /\ Append(q, m) \in Seq(S) /\ Len(Append(q, m)) = Len(q) + 1
      /\ \A i \in 1..Len(q) : Append(q, m)[i] = q[i]
      /\ Append(q, m)[Len(q) + 1] = m
  BY AppendProperties
<1>2. /\ DOMAIN q = 1..Len(q) /\ Len(q) \in Nat
      /\ DOMAIN Append(q, m) = 1..(Len(q) + 1)
  BY <1>1, LenProperties
<1> QED BY <1>1, <1>2 DEF EventsOf

LEMMA EventsOfTail ==
  ASSUME NEW S, NEW q \in Seq(S), q # <<>>
  PROVE  /\ Tail(q) \in Seq(S) /\ Head(q) \in S
         /\ EventsOf(q) = {Head(q).event} \cup EventsOf(Tail(q))
<1>1. /\ Head(q) \in S /\ Tail(q) \in Seq(S) /\ Len(Tail(q)) = Len(q) - 1
      /\ \A i \in 1..Len(Tail(q)) : Tail(q)[i] = q[i + 1]
  BY HeadTailProperties
<1>2. /\ DOMAIN q = 1..Len(q) /\ Len(q) \in Nat \ {0} /\ Head(q) = q[1]
      /\ DOMAIN Tail(q) = 1..(Len(q) - 1)
  BY <1>1, LenProperties, EmptySeq
<1>3. ASSUME NEW i \in 1..Len(q)
      PROVE  q[i].event \in {Head(q).event} \cup EventsOf(Tail(q))
  <2>1. CASE i = 1
    BY <1>2, <2>1
  <2>2. CASE i # 1
    <3>1. i - 1 \in DOMAIN Tail(q) /\ Tail(q)[i - 1] = q[i]
      BY <1>1, <1>2, <2>2
    <3> QED BY <3>1 DEF EventsOf
  <2> QED BY <2>1, <2>2
<1>4. ASSUME NEW i \in DOMAIN Tail(q)
      PROVE  Tail(q)[i].event \in EventsOf(q)
  BY <1>1, <1>2 DEF EventsOf
<1>5. Head(q).event \in EventsOf(q)
  BY <1>2 DEF EventsOf
<1> QED BY <1>1, <1>2, <1>3, <1>4, <1>5 DEF EventsOf

LEMMA UnderIs ==
  ASSUME NEW S, NEW s \in Seq(S), s # <<>>, NEW u, u = SubSeq(s, 1, Len(s) - 1)
  PROVE  /\ Len(s) \in Nat \ {0} /\ s[Len(s)] \in S /\ \A i \in 1..Len(s) : s[i] \in S
         /\ u \in Seq(S) /\ Len(u) = Len(s) - 1
         /\ DOMAIN u = 1..(Len(s) - 1) /\ DOMAIN s = 1..Len(s)
         /\ \A i \in 1..(Len(s) - 1) : u[i] = s[i]
<1>1. Len(s) \in Nat \ {0} /\ \A i \in 1..Len(s) : s[i] \in S
  BY EmptySeq, LenProperties, ElementOfSeq
<1> DEFINE n == Len(s) - 1
<1>2. \A i \in 1..n : s[i] \in S
  BY <1>1
<1>3. /\ u \in Seq(S) /\ Len(u) = (IF 1 <= n THEN n - 1 + 1 ELSE 0)
      /\ \A i \in 1..(n - 1 + 1) : u[i] = s[1 + i - 1]
  <2>1. n \in Int /\ 1 \in Int
    BY <1>1
  <2> HIDE DEF n
  <2> QED BY <1>2, <2>1, SubSeqProperties DEF n
<1>4. Len(u) = Len(s) - 1
  <2>1. n \in Nat
    BY <1>1
  <2> HIDE DEF n
  <2>2. Len(u) = n
    BY <1>3, <2>1
  <2> QED BY <2>2 DEF n
<1>5. ASSUME NEW i \in 1..(Len(s) - 1)
      PROVE  u[i] = s[i]
  <2>1. i \in 1..(n - 1 + 1) /\ 1 + i - 1 = i
    BY <1>1
  <2>2. u[i] = s[1 + i - 1]
    BY <1>3, <2>1
  <2> QED BY <2>1, <2>2
<1> QED BY <1>1, <1>3, <1>4, <1>5, LenProperties

LEMMA AppendIs ==
  ASSUME NEW S, NEW s \in Seq(S), NEW e \in S
  PROVE  /\ Append(s, e) \in Seq(S) /\ Len(Append(s, e)) = Len(s) + 1 /\ Len(s) \in Nat
         /\ DOMAIN Append(s, e) = 1..(Len(s) + 1) /\ Append(s, e) # <<>>
         /\ Append(s, e)[Len(s) + 1] = e
         /\ \A i \in 1..Len(s) : Append(s, e)[i] = s[i]
<1>1. /\ Append(s, e) \in Seq(S) /\ Len(Append(s, e)) = Len(s) + 1
      /\ \A i \in 1..Len(s) : Append(s, e)[i] = s[i]
      /\ Append(s, e)[Len(s) + 1] = e
  BY AppendProperties
<1> QED BY <1>1, LenProperties, EmptySeq

-----------------------------------------------------------------------------
(* Messages.                                                               *)

LEMMA PublishAdds ==
  ASSUME MessagingTypeOK, NEW e \in Events, Publish(e)
  PROVE  /\ MessagingTypeOK' /\ EventsOf(queue) \subseteq EventsOf(queue')
         /\ \A d \in Events : sends'[d] > 0 => sends[d] > 0 \/ d \in EventsOf(queue')
         /\ \A d \in Events : sends'[d] >= sends[d]
<1>1. /\ sends[e] \in Nat /\ sends[e] + 1 \in 1..MaxSends
      /\ MaxSends \in Nat /\ MaxRetries \in Nat
  BY MessagingAssumption DEF Publish, MessagingTypeOK
<1> DEFINE m == [event |-> e, copy |-> sends[e] + 1, retry_count |-> 0]
<1>2. m \in Message /\ m.event = e
  BY <1>1 DEF Message
<1> HIDE DEF m
<1>3. /\ Append(queue, m) \in Seq(Message)
      /\ EventsOf(Append(queue, m)) = EventsOf(queue) \cup {e}
  BY <1>2, EventsOfAppend DEF MessagingTypeOK
<1>4. /\ queue' = Append(queue, m) \/ (sends[e] > 0 /\ queue' = queue)
      /\ sends' = [sends EXCEPT ![e] = @ + 1]
      /\ UNCHANGED <<retries, dead, place, message>>
  BY DEF Publish, m
<1>5. /\ sends' \in [Events -> 0..MaxSends]
      /\ \A d \in Events : sends[d] \in Nat /\ sends'[d] = IF d = e THEN sends[e] + 1
                                                        ELSE sends[d]
  BY <1>1, <1>4 DEF MessagingTypeOK
<1>6. queue' \in Seq(Message) /\ EventsOf(queue) \subseteq EventsOf(queue')
      /\ (sends[e] > 0 \/ e \in EventsOf(queue'))
  BY <1>3, <1>4 DEF MessagingTypeOK
<1>7. MessagingTypeOK'
  BY <1>4, <1>5, <1>6 DEF MessagingTypeOK
<1> QED BY <1>1, <1>5, <1>6, <1>7

\* What a task takes, it handles.
LEMMA TakeMoves ==
  ASSUME MessagingTypeOK, NEW c \in Consumers, Take(c)
  PROVE  /\ MessagingTypeOK' /\ message'[c] \in Message /\ place[c] # "handling"
         /\ place' = [place EXCEPT ![c] = "handling"]
         /\ \A d \in Consumers \ {c} : message'[d] = message[d]
         /\ EventsOf(queue) \cup EventsOf(retries)
              \subseteq EventsOf(queue') \cup EventsOf(retries') \cup {message'[c].event}
         /\ UNCHANGED <<sends, dead>>
<1>1. CASE TakeRetry(c)
  <2>1. /\ Tail(retries) \in Seq(Message) /\ Head(retries) \in Message
        /\ EventsOf(retries) = {Head(retries).event} \cup EventsOf(Tail(retries))
    BY <1>1, EventsOfTail DEF TakeRetry, MessagingTypeOK
  <2> QED BY <1>1, <2>1 DEF TakeRetry, Handle, MessagingTypeOK
<1>2. CASE TakeNew(c)
  <2>1. /\ Tail(queue) \in Seq(Message) /\ Head(queue) \in Message
        /\ EventsOf(queue) = {Head(queue).event} \cup EventsOf(Tail(queue))
    BY <1>2, EventsOfTail DEF TakeNew, MessagingTypeOK
  <2> QED BY <1>2, <2>1 DEF TakeNew, Handle, MessagingTypeOK
<1> QED BY <1>1, <1>2 DEF Take

LEMMA RetryReturns ==
  ASSUME MessagingTypeOK, NEW c \in Consumers, message[c] \in Message, Retry(c)
  PROVE  /\ MessagingTypeOK' /\ Return(c) /\ UNCHANGED <<sends, queue>>
         /\ dead \subseteq dead' /\ EventsOf(retries) \subseteq EventsOf(retries')
         /\ message[c].event \in dead' \cup EventsOf(retries')
<1> DEFINE m == message[c]
           n == [m EXCEPT !.retry_count = @ + 1]
<1>1. m.event \in Events /\ m.retry_count \in 0..MaxRetries /\ MaxRetries \in Nat
  BY MessagingAssumption DEF Message
<1>2. CASE m.retry_count = MaxRetries
  BY <1>1, <1>2 DEF Retry, Return, MessagingTypeOK
<1>3. CASE m.retry_count # MaxRetries
  <2>1. n \in Message /\ n.event = m.event
    BY <1>1, <1>3 DEF Message
  <2>2. retries' = Append(retries, n) /\ dead' = dead
    BY <1>3 DEF Retry
  <2> HIDE DEF n
  <2>3. /\ Append(retries, n) \in Seq(Message)
        /\ EventsOf(Append(retries, n)) = EventsOf(retries) \cup {m.event}
    BY <2>1, EventsOfAppend DEF MessagingTypeOK
  <2> QED BY <2>2, <2>3 DEF Retry, Return, MessagingTypeOK
<1> QED BY <1>2, <1>3


-----------------------------------------------------------------------------
(* The invariant.                                                          *)

Frames ==
  [id : Copy \cup {[event |-> None, copy |-> 0]},
   at : {"parking", "evaluating", "reading", "waiters"}, waiters : SUBSET Copy]

Types ==
  /\ MessagingTypeOK
  /\ seen \subseteq Events /\ parked \subseteq Copy /\ old \subseteq Copy
  /\ handled \in [Events -> Nat]
  /\ stack \in [Tasks -> Seq(Frames)]

Handled(e) == e \in Events /\ handled[e] > 0

\* The event that id follows was evaluated, or id need not wait for it.
Due(id) ==
  follows[id.event] = None \/ Handled(follows[id.event]) \/ id \in old

Covered(e) == Handled(e) \/ \E p \in parked : p.event = e

Deep(t, i) == t = Sweeper /\ i > 1

\* What a call of reactive_evaluation knows of its event, and of the followers of it
\* that a sweep meets.
FrameFine(t, i, f) ==
  /\ f.at = "evaluating" => Due(f.id)
  /\ f.at \in {"reading", "waiters"} => f.id.event = None \/ Handled(f.id.event)
  /\ f.at # "waiters" => f.id.event # None /\ f.waiters = {}
  /\ Deep(t, i) => \A id \in f.waiters : Covered(id.event)

\* Only the innermost call has not evaluated its event.
StackFine(t) ==
  \A i \in DOMAIN stack[t] :
    /\ FrameFine(t, i, stack[t][i])
    /\ i < Len(stack[t]) => stack[t][i].at = "waiters"

\* A task handles a message for as long as it evaluates.
HandFine(c) ==
  /\ place[c] = "handling" => message[c] \in Message
  /\ stack[c] # <<>> => /\ place[c] = "handling" /\ service = "triggers"
                        /\ stack[c][1].id = IdOf(message[c])

Seen == \A e \in seen : Handled(e)

Inv ==
  /\ Types /\ Seen
  /\ \A t \in Tasks : StackFine(t)
  /\ \A c \in Consumers : HandFine(c)

LEMMA InvInit == Init => Inv
<1> SUFFICES ASSUME Init PROVE Inv
  OBVIOUS
<1>1. \A S : <<>> \in Seq(S)
  BY EmptySeq
<1>2. Len(<<>>) = 0 /\ DOMAIN <<>> = {}
  BY EmptySeq
<1>3. MessagingTypeOK
  BY <1>1, MessagingAssumption DEF Init, MessagingInit, MessagingTypeOK
<1>4. \A t \in Tasks : stack[t] = <<>>
  BY DEF Init
<1>5. Types
  BY <1>1, <1>3 DEF Init, Types
<1> QED BY <1>2, <1>4, <1>5 DEF Init, MessagingInit, Inv, Seen, StackFine, HandFine, Tasks

\* Nothing that a call knows becomes false while events are evaluated and grow old.
LEMMA FineStays ==
  ASSUME NEW t, NEW i, NEW f, FrameFine(t, i, f), follows' = follows,
         \A e : Handled(e) => Handled(e)',
         old \subseteq old', \A e : Deep(t, i) /\ Covered(e) => Covered(e)'
  PROVE  FrameFine(t, i, f)'
BY DEF FrameFine, Due, Deep


Grows(t) ==
  /\ follows' = follows /\ old \subseteq old'
  /\ \A e : Handled(e) => Handled(e)'
  /\ t = Sweeper => \A e : Covered(e) => Covered(e)'

LEMMA StackStays ==
  ASSUME NEW t, StackFine(t), Grows(t), stack'[t] = stack[t]
  PROVE  StackFine(t)'
<1> SUFFICES ASSUME NEW i, i \in DOMAIN stack[t]
             PROVE  /\ FrameFine(t, i, stack[t][i])'
                    /\ i < Len(stack[t]) => stack[t][i].at = "waiters"
  BY DEF StackFine
<1>1. PICK f : f = stack[t][i]
  OBVIOUS
<1>2. FrameFine(t, i, f) /\ (i < Len(stack[t]) => f.at = "waiters")
  BY <1>1 DEF StackFine
<1>3. FrameFine(t, i, f)'
  BY <1>2, FineStays DEF Grows, Deep
<1> QED BY <1>1, <1>2, <1>3

LEMMA StackEmpties ==
  ASSUME NEW t, stack'[t] = <<>>
  PROVE  StackFine(t)'
BY EmptySeq DEF StackFine

\* The outer calls are as they were.
LEMMA UnderFine ==
  ASSUME NEW t \in Tasks, StackFine(t), Grows(t), stack[t] \in Seq(Frames),
         stack[t] # <<>>, NEW n, n = Len(stack[t])
  PROVE  /\ n \in Nat \ {0} /\ Top(t) \in Frames /\ Top(t) = stack[t][n]
         /\ FrameFine(t, n, Top(t))
         /\ Under(t) \in Seq(Frames) /\ Len(Under(t)) = n - 1
         /\ DOMAIN Under(t) = 1..(n - 1)
         /\ \A i \in 1..(n - 1) : /\ Under(t)[i] = stack[t][i] /\ Under(t)[i].at = "waiters"
                                  /\ \A f : f = Under(t)[i] => FrameFine(t, i, f)'
<1>1. /\ n \in Nat \ {0} /\ Top(t) \in Frames /\ Top(t) = stack[t][n]
      /\ Under(t) \in Seq(Frames) /\ Len(Under(t)) = n - 1
      /\ DOMAIN Under(t) = 1..(n - 1) /\ DOMAIN stack[t] = 1..n
      /\ \A i \in 1..(n - 1) : Under(t)[i] = stack[t][i]
  BY UnderIs DEF Top, Under
<1>2. FrameFine(t, n, Top(t))
  BY <1>1 DEF StackFine
<1>3. ASSUME NEW i \in 1..(n - 1)
      PROVE  /\ Under(t)[i].at = "waiters"
             /\ \A f : f = Under(t)[i] => FrameFine(t, i, f)'
  <2>1. i \in DOMAIN stack[t] /\ i < n /\ Under(t)[i] = stack[t][i]
    BY <1>1
  <2>2. \A f : f = Under(t)[i] => FrameFine(t, i, f)
    BY <2>1 DEF StackFine
  <2>3. \A f : f = Under(t)[i] => FrameFine(t, i, f)'
    BY <2>2, FineStays DEF Grows, Deep
  <2> QED BY <2>1, <2>3 DEF StackFine
<1> QED BY <1>1, <1>2, <1>3

LEMMA FirstIsLower ==
  ASSUME NEW n \in Nat \ {0}, n # 1
  PROVE  1 \in 1..(n - 1) /\ 1 \in 1..n
OBVIOUS

LEMMA StackPops ==
  ASSUME NEW t \in Tasks, StackFine(t), Grows(t), stack[t] \in Seq(Frames),
         stack[t] # <<>>, stack'[t] = Under(t)
  PROVE  /\ StackFine(t)' /\ stack'[t] \in Seq(Frames)
         /\ stack'[t] # <<>> => stack'[t][1] = stack[t][1]
<1>1. PICK n : n = Len(stack[t])
  OBVIOUS
<1>2. StackFine(t)'
  BY <1>1, UnderFine DEF StackFine
<1>3. stack'[t] # <<>> => stack'[t][1] = stack[t][1]
  BY <1>1, UnderFine, EmptySeq
<1> QED BY <1>1, <1>2, <1>3, UnderFine

LEMMA TopChanges ==
  ASSUME NEW t \in Tasks, StackFine(t), Grows(t), stack[t] \in Seq(Frames),
         stack[t] # <<>>, NEW g \in Frames, stack'[t] = Append(Under(t), g),
         g.id = Top(t).id, NEW n, n = Len(stack[t]), FrameFine(t, n, g)'
  PROVE  /\ StackFine(t)' /\ stack'[t] \in Seq(Frames) /\ stack'[t] # <<>>
         /\ stack'[t][1].id = stack[t][1].id
<1> DEFINE u == Under(t)
           s == Append(u, g)
<1>0. n \in Nat \ {0}
  BY UnderFine
<1>1. /\ n \in Nat \ {0} /\ Len(u) = n - 1 /\ u \in Seq(Frames) /\ Top(t) = stack[t][n]
      /\ \A i \in 1..(n - 1) : /\ u[i] = stack[t][i] /\ u[i].at = "waiters"
                               /\ \A f : f = u[i] => FrameFine(t, i, f)'
  BY UnderFine
<1> HIDE DEF u
<1>2. /\ s \in Seq(Frames) /\ Len(s) = n /\ DOMAIN s = 1..n /\ s # <<>> /\ s[n] = g
      /\ \A i \in 1..(n - 1) : s[i] = u[i]
  BY <1>1, AppendIs
<1> HIDE DEF s
<1>3. stack'[t] = s
  BY DEF s, u
<1>4. ASSUME NEW i \in 1..n
      PROVE  /\ \A f : f = s[i] => FrameFine(t, i, f)'
             /\ i < n => s[i].at = "waiters"
  <2>1. CASE i = n
    BY <1>2, <2>1
  <2>2. CASE i # n
    <3>1. i \in 1..(n - 1)
      BY <1>1, <2>2
    <3> QED BY <1>1, <1>2, <3>1
  <2> QED BY <2>1, <2>2
<1>5. StackFine(t)'
  BY <1>2, <1>3, <1>4 DEF StackFine
<1>6. s[1].id = stack[t][1].id
  <2>1. CASE n = 1
    BY <1>1, <1>2, <2>1
  <2>2. CASE n # 1
    <3>1. 1 \in 1..(n - 1)
      BY <1>0, <2>2, FirstIsLower
    <3> QED BY <1>1, <1>2, <3>1
  <2> QED BY <2>1, <2>2
<1> QED BY <1>2, <1>3, <1>5, <1>6

LEMMA StackGrows ==
  ASSUME NEW t \in Tasks, StackFine(t), Grows(t), stack[t] \in Seq(Frames),
         stack[t] # <<>>, NEW g \in Frames, NEW h \in Frames,
         stack'[t] = Append(Append(Under(t), g), h),
         g.id = Top(t).id, g.at = "waiters", NEW n, n = Len(stack[t]),
         FrameFine(t, n, g)', FrameFine(t, n + 1, h)'
  PROVE  /\ StackFine(t)' /\ stack'[t] \in Seq(Frames) /\ stack'[t] # <<>>
         /\ stack'[t][1].id = stack[t][1].id
<1> DEFINE u == Under(t)
           v == Append(u, g)
           s == Append(v, h)
<1>0. n \in Nat \ {0}
  BY UnderFine
<1>1. /\ n \in Nat \ {0} /\ Len(u) = n - 1 /\ u \in Seq(Frames) /\ Top(t) = stack[t][n]
      /\ \A i \in 1..(n - 1) : /\ u[i] = stack[t][i] /\ u[i].at = "waiters"
                               /\ \A f : f = u[i] => FrameFine(t, i, f)'
  BY UnderFine
<1> HIDE DEF u
<1>2. /\ v \in Seq(Frames) /\ Len(v) = n /\ v[n] = g
      /\ \A i \in 1..(n - 1) : v[i] = u[i]
  BY <1>1, AppendIs
<1> HIDE DEF v
<1>3. /\ s \in Seq(Frames) /\ Len(s) = n + 1 /\ DOMAIN s = 1..(n + 1) /\ s # <<>>
      /\ s[n + 1] = h
      /\ \A i \in 1..n : s[i] = v[i]
  BY <1>1, <1>2, AppendIs
<1> HIDE DEF s
<1>4. stack'[t] = s
  BY DEF s, v, u
<1>5. ASSUME NEW i \in 1..(n + 1)
      PROVE  /\ \A f : f = s[i] => FrameFine(t, i, f)'
             /\ i < n + 1 => s[i].at = "waiters"
  <2>1. CASE i = n + 1
    BY <1>1, <1>3, <2>1
  <2>2. CASE i = n
    <3>1. s[n] = g
      BY <1>1, <1>2, <1>3
    <3> QED BY <2>2, <3>1
  <2>3. CASE i # n /\ i # n + 1
    <3>1. i \in 1..(n - 1) /\ i \in 1..n
      BY <1>1, <2>3
    <3>2. s[i] = u[i]
      BY <1>2, <1>3, <3>1
    <3> QED BY <1>1, <3>1, <3>2
  <2> QED BY <2>1, <2>2, <2>3
<1>6. StackFine(t)'
  BY <1>3, <1>4, <1>5 DEF StackFine
<1>7. s[1].id = stack[t][1].id
  <2>1. CASE n = 1
    BY <1>1, <1>2, <1>3, <2>1
  <2>2. CASE n # 1
    <3>1. 1 \in 1..(n - 1) /\ 1 \in 1..n
      BY <1>0, <2>2, FirstIsLower
    <3> QED BY <1>1, <1>2, <1>3, <3>1
  <2> QED BY <2>1, <2>2
<1> QED BY <1>3, <1>4, <1>6, <1>7


-----------------------------------------------------------------------------
(* Steps.                                                                  *)

LEMMA CopyIs ==
  ASSUME NEW id
  PROVE  /\ id \in Copy => id.event \in Events /\ id.event # None
         /\ id \in Copy \cup {[event |-> None, copy |-> 0]} /\ id.event # None => id \in Copy
BY MessagingAssumption DEF Copy

LEMMA MessageIs ==
  ASSUME NEW m, m \in Message
  PROVE  IdOf(m) \in Copy /\ IdOf(m).event = m.event /\ m.event \in Events
BY DEF Message, Copy, IdOf

\* What is parked is a follower of one that this server has not handled.
LEMMA EntryFine ==
  ASSUME Types, Seen, NEW id, id \in Copy
  PROVE  /\ Entry(id) \in Frames /\ Entry(id).id = id /\ Entry(id).waiters = {}
         /\ \A t, i, f : f = Entry(id) => FrameFine(t, i, f)
<1>1. /\ Entry(id) = Frame(id, "parking") \/ Entry(id) = Frame(id, "evaluating")
      /\ Entry(id) = Frame(id, "evaluating") => Due(id)
  <2>1. CASE follows[id.event] # None /\ follows[id.event] \notin seen /\ id \notin old
    BY <2>1 DEF Entry, Frame
  <2>2. CASE ~(follows[id.event] # None /\ follows[id.event] \notin seen /\ id \notin old)
    BY <2>2 DEF Entry, Due, Seen
  <2> QED BY <2>1, <2>2
<1>2. id.event # None
  BY CopyIs
<1>3. Entry(id) \in Frames /\ Entry(id).id = id /\ Entry(id).waiters = {}
  BY <1>1 DEF Frame, Frames
<1>4. \A f : f = Entry(id) => /\ f.at \in {"parking", "evaluating"}
                              /\ f.at = "evaluating" => Due(id)
  BY <1>1 DEF Frame
<1>5. \A f : f = Entry(id) => f.id = id /\ f.waiters = {}
  BY <1>3
<1> QED BY <1>2, <1>3, <1>4, <1>5 DEF FrameFine

LEMMA HandStays ==
  ASSUME NEW c, HandFine(c), place'[c] = place[c], message'[c] = message[c],
         service' = service,
         stack'[c] # <<>> => stack[c] # <<>> /\ stack'[c][1].id = stack[c][1].id
  PROVE  HandFine(c)'
BY DEF HandFine

\* The top of a stack, and what is known of it.
LEMMA TopIs ==
  ASSUME Inv, NEW t \in Tasks, stack[t] # <<>>, NEW n, n = Len(stack[t])
  PROVE  /\ Top(t) \in Frames /\ FrameFine(t, n, Top(t))
         /\ Top(t).at # "waiters" => Top(t).id \in Copy /\ Top(t).id.event \in Events
         /\ t # Sweeper => t \in Consumers /\ place[t] = "handling"
                           /\ message[t] \in Message /\ service = "triggers"
<1>1. stack[t] \in Seq(Frames) /\ StackFine(t)
  BY DEF Inv, Types
<1>2. Top(t) \in Frames /\ Top(t) = stack[t][n] /\ n \in DOMAIN stack[t]
  BY <1>1, UnderIs DEF Top
<1>3. FrameFine(t, n, Top(t))
  BY <1>1, <1>2 DEF StackFine
<1>4. Top(t).at # "waiters" => Top(t).id \in Copy /\ Top(t).id.event \in Events
  BY <1>2, <1>3, CopyIs DEF FrameFine, Frames
<1> QED BY <1>2, <1>3, <1>4 DEF Inv, HandFine, Tasks

LEMMA RaisedEnds ==
  ASSUME Inv, NEW t \in Tasks, stack[t] # <<>>, Raised(t), service' = service
  PROVE  /\ MessagingTypeOK' /\ stack' = [stack EXCEPT ![t] = <<>>]
         /\ \A c \in Consumers : HandFine(c)'
<1>1. stack' = [stack EXCEPT ![t] = <<>>] /\ stack \in [Tasks -> Seq(Frames)]
  BY DEF Raised, Inv, Types
<1>2. CASE t = Sweeper
  <2>1. UNCHANGED <<sends, queue, retries, dead, place, message>>
    BY <1>2 DEF Raised, messagingVars
  <2>2. MessagingTypeOK'
    BY <2>1 DEF Inv, Types, MessagingTypeOK
  <2>3. \A c \in Consumers : stack'[c] = stack[c]
    BY <1>1, <1>2, ServiceAssumption DEF Tasks, Sweeper
  <2> QED BY <1>1, <2>1, <2>2, <2>3, HandStays DEF Inv
<1>3. CASE t # Sweeper
  <2>1. t \in Consumers /\ message[t] \in Message /\ Retry(t)
    BY <1>3, TopIs DEF Raised
  <2>2. MessagingTypeOK' /\ Return(t)
    BY <2>1, RetryReturns DEF Inv, Types
  <2>3. HandFine(t)'
    BY <1>1, <2>1, <2>2 DEF Return, HandFine, Inv, Types, MessagingTypeOK
  <2>4. ASSUME NEW c \in Consumers \ {t}
        PROVE  HandFine(c)'
    <3>1. stack'[c] = stack[c] /\ place'[c] = place[c] /\ message'[c] = message[c]
      BY <1>1, <2>1, <2>2 DEF Return, Tasks, Inv, Types, MessagingTypeOK
    <3> QED BY <3>1, HandStays DEF Inv
  <2> QED BY <1>1, <2>2, <2>3, <2>4
<1> QED BY <1>2, <1>3


\* A step that leaves the calls alone, and no task that calls loses its message.
LEMMA StacksKept ==
  ASSUME Inv, UNCHANGED <<service, follows, stack, seen, handled, parked>>,
         MessagingTypeOK', old \subseteq old', old' \subseteq Copy,
         \A c \in Consumers : HandFine(c)'
  PROVE  Inv'
<1>1. Types' /\ Seen'
  BY DEF Inv, Types, Seen, Handled
<1>2. ASSUME NEW t, t \in Tasks
      PROVE  StackFine(t)'
  <2>1. Grows(t)
    BY DEF Grows, Covered, Handled
  <2> QED BY <1>2, <2>1, StackStays DEF Inv
<1> QED BY <1>1, <1>2 DEF Inv

LEMMA InvNext ==
  ASSUME Inv, [Next]_vars
  PROVE  Inv'
<1>t. MessagingTypeOK /\ Types /\ Seen
  BY DEF Inv, Types
<1>1. ASSUME NEW e \in Events, Emit(e)
      PROVE  Inv'
  <2>1. MessagingTypeOK' /\ UNCHANGED <<place, message>>
    BY <1>1, <1>t, PublishAdds DEF Emit, Publish
  <2>2. UNCHANGED <<service, follows, stack, seen, handled, parked, old>>
    BY <1>1 DEF Emit
  <2>3. \A c \in Consumers : HandFine(c)'
    BY <2>1, <2>2, HandStays DEF Inv
  <2> QED BY <1>t, <2>1, <2>2, <2>3, StacksKept DEF Types
<1>2. ASSUME NEW c \in Consumers, Idle(c)
      PROVE  Inv'
  <2>1. MessagingTypeOK' /\ UNCHANGED <<service, follows, stack, seen, handled, parked, old>>
    BY <1>2, <1>t DEF Idle, Block, serviceVars, MessagingTypeOK
  <2>2. \A d \in Consumers : HandFine(d)'
    BY <1>2, <1>t, <2>1 DEF Idle, Block, HandFine, Inv, MessagingTypeOK
  <2> QED BY <1>t, <2>1, <2>2, StacksKept DEF Types
<1>3. ASSUME NEW c \in Consumers, StartRecording(c)
      PROVE  Inv'
  <2>1. /\ UNCHANGED <<service, follows, stack, seen, handled, parked, old>>
        /\ Take(c) /\ service = "recorder"
    BY <1>3 DEF StartRecording, serviceVars
  <2>2. \A d \in Consumers : stack[d] = <<>>
    BY <2>1 DEF Inv, HandFine
  <2>3. \A d \in Consumers : HandFine(d)'
    BY <1>t, <2>1, <2>2, TakeMoves DEF HandFine, Inv, MessagingTypeOK
  <2> QED BY <1>t, <2>1, <2>3, TakeMoves, StacksKept DEF Types
<1>4. ASSUME NEW c \in Consumers, Record(c) \/ RecordFails(c) \/ EndEvaluation(c)
      PROVE  Inv'
  <2>1. /\ UNCHANGED <<service, follows, stack, seen, handled, parked, old>>
        /\ stack[c] = <<>> /\ place[c] = "handling" /\ (Ack(c) \/ Retry(c))
    BY <1>4 DEF Record, RecordFails, EndEvaluation, serviceVars, Inv, HandFine
  <2>2. MessagingTypeOK' /\ Return(c)
    <3>1. CASE Ack(c)
      BY <1>t, <3>1 DEF Ack, Return, MessagingTypeOK
    <3>2. CASE Retry(c)
      BY <1>t, <2>1, <3>2, RetryReturns DEF Inv, HandFine
    <3> QED BY <2>1, <3>1, <3>2
  <2>3. \A d \in Consumers : HandFine(d)'
    BY <1>t, <2>1, <2>2 DEF Return, HandFine, Inv, MessagingTypeOK
  <2> QED BY <1>t, <2>1, <2>2, <2>3, StacksKept DEF Types
<1>5. ASSUME NEW c \in Consumers, StartEvaluation(c)
      PROVE  Inv'
  <2>1. /\ UNCHANGED <<service, follows, seen, handled, parked, old>>
        /\ Take(c) /\ service = "triggers"
    BY <1>5 DEF StartEvaluation
  <2>2. PICK id : id = IdOf(message'[c])
    OBVIOUS
  <2>3. id \in Copy /\ MessagingTypeOK' /\ message'[c] \in Message
    BY <1>t, <2>1, <2>2, TakeMoves, MessageIs
  <2>4. PICK f : f = Entry(id)
    OBVIOUS
  <2>5. f \in Frames /\ f.id = id /\ FrameFine(c, 1, f)
    BY <1>t, <2>3, <2>4, EntryFine
  <2>6. Entry(id)' = Entry(id)
    BY <2>1 DEF Entry
  <2>7. stack' = [stack EXCEPT ![c] = <<>>] \/ stack' = [stack EXCEPT ![c] = <<f>>]
    BY <1>5, <2>2, <2>4 DEF StartEvaluation
  <2>8. /\ <<f>> \in Seq(Frames) /\ Len(<<f>>) = 1 /\ <<f>>[1] = f /\ DOMAIN <<f>> = 1..1
        /\ <<>> \in Seq(Frames)
    BY <2>5, EmptySeq
  <2>9. Types' /\ Seen'
    BY <1>t, <2>1, <2>3, <2>7, <2>8 DEF Types, Seen, Handled
  <2>10. ASSUME NEW t, t \in Tasks
         PROVE  StackFine(t)' /\ Grows(t)
    <3>1. Grows(t)
      BY <2>1 DEF Grows, Handled, Covered
    <3>2. CASE t # c
      BY <1>t, <2>7, <2>10, <3>1, <3>2, StackStays DEF Inv, Types
    <3>3. CASE t = c /\ stack'[c] = <<>>
      BY <3>1, <3>3, StackEmpties
    <3>4. CASE t = c /\ stack'[c] = <<f>>
      <4>1. FrameFine(c, 1, f)'
        BY <2>5, <3>1, <3>4, FineStays DEF Grows, Deep
      <4> QED BY <2>8, <3>1, <3>4, <4>1 DEF StackFine
    <3> QED BY <1>t, <2>7, <2>10, <3>1, <3>2, <3>3, <3>4 DEF Types
  <2>11. ASSUME NEW d \in Consumers
         PROVE  HandFine(d)'
    <3>1. CASE d = c
      BY <1>t, <2>1, <2>2, <2>3, <2>5, <2>7, <2>8, <3>1, TakeMoves
      DEF HandFine, Types, Tasks, MessagingTypeOK
    <3>2. CASE d # c
      <4>1. stack'[d] = stack[d] /\ place'[d] = place[d] /\ message'[d] = message[d]
        BY <1>t, <2>1, <2>7, <3>2, TakeMoves DEF Types, Tasks, MessagingTypeOK
      <4> QED BY <2>1, <4>1, HandStays DEF Inv
    <3> QED BY <3>1, <3>2
  <2> QED BY <2>9, <2>10, <2>11 DEF Inv
<1>6. ASSUME NEW t \in Tasks, At(t, "parking") \/ At(t, "evaluating") \/ At(t, "waiters"),
             Raised(t), UNCHANGED <<service, follows, old>>, Seen',
             parked' \subseteq Copy, handled' \in [Events -> Nat], seen' \subseteq Events,
             \A e : Handled(e) => Handled(e)', parked \subseteq parked'
      PROVE  Inv'
  <2>1. /\ MessagingTypeOK' /\ stack' = [stack EXCEPT ![t] = <<>>]
        /\ \A c \in Consumers : HandFine(c)'
    BY <1>6, RaisedEnds DEF At
  <2>2. Types'
    BY <1>t, <1>6, <2>1, EmptySeq DEF Types
  <2>3. ASSUME NEW u, u \in Tasks
        PROVE  StackFine(u)'
    <3>1. Grows(u)
      BY <1>6 DEF Grows, Covered
    <3>2. CASE u = t
      BY <1>t, <2>1, <3>2, StackEmpties DEF Types
    <3>3. CASE u # t
      BY <1>t, <2>1, <2>3, <3>1, <3>3, StackStays DEF Inv, Types
    <3> QED BY <3>2, <3>3
  <2> QED BY <1>6, <2>1, <2>2, <2>3 DEF Inv
<1>7. ASSUME NEW c \in Consumers, Park(c)
      PROVE  Inv'
  <2>1. /\ UNCHANGED <<service, follows, seen, handled, old>> /\ At(c, "parking")
        /\ c \in Tasks
    BY <1>7 DEF Park, Tasks
  <2>2. CASE Raised(c) /\ UNCHANGED parked
    BY <1>t, <1>6, <2>1, <2>2 DEF Types, Seen, Handled
  <2>3. CASE /\ parked' = parked \cup {Top(c).id}
             /\ stack' = [stack EXCEPT ![c] = <<>>]
             /\ UNCHANGED <<messagingVars, lost>>
    <3>1. Top(c).id \in Copy
      BY <2>1, TopIs DEF At
    <3>2. UNCHANGED <<sends, queue, retries, dead, place, message>>
      BY <2>3 DEF messagingVars
    <3>3. Types' /\ Seen'
      BY <1>t, <2>1, <2>3, <3>1, <3>2, EmptySeq
      DEF Types, Seen, Handled, MessagingTypeOK
    <3>4. ASSUME NEW t, t \in Tasks
          PROVE  StackFine(t)'
      <4>1. Grows(t)
        BY <2>1, <2>3 DEF Grows, Covered, Handled
      <4>2. CASE t = c
        BY <1>t, <2>3, <3>4, <4>2, StackEmpties DEF Types
      <4>3. CASE t # c
        BY <1>t, <2>3, <3>4, <4>1, <4>3, StackStays DEF Inv, Types
      <4> QED BY <4>2, <4>3
    <3>5. ASSUME NEW d \in Consumers
          PROVE  HandFine(d)'
      <4>1. stack'[d] = stack[d] \/ stack'[d] = <<>>
        BY <1>t, <2>3 DEF Types, Tasks
      <4> QED BY <2>1, <3>2, <4>1, HandStays DEF Inv
    <3> QED BY <3>3, <3>4, <3>5 DEF Inv
  <2> QED BY <1>7, <2>2, <2>3 DEF Park
<1>8. ASSUME NEW t \in Tasks, stack[t] # <<>>, NEW s, stack' = [stack EXCEPT ![t] = s],
             UNCHANGED <<messagingVars, service, follows, old>>,
             StackFine(t)', s \in Seq(Frames), s # <<>> => s[1].id = stack[t][1].id,
             \A u \in Tasks \ {t} : Grows(u),
             Seen', parked' \subseteq Copy, handled' \in [Events -> Nat], seen' \subseteq Events
      PROVE  Inv'
  <2>1. UNCHANGED <<sends, queue, retries, dead, place, message>>
    BY <1>8 DEF messagingVars
  <2>2. Types'
    BY <1>t, <1>8, <2>1 DEF Types, MessagingTypeOK
  <2>3. ASSUME NEW u, u \in Tasks \ {t}
        PROVE  StackFine(u)'
    BY <1>t, <1>8, <2>3, StackStays DEF Inv, Types
  <2>4. ASSUME NEW c \in Consumers
        PROVE  HandFine(c)'
    <3>1. c \in Tasks /\ (c # t => stack'[c] = stack[c]) /\ stack'[t] = s
      BY <1>t, <1>8 DEF Types, Tasks
    <3> QED BY <1>8, <2>1, <3>1, HandStays DEF Inv
  <2> QED BY <1>8, <2>2, <2>3, <2>4 DEF Inv
<1>9. ASSUME NEW t \in Tasks, Evaluate(t)
      PROVE  Inv'
  <2>1. PICK n, e, g : /\ n = Len(stack[t]) /\ e = Top(t).id.event
                       /\ g = Frame(Top(t).id, "reading")
    OBVIOUS
  <2>2. /\ stack[t] # <<>> /\ Top(t).at = "evaluating"
        /\ handled' = [handled EXCEPT ![e] = @ + 1] /\ seen' = seen \cup {e}
        /\ stack' = [stack EXCEPT ![t] = Append(Under(t), g)]
        /\ UNCHANGED <<messagingVars, service, follows, old, parked>>
    BY <1>9, <2>1 DEF Evaluate, At
  <2>3. Top(t).id \in Copy /\ e \in Events
    BY <2>1, <2>2, TopIs
  <2>4. g \in Frames /\ g.id = Top(t).id /\ g.id.event = e /\ g.at = "reading" /\ g.waiters = {}
    BY <2>1, <2>3 DEF Frame, Frames
  <2>5. handled' \in [Events -> Nat] /\ (\A d : Handled(d) => Handled(d)') /\ Handled(e)'
    BY <1>t, <2>2, <2>3 DEF Types, Handled
  <2>6. \A u : Grows(u)
    BY <2>2, <2>5 DEF Grows, Covered
  <2>7. Seen' /\ seen' \subseteq Events /\ parked' \subseteq Copy
    BY <1>t, <2>2, <2>3, <2>5 DEF Types, Seen
  <2>8. FrameFine(t, n, g)'
    <3>1. g.id.event # None /\ (\A x : x = g.id.event => Handled(x)')
      BY <2>3, <2>4, <2>5, MessagingAssumption
    <3> QED BY <2>4, <3>1 DEF FrameFine
  <2>9. stack'[t] = Append(Under(t), g) /\ stack[t] \in Seq(Frames) /\ StackFine(t)
    BY <1>t, <2>2 DEF Inv, Types
  <2>10. /\ StackFine(t)' /\ stack'[t] \in Seq(Frames) /\ stack'[t] # <<>>
         /\ stack'[t][1].id = stack[t][1].id
    BY <2>1, <2>2, <2>4, <2>6, <2>8, <2>9, TopChanges
  <2> QED BY <1>8, <2>2, <2>5, <2>6, <2>7, <2>9, <2>10
<1>10. ASSUME NEW t \in Tasks, EvaluationFails(t)
       PROVE  Inv'
  <2>1. /\ At(t, "evaluating") /\ Raised(t)
        /\ UNCHANGED <<service, follows, old, seen, parked>>
        /\ handled' = handled \/ handled' = [handled EXCEPT ![Top(t).id.event] = @ + 1]
    BY <1>10 DEF EvaluationFails
  <2>2. Top(t).id.event \in Events
    BY <2>1, TopIs DEF At
  <2>3. handled' \in [Events -> Nat] /\ \A e : Handled(e) => Handled(e)'
    <3>1. CASE handled' = handled
      BY <1>t, <3>1 DEF Types, Handled
    <3>2. CASE handled' = [handled EXCEPT ![Top(t).id.event] = @ + 1]
      BY <1>t, <2>2, <3>2 DEF Types, Handled
    <3> QED BY <2>1, <3>1, <3>2
  <2>4. Seen' /\ seen' \subseteq Events /\ parked' \subseteq Copy /\ parked \subseteq parked'
    BY <1>t, <2>1, <2>3 DEF Types, Seen
  <2> QED BY <1>6, <2>1, <2>3, <2>4
<1>11. ASSUME NEW t \in Tasks, ReadFollowers(t)
       PROVE  Inv'
  <2>1. PICK n, g : /\ n = Len(stack[t])
                    /\ g = [Frame(Top(t).id, "waiters") EXCEPT !.waiters =
                              {p \in parked : follows[p.event] = Top(t).id.event}]
    OBVIOUS
  <2>2. /\ stack[t] # <<>> /\ Top(t).at = "reading"
        /\ stack' = [stack EXCEPT ![t] = Append(Under(t), g)]
        /\ UNCHANGED <<messagingVars, service, follows, old, parked, handled, seen>>
    BY <1>11, <2>1 DEF ReadFollowers, At
  <2>3. Top(t).id \in Copy /\ FrameFine(t, n, Top(t))
    BY <2>1, <2>2, TopIs
  <2>4. g \in Frames /\ g.id = Top(t).id /\ g.at = "waiters" /\ g.waiters \subseteq parked
    BY <1>t, <2>1, <2>3 DEF Frame, Frames, Types
  <2>5. \A u : Grows(u)
    BY <2>2 DEF Grows, Covered, Handled
  <2>6. Seen' /\ seen' \subseteq Events /\ parked' \subseteq Copy /\ handled' \in [Events -> Nat]
    BY <1>t, <2>2 DEF Types, Seen, Handled
  <2>7. FrameFine(t, n, g)
    BY <2>2, <2>3, <2>4 DEF FrameFine, Covered
  <2>8. FrameFine(t, n, g)'
    BY <2>5, <2>7, FineStays DEF Grows, Deep
  <2>9. stack'[t] = Append(Under(t), g) /\ stack[t] \in Seq(Frames) /\ StackFine(t)
    BY <1>t, <2>2 DEF Inv, Types
  <2>10. /\ StackFine(t)' /\ stack'[t] \in Seq(Frames) /\ stack'[t] # <<>>
         /\ stack'[t][1].id = stack[t][1].id
    BY <2>1, <2>2, <2>4, <2>5, <2>8, <2>9, TopChanges
  <2> QED BY <1>8, <2>2, <2>5, <2>6, <2>9, <2>10
<1>12. ASSUME NEW t \in Tasks, NextWaiter(t)
       PROVE  Inv'
  <2>1. PICK id \in Top(t).waiters :
          IF Depth(t) > MaxDepth
            THEN Raised(t)
            ELSE /\ stack' = [stack EXCEPT ![t] =
                      Append(Append(Under(t), [Top(t) EXCEPT !.waiters = @ \ {id}]),
                             Entry(id))]
                 /\ UNCHANGED <<messagingVars, lost>>
    BY <1>12 DEF NextWaiter
  <2>2. PICK n, g, h : /\ n = Len(stack[t])
                       /\ g = [Top(t) EXCEPT !.waiters = @ \ {id}] /\ h = Entry(id)
    OBVIOUS
  <2>3. /\ stack[t] # <<>> /\ At(t, "waiters") /\ Top(t).at = "waiters"
        /\ UNCHANGED <<service, follows, old, parked, handled, seen>>
    BY <1>12 DEF NextWaiter, At
  <2>4. Top(t) \in Frames /\ FrameFine(t, n, Top(t))
    BY <2>2, <2>3, TopIs
  <2>5. id \in Copy
    BY <2>4 DEF Frames
  <2>6. \A u : Grows(u)
    BY <2>3 DEF Grows, Covered, Handled
  <2>7. /\ Seen' /\ seen' \subseteq Events /\ parked' \subseteq Copy /\ parked \subseteq parked'
        /\ handled' \in [Events -> Nat] /\ \A e : Handled(e) => Handled(e)'
    BY <1>t, <2>3 DEF Types, Seen, Handled
  <2>8. CASE Raised(t)
    BY <1>6, <2>3, <2>7, <2>8
  <2>9. CASE /\ stack' = [stack EXCEPT ![t] = Append(Append(Under(t), g), h)]
             /\ UNCHANGED <<messagingVars, lost>>
    <3>1. /\ g \in Frames /\ g.id = Top(t).id /\ g.at = "waiters"
          /\ g.waiters \subseteq Top(t).waiters
      BY <2>2, <2>3, <2>4 DEF Frames
    <3>2. FrameFine(t, n, g)
      BY <2>3, <2>4, <3>1 DEF FrameFine
    <3>3. h \in Frames /\ FrameFine(t, n + 1, h)
      BY <1>t, <2>2, <2>5, EntryFine
    <3>4. FrameFine(t, n, g)' /\ FrameFine(t, n + 1, h)'
      BY <2>6, <3>2, <3>3, FineStays DEF Grows, Deep
    <3>5. /\ stack'[t] = Append(Append(Under(t), g), h) /\ stack[t] \in Seq(Frames)
          /\ StackFine(t)
      BY <1>t, <2>9 DEF Inv, Types
    <3>6. /\ StackFine(t)' /\ stack'[t] \in Seq(Frames) /\ stack'[t] # <<>>
          /\ stack'[t][1].id = stack[t][1].id
      BY <2>2, <2>3, <2>6, <3>1, <3>3, <3>4, <3>5, StackGrows
    <3> QED BY <1>8, <2>3, <2>6, <2>7, <2>9, <3>5, <3>6
  <2> QED BY <2>1, <2>2, <2>8, <2>9
<1>13. ASSUME NEW t \in Tasks, FinishFrame(t)
       PROVE  Inv'
  <2>1. PICK n : n = Len(stack[t])
    OBVIOUS
  <2>2. /\ stack[t] # <<>> /\ Top(t).at = "waiters"
        /\ parked' = {p \in parked : p.event # Top(t).id.event}
        /\ stack' = [stack EXCEPT ![t] = Under(t)]
        /\ UNCHANGED <<messagingVars, service, follows, old, handled, seen>>
    BY <1>13 DEF FinishFrame, At
  <2>3. FrameFine(t, n, Top(t))
    BY <2>1, <2>2, TopIs
  <2>4. Top(t).id.event = None \/ Handled(Top(t).id.event)
    BY <2>2, <2>3 DEF FrameFine
  <2>5. \A p \in parked : p.event # None
    BY <1>t, CopyIs DEF Types
  <2>6. \A u : Grows(u)
    BY <2>2, <2>4, <2>5 DEF Grows, Covered, Handled
  <2>7. Seen' /\ seen' \subseteq Events /\ parked' \subseteq Copy /\ handled' \in [Events -> Nat]
    BY <1>t, <2>2 DEF Types, Seen, Handled
  <2>8. stack'[t] = Under(t) /\ stack[t] \in Seq(Frames) /\ StackFine(t)
    BY <1>t, <2>2 DEF Inv, Types
  <2>9. /\ StackFine(t)' /\ stack'[t] \in Seq(Frames)
        /\ stack'[t] # <<>> => stack'[t][1] = stack[t][1]
    BY <2>2, <2>6, <2>8, StackPops
  <2> QED BY <1>8, <2>2, <2>6, <2>7, <2>8, <2>9
<1>14. CASE Sweep
  <2>1. PICK f : f = [Frame([event |-> None, copy |-> 0], "waiters")
                        EXCEPT !.waiters = parked \cap old]
    OBVIOUS
  <2>2. /\ stack[Sweeper] = <<>> /\ parked' = parked \ old
        /\ stack' = [stack EXCEPT ![Sweeper] = <<f>>]
        /\ UNCHANGED <<messagingVars, service, follows, seen, handled, old>>
    BY <1>14, <2>1 DEF Sweep
  <2>3. /\ f \in Frames /\ f.at = "waiters" /\ f.id.event = None
        /\ f.waiters \subseteq Copy
    BY <1>t, <2>1 DEF Frame, Frames, Types
  <2>4. /\ <<f>> \in Seq(Frames) /\ Len(<<f>>) = 1 /\ <<f>>[1] = f /\ DOMAIN <<f>> = 1..1
    BY <2>3
  <2>5. UNCHANGED <<sends, queue, retries, dead, place, message>>
    BY <2>2 DEF messagingVars
  <2>6. Types' /\ Seen'
    BY <1>t, <2>2, <2>4, <2>5 DEF Types, Seen, Handled, MessagingTypeOK
  <2>7. Sweeper \in Tasks /\ stack'[Sweeper] = <<f>>
    BY <1>t, <2>2 DEF Types, Tasks
  <2>8. StackFine(Sweeper)'
    BY <2>3, <2>4, <2>7 DEF StackFine, FrameFine, Deep
  <2>9. ASSUME NEW t, t \in Tasks \ {Sweeper}
        PROVE  StackFine(t)' /\ stack'[t] = stack[t]
    <3>1. Grows(t)
      BY <2>2, <2>9 DEF Grows, Handled
    <3>2. stack'[t] = stack[t]
      BY <1>t, <2>2, <2>9 DEF Types
    <3> QED BY <2>9, <3>1, <3>2, StackStays DEF Inv
  <2>10. \A c \in Consumers : c \in Tasks \ {Sweeper}
    BY ServiceAssumption DEF Tasks, Sweeper
  <2>11. \A c \in Consumers : HandFine(c)'
    BY <2>2, <2>5, <2>9, <2>10, HandStays DEF Inv
  <2> QED BY <2>6, <2>8, <2>9, <2>11 DEF Inv
<1>15. ASSUME NEW id \in Copy, GrowOld(id)
       PROVE  Inv'
  <2>1. /\ UNCHANGED <<sends, queue, retries, dead, place, message>>
        /\ UNCHANGED <<service, follows, stack, seen, handled, parked>>
        /\ old' = old \cup {id}
    BY <1>15 DEF GrowOld, messagingVars
  <2>2. MessagingTypeOK' /\ \A c \in Consumers : HandFine(c)'
    BY <1>t, <2>1, HandStays DEF Inv, MessagingTypeOK
  <2> QED BY <1>t, <2>1, <2>2, StacksKept DEF Types
<1>16. CASE Restart
  <2>1. /\ RestartMessaging /\ seen' = {} /\ stack' = [t \in Tasks |-> <<>>]
        /\ UNCHANGED <<service, follows, parked, old, handled>>
    BY <1>16 DEF Restart
  <2>2. MessagingTypeOK'
    BY <1>t, <2>1, EmptySeq DEF RestartMessaging, MessagingTypeOK
  <2>3. Types' /\ Seen'
    BY <1>t, <2>1, <2>2, EmptySeq DEF Types, Seen
  <2>4. \A t \in Tasks : StackFine(t)'
    BY <2>1, StackEmpties
  <2>5. \A c \in Consumers : HandFine(c)'
    BY <2>1 DEF RestartMessaging, HandFine, Tasks
  <2> QED BY <2>3, <2>4, <2>5 DEF Inv
<1>17. CASE UNCHANGED vars
  <2>1. /\ UNCHANGED <<sends, queue, retries, dead, place, message>>
        /\ UNCHANGED <<service, follows, stack, seen, handled, parked, old>>
    BY <1>17 DEF vars
  <2>2. MessagingTypeOK' /\ \A c \in Consumers : HandFine(c)'
    BY <1>t, <2>1, HandStays DEF Inv, MessagingTypeOK
  <2> QED BY <1>t, <2>1, <2>2, StacksKept DEF Types
<1>18. Sweeper \in Tasks /\ Consumers \subseteq Tasks
  BY DEF Tasks
<1> QED BY <1>1, <1>2, <1>3, <1>4, <1>5, <1>7, <1>9, <1>10, <1>11, <1>12, <1>13, <1>14, <1>15,
           <1>16, <1>17, <1>18 DEF Next, ConsumerStep, CallStep

\* No event is evaluated before the event it follows, unless it is too old to wait.
THEOREM EventsInOrder == Spec => CausallyOrdered
<1>1. Inv /\ [Next]_vars =>
        [\A e \in Events :
           handled'[e] > handled[e] /\ follows[e] # None =>
             \/ handled[follows[e]] > 0
             \/ \E t \in Tasks : /\ At(t, "evaluating") /\ Top(t).id.event = e
                                 /\ Top(t).id \in old]_vars
  <2> SUFFICES ASSUME Inv, [Next]_vars, NEW e \in Events,
                      handled'[e] > handled[e], follows[e] # None
               PROVE  \/ handled[follows[e]] > 0
                      \/ \E t \in Tasks : /\ At(t, "evaluating") /\ Top(t).id.event = e
                                          /\ Top(t).id \in old
    OBVIOUS
  <2>1. handled \in [Events -> Nat] /\ handled' # handled
    BY DEF Inv, Types
  <2>2. PICK t \in Tasks : Evaluate(t) \/ EvaluationFails(t)
    BY <2>1 DEF Next, vars, ConsumerStep, CallStep, Tasks, Emit, Idle, serviceVars,
            StartRecording, Record, RecordFails, StartEvaluation, EndEvaluation, Park,
            ReadFollowers, NextWaiter, FinishFrame, Sweep, GrowOld, Restart
  <2>3. At(t, "evaluating") /\ handled' = [handled EXCEPT ![Top(t).id.event] = @ + 1]
    BY <2>1, <2>2 DEF Evaluate, EvaluationFails
  <2>4. Top(t).id.event = e
    BY <2>1, <2>3
  <2>5. \A n : n = Len(stack[t]) => FrameFine(t, n, Top(t))
    BY <2>3, TopIs DEF At
  <2>6. Due(Top(t).id)
    BY <2>3, <2>5 DEF At, FrameFine
  <2> QED BY <2>3, <2>4, <2>6 DEF Due, Handled
<1> QED BY <1>1, InvInit, InvNext, PTL DEF Spec, CausallyOrdered


-----------------------------------------------------------------------------
(* No event is forgotten.                                                  *)

EventsIn(f) == {f.id.event} \cup {id.event : id \in f.waiters}
Waited(s) == UNION {EventsIn(s[i]) : i \in DOMAIN s}

LEMMA InSweepIs == InSweep = Waited(stack[Sweeper]) \ {None}
BY DEF InSweep, Waited, EventsIn

LEMMA InSweepWillBe == InSweep' = Waited(stack'[Sweeper]) \ {None}
BY DEF InSweep, Waited, EventsIn

\* An event that is in no queue and no hand.
Settled(e) ==
  e \in states \cup dead \cup lost \cup InSweep \/ Covered(e)

EventsKept ==
  \A e \in Events : sends[e] > 0 => Settled(e) \/ e \in InQueues \cup InHands

\* A task that has nothing left to do may acknowledge its message.
HandsKept ==
  \A c \in Consumers :
    place[c] = "handling" /\ service = "triggers" /\ stack[c] = <<>>
      => Settled(message[c].event)

Kept == EventsKept /\ HandsKept

LEMMA WaitedAppend ==
  ASSUME NEW s, s \in Seq(Frames), NEW f, f \in Frames
  PROVE  Waited(Append(s, f)) = Waited(s) \cup EventsIn(f)
<1>1. /\ DOMAIN Append(s, f) = 1..(Len(s) + 1) /\ Append(s, f)[Len(s) + 1] = f
      /\ \A i \in 1..Len(s) : Append(s, f)[i] = s[i]
      /\ Len(s) \in Nat /\ DOMAIN s = 1..Len(s)
  BY AppendIs, LenProperties
<1>2. \A i \in 1..(Len(s) + 1) : i \in 1..Len(s) \/ i = Len(s) + 1
  BY <1>1
<1>3. Len(s) + 1 \in 1..(Len(s) + 1) /\ 1..Len(s) \subseteq 1..(Len(s) + 1)
  BY <1>1
<1>4. ASSUME NEW x
      PROVE  (\E i \in DOMAIN Append(s, f) : x \in EventsIn(Append(s, f)[i]))
               <=> (\E i \in DOMAIN s : x \in EventsIn(s[i])) \/ x \in EventsIn(f)
  BY <1>1, <1>2, <1>3
<1> QED BY <1>4 DEF Waited

LEMMA WaitedTop ==
  ASSUME NEW t \in Tasks, stack[t] \in Seq(Frames), stack[t] # <<>>
  PROVE  Waited(stack[t]) = Waited(Under(t)) \cup EventsIn(Top(t))
<1>1. PICK n, s, u : n = Len(s) /\ s = stack[t] /\ u = Under(t)
  OBVIOUS
<1>2. /\ n \in Nat \ {0} /\ DOMAIN u = 1..(n - 1) /\ DOMAIN s = 1..n
      /\ \A i \in 1..(n - 1) : u[i] = s[i]
      /\ Top(t) = s[n]
  BY <1>1, UnderIs DEF Under, Top
<1>3. /\ \A i \in 1..n : i \in 1..(n - 1) \/ i = n
      /\ n \in 1..n /\ 1..(n - 1) \subseteq 1..n
  BY <1>2
<1>4. ASSUME NEW x
      PROVE  (\E i \in DOMAIN s : x \in EventsIn(s[i]))
               <=> (\E i \in DOMAIN u : x \in EventsIn(u[i])) \/ x \in EventsIn(Top(t))
  BY <1>2, <1>3
<1> QED BY <1>1, <1>4 DEF Waited

LEMMA KeptInit == Init => Kept
<1> SUFFICES ASSUME Init PROVE Kept
  OBVIOUS
<1>1. \A e \in Events : ~(sends[e] > 0)
  BY DEF Init, MessagingInit
<1>2. \A c \in Consumers : place[c] # "handling"
  BY DEF Init, MessagingInit
<1> QED BY <1>1, <1>2 DEF Kept, EventsKept, HandsKept

\* What a sweep that fails leaves behind was evaluated, is parked or is lost.
LEMMA RaisedCovers ==
  ASSUME Inv, stack[Sweeper] # <<>>, Raised(Sweeper)
  PROVE  \A e \in InSweep : Covered(e) \/ e \in lost'
<1>1. PICK n : n = Len(stack[Sweeper])
  OBVIOUS
<1>2. Sweeper \in Tasks /\ stack[Sweeper] \in Seq(Frames) /\ StackFine(Sweeper)
  BY DEF Inv, Types, Tasks
<1>3. /\ DOMAIN stack[Sweeper] = 1..n /\ n \in Nat \ {0} /\ Top(Sweeper) = stack[Sweeper][n]
  BY <1>1, <1>2, UnderIs DEF Top
<1>4. lost' = lost \cup {Top(Sweeper).id.event}
                \cup {id.event : id \in stack[Sweeper][1].waiters}
  BY DEF Raised
<1> SUFFICES ASSUME NEW i \in 1..n, NEW e, e \in EventsIn(stack[Sweeper][i]), e # None
             PROVE  Covered(e) \/ e \in lost'
  BY <1>3, InSweepIs DEF Waited
<1>5. PICK f : f = stack[Sweeper][i]
  OBVIOUS
<1>6. FrameFine(Sweeper, i, f) /\ (i < n => f.at = "waiters")
  BY <1>1, <1>2, <1>3, <1>5 DEF StackFine
<1>7. CASE e = f.id.event
  <2>1. CASE i = n
    BY <1>3, <1>4, <1>5, <1>7, <2>1
  <2>2. CASE i # n
    <3>1. f.at = "waiters"
      BY <1>3, <1>6, <2>2
    <3> QED BY <1>6, <1>7, <3>1 DEF FrameFine, Covered
  <2> QED BY <2>1, <2>2
<1>8. CASE \E id \in f.waiters : e = id.event
  <2>1. CASE i = 1
    BY <1>4, <1>5, <1>8, <2>1
  <2>2. CASE i # 1
    <3>1. Deep(Sweeper, i)
      BY <1>3, <2>2 DEF Deep
    <3> QED BY <1>6, <1>8, <3>1 DEF FrameFine
  <2> QED BY <2>1, <2>2
<1> QED BY <1>5, <1>7, <1>8 DEF EventsIn


\* Once settled, an event stays so.
LEMMA SettledStays ==
  ASSUME Inv, [Next]_vars, NEW e \in Events, Settled(e)
  PROVE  Settled(e)'
<1>t. /\ Types /\ Inv' /\ Sweeper \in Tasks /\ e # None
      /\ \A t \in Tasks : stack[t] \in Seq(Frames)
  BY InvNext, MessagingAssumption DEF Inv, Types, Tasks
<1>1. \A d : Handled(d) => Handled(d)'
  <2>1. CASE handled' = handled
    BY <2>1 DEF Handled
  <2>2. CASE handled' # handled
    <3>1. PICK t \in Tasks : Evaluate(t) \/ EvaluationFails(t)
      BY <2>2 DEF Next, vars, ConsumerStep, CallStep, Tasks, Emit, Idle, serviceVars,
              StartRecording, Record, RecordFails, StartEvaluation, EndEvaluation, Park,
              ReadFollowers, NextWaiter, FinishFrame, Sweep, GrowOld, Restart
    <3>2. /\ Top(t).id.event \in Events
          /\ handled' = [handled EXCEPT ![Top(t).id.event] = @ + 1]
      BY <2>2, <3>1, TopIs DEF Evaluate, EvaluationFails, At
    <3> QED BY <1>t, <3>2 DEF Handled, Types
  <2> QED BY <2>1, <2>2
<1>2. states \subseteq states'
  BY DEF Next, vars, ConsumerStep, CallStep, Tasks, Emit, Idle, serviceVars,
         StartRecording, Record, RecordFails, StartEvaluation, EndEvaluation, Park,
         Evaluate, EvaluationFails, ReadFollowers, NextWaiter, FinishFrame, Sweep, GrowOld,
         Restart
<1>3. dead \subseteq dead' /\ lost \subseteq lost'
  <2>1. ASSUME NEW t, Raised(t)
        PROVE  dead \subseteq dead' /\ lost \subseteq lost'
    BY <2>1 DEF Raised, Retry, messagingVars
  <2>2. ASSUME NEW c, Emit(c) \/ Idle(c) \/ StartRecording(c) \/ Record(c) \/ RecordFails(c)
        PROVE  dead \subseteq dead' /\ lost \subseteq lost'
    BY <2>2 DEF Emit, Publish, Idle, Block, serviceVars, StartRecording, Take, TakeRetry,
                TakeNew, Record, RecordFails, Ack, Retry
  <2>3. ASSUME NEW c, StartEvaluation(c) \/ EndEvaluation(c) \/ Park(c)
        PROVE  dead \subseteq dead' /\ lost \subseteq lost'
    BY <2>1, <2>3 DEF StartEvaluation, EndEvaluation, Park, Take, TakeRetry, TakeNew, Ack,
                      serviceVars, messagingVars
  <2>4. ASSUME NEW t, CallStep(t) \/ EvaluationFails(t) \/ Sweep \/ GrowOld(t)
        PROVE  dead \subseteq dead' /\ lost \subseteq lost'
    BY <2>1, <2>4 DEF CallStep, Evaluate, EvaluationFails, ReadFollowers, NextWaiter,
                      FinishFrame, Sweep, GrowOld, messagingVars
  <2>5. CASE Restart
    BY <2>5 DEF Restart, RestartMessaging
  <2>6. CASE UNCHANGED vars
    BY <2>6 DEF vars
  <2> QED BY <2>2, <2>3, <2>4, <2>5, <2>6 DEF Next, ConsumerStep
<1>4. CASE e \in states \cup dead \cup lost \/ Handled(e)
  BY <1>1, <1>2, <1>3, <1>4 DEF Settled, Covered
<1>5. ASSUME parked \subseteq parked', stack'[Sweeper] = stack[Sweeper]
      PROVE  Settled(e)'
  <2>1. InSweep' = InSweep
    BY <1>5 DEF InSweep
  <2>2. Covered(e) => Covered(e)'
    BY <1>1, <1>5 DEF Covered
  <2> QED BY <1>2, <1>3, <2>1, <2>2 DEF Settled
<1>6. ASSUME parked' = parked, Waited(stack[Sweeper]) \subseteq Waited(stack'[Sweeper])
      PROVE  Settled(e)'
  <2>1. InSweep \subseteq InSweep'
    BY <1>6, InSweepIs, InSweepWillBe
  <2>2. Covered(e) => Covered(e)'
    BY <1>1, <1>6 DEF Covered
  <2> QED BY <1>2, <1>3, <2>1, <2>2 DEF Settled
<1>7. ASSUME NEW c, \/ Emit(c) \/ Idle(c) \/ StartRecording(c) \/ Record(c) \/ RecordFails(c)
                    \/ EndEvaluation(c) \/ GrowOld(c)
      PROVE  Settled(e)'
  <2>1. parked' = parked /\ stack' = stack
    BY <1>7 DEF Emit, Idle, serviceVars, StartRecording, Record, RecordFails, EndEvaluation,
                GrowOld
  <2> QED BY <1>5, <2>1
<1>8. ASSUME NEW c \in Consumers, StartEvaluation(c) \/ Park(c)
      PROVE  Settled(e)'
  <2>1. c # Sweeper
    BY ServiceAssumption DEF Sweeper
  <2>2. parked \subseteq parked' /\ stack'[Sweeper] = stack[Sweeper]
    BY <1>t, <1>8, <2>1 DEF StartEvaluation, Park, Raised, Types
  <2> QED BY <1>5, <2>2
<1>9. ASSUME NEW t \in Tasks, t # Sweeper,
             Evaluate(t) \/ EvaluationFails(t) \/ ReadFollowers(t) \/ NextWaiter(t)
      PROVE  Settled(e)'
  <2>1. parked' = parked /\ stack'[Sweeper] = stack[Sweeper]
    BY <1>t, <1>9 DEF Evaluate, EvaluationFails, ReadFollowers, NextWaiter, Raised, Types
  <2> QED BY <1>5, <2>1
<1>10. ASSUME Evaluate(Sweeper) \/ ReadFollowers(Sweeper)
       PROVE  Settled(e)'
  <2>1. PICK g : /\ g.id = Top(Sweeper).id /\ g.waiters \subseteq Copy /\ g \in Frames
                 /\ stack' = [stack EXCEPT ![Sweeper] = Append(Under(Sweeper), g)]
    <3>1. Top(Sweeper).id \in Copy
      BY <1>t, <1>10, TopIs DEF Evaluate, ReadFollowers, At
    <3>2. CASE Evaluate(Sweeper)
      BY <3>1, <3>2 DEF Evaluate, Frame, Frames
    <3>3. CASE ReadFollowers(Sweeper)
      <4> DEFINE g == [Frame(Top(Sweeper).id, "waiters") EXCEPT !.waiters =
                         {p \in parked : follows[p.event] = Top(Sweeper).id.event}]
      <4>1. g.id = Top(Sweeper).id /\ g.waiters \subseteq Copy /\ g \in Frames
        BY <1>t, <3>1 DEF Frame, Frames, Types
      <4>2. stack' = [stack EXCEPT ![Sweeper] = Append(Under(Sweeper), g)]
        BY <3>3 DEF ReadFollowers
      <4> QED BY <4>1, <4>2
    <3> QED BY <1>10, <3>2, <3>3
  <2>2. /\ stack[Sweeper] # <<>> /\ parked' = parked
        /\ Top(Sweeper).at # "waiters"
    BY <1>10 DEF Evaluate, ReadFollowers, At
  <2>3. Top(Sweeper).waiters = {}
    BY <1>t, <2>2, TopIs DEF FrameFine
  <2>4. Under(Sweeper) \in Seq(Frames) /\ stack'[Sweeper] = Append(Under(Sweeper), g)
    BY <1>t, <2>1, <2>2, UnderIs DEF Under, Types
  <2>5. Waited(stack'[Sweeper]) = Waited(Under(Sweeper)) \cup EventsIn(g)
    BY <2>1, <2>4, WaitedAppend
  <2>6. Waited(stack[Sweeper]) = Waited(Under(Sweeper)) \cup EventsIn(Top(Sweeper))
    BY <1>t, <2>2, WaitedTop
  <2>7. EventsIn(Top(Sweeper)) \subseteq EventsIn(g)
    BY <2>1, <2>3 DEF EventsIn
  <2> QED BY <1>6, <2>2, <2>5, <2>6, <2>7
<1>11. ASSUME stack[Sweeper] # <<>>, Raised(Sweeper), parked' = parked
       PROVE  Settled(e)'
  <2>1. Covered(e) => Covered(e)'
    BY <1>1, <1>11 DEF Covered
  <2> QED BY <1>2, <1>3, <1>11, <2>1, RaisedCovers DEF Settled
<1>12. CASE EvaluationFails(Sweeper)
  BY <1>11, <1>12 DEF EvaluationFails, At
<1>13. CASE NextWaiter(Sweeper)
  <2>1. stack[Sweeper] # <<>> /\ Top(Sweeper) \in Frames /\ parked' = parked
    BY <1>t, <1>13, TopIs DEF NextWaiter, At
  <2>2. PICK id \in Top(Sweeper).waiters :
          \/ Raised(Sweeper)
          \/ stack' = [stack EXCEPT ![Sweeper] =
               Append(Append(Under(Sweeper), [Top(Sweeper) EXCEPT !.waiters = @ \ {id}]),
                      Entry(id))]
    BY <1>13 DEF NextWaiter
  <2>3. CASE Raised(Sweeper)
    BY <1>11, <2>1, <2>3
  <2>4. CASE ~Raised(Sweeper)
    <3>1. PICK g, h : g = [Top(Sweeper) EXCEPT !.waiters = @ \ {id}] /\ h = Entry(id)
      OBVIOUS
    <3>2. /\ g \in Frames /\ g.id = Top(Sweeper).id
          /\ g.waiters = Top(Sweeper).waiters \ {id} /\ id \in Copy
      BY <2>1, <3>1 DEF Frames
    <3>3. h \in Frames /\ h.id = id
      BY <1>t, <3>1, <3>2, EntryFine DEF Inv
    <3>4. /\ Under(Sweeper) \in Seq(Frames)
          /\ stack'[Sweeper] = Append(Append(Under(Sweeper), g), h)
      BY <1>t, <2>1, <2>2, <2>4, <3>1, UnderIs DEF Under, Types
    <3>5. Append(Under(Sweeper), g) \in Seq(Frames)
      BY <3>2, <3>4, AppendIs
    <3>6. Waited(stack'[Sweeper])
            = Waited(Under(Sweeper)) \cup EventsIn(g) \cup EventsIn(h)
      BY <3>2, <3>3, <3>4, <3>5, WaitedAppend
    <3>7. Waited(stack[Sweeper]) = Waited(Under(Sweeper)) \cup EventsIn(Top(Sweeper))
      BY <1>t, <2>1, WaitedTop
    <3>8. EventsIn(Top(Sweeper)) \subseteq EventsIn(g) \cup EventsIn(h)
      BY <3>2, <3>3 DEF EventsIn
    <3> QED BY <1>6, <2>1, <3>6, <3>7, <3>8
  <2> QED BY <2>3, <2>4
<1>14. ASSUME NEW t \in Tasks, FinishFrame(t)
       PROVE  Settled(e)'
  <2>1. /\ stack[t] # <<>> /\ Top(t).at = "waiters" /\ Top(t).waiters = {}
        /\ parked' = {p \in parked : p.event # Top(t).id.event}
        /\ stack' = [stack EXCEPT ![t] = Under(t)]
    BY <1>14 DEF FinishFrame, At
  <2>2. Top(t).id.event = None \/ Handled(Top(t).id.event)
    BY <2>1, TopIs DEF FrameFine
  <2>3. Covered(e) => Covered(e)'
    BY <1>t, <1>1, <2>1, <2>2 DEF Covered
  <2>4. CASE e \in InSweep
    <3>1. CASE t # Sweeper
      <4>1. stack'[Sweeper] = stack[Sweeper]
        BY <2>1, <3>1, <1>t DEF Types
      <4> QED BY <2>4, <4>1 DEF InSweep, Settled
    <3>2. CASE t = Sweeper
      <4>1. stack'[Sweeper] = Under(Sweeper)
        BY <1>t, <2>1, <3>2 DEF Types
      <4>2. e \in Waited(stack'[Sweeper]) \/ e = Top(t).id.event
        BY <1>t, <2>1, <2>4, <3>2, <4>1, InSweepIs, WaitedTop DEF EventsIn
      <4>3. CASE e \in Waited(stack'[Sweeper])
        BY <1>t, <4>3, InSweepWillBe DEF Settled
      <4>4. CASE e = Top(t).id.event
        BY <1>t, <1>1, <2>2, <4>4 DEF Settled, Covered
      <4> QED BY <4>2, <4>3, <4>4
    <3> QED BY <3>1, <3>2
  <2> QED BY <1>2, <1>3, <2>3, <2>4 DEF Settled
<1>15. CASE Sweep
  <2>1. PICK f : f = [Frame([event |-> None, copy |-> 0], "waiters")
                        EXCEPT !.waiters = parked \cap old]
    OBVIOUS
  <2>2. /\ stack[Sweeper] = <<>> /\ parked' = parked \ old
        /\ stack' = [stack EXCEPT ![Sweeper] = <<f>>]
    BY <1>15, <2>1 DEF Sweep
  <2>3. f.waiters = parked \cap old /\ stack'[Sweeper] = <<f>>
    BY <1>t, <2>1, <2>2 DEF Frame, Types
  <2>4. InSweep = {}
    BY <2>2, EmptySeq DEF InSweep
  <2>5. ASSUME NEW p \in parked, p.event = e
        PROVE  Settled(e)'
    <3>1. CASE p \in old
      <4>1. e \in EventsIn(f) /\ <<f>>[1] = f /\ 1 \in DOMAIN <<f>>
        BY <2>3, <2>5, <3>1 DEF EventsIn
      <4>2. e \in Waited(<<f>>)
        BY <4>1 DEF Waited
      <4>3. e \in InSweep'
        BY <1>t, <2>3, <4>2, InSweepWillBe
      <4> QED BY <4>3 DEF Settled
    <3>2. CASE p \notin old
      BY <2>2, <2>5, <3>2 DEF Settled, Covered
    <3> QED BY <3>1, <3>2
  <2> QED BY <1>4, <2>4, <2>5 DEF Settled, Covered
<1>16. CASE Restart
  <2>1. parked' = parked /\ InSweep \subseteq lost'
    BY <1>16 DEF Restart
  <2>2. Covered(e) => Covered(e)'
    BY <1>1, <2>1 DEF Covered
  <2> QED BY <1>2, <1>3, <2>1, <2>2 DEF Settled
<1>17. CASE UNCHANGED vars
  BY <1>5, <1>17 DEF vars
<1> QED BY <1>t, <1>7, <1>8, <1>9, <1>10, <1>12, <1>13, <1>14, <1>15, <1>16, <1>17
        DEF Next, ConsumerStep, CallStep, Tasks


LEMMA InQueuesIs ==
  /\ InQueues = EventsOf(queue) \cup EventsOf(retries)
  /\ InQueues' = EventsOf(queue') \cup EventsOf(retries')
BY DEF InQueues, EventsOf

\* A message that its task returns is queued again, dead, or was recorded or evaluated.
LEMMA ReturnKeeps ==
  ASSUME Inv, NEW c \in Consumers, place[c] = "handling", Return(c), UNCHANGED <<sends, queue>>,
         EventsOf(retries) \subseteq EventsOf(retries'),
         NEW e, e = message[c].event, Settled(e)' \/ e \in EventsOf(retries')
  PROVE  \A f \in InQueues \cup InHands : f \in InQueues' \cup InHands' \/ Settled(f)'
<1> SUFFICES ASSUME NEW d \in Consumers, place[d] = "handling", d # c
             PROVE  message[d].event \in InHands'
  BY InQueuesIs DEF InHands
<1>1. place'[d] = "handling" /\ message'[d] = message[d]
  BY DEF Return, Inv, Types, MessagingTypeOK
<1> QED BY <1>1 DEF InHands

LEMMA RaisedKeeps ==
  ASSUME Inv, NEW t \in Tasks, stack[t] # <<>>, Raised(t)
  PROVE  /\ sends' = sends
         /\ \A e \in InQueues \cup InHands : e \in InQueues' \cup InHands' \/ Settled(e)'
<1>1. CASE t = Sweeper
  BY <1>1 DEF Raised, messagingVars, InQueues, InHands
<1>2. CASE t # Sweeper
  <2>1. t \in Consumers /\ place[t] = "handling" /\ message[t] \in Message /\ Retry(t)
    BY <1>2, TopIs DEF Raised
  <2>2. /\ Return(t) /\ UNCHANGED <<sends, queue>>
        /\ EventsOf(retries) \subseteq EventsOf(retries')
        /\ message[t].event \in dead' \cup EventsOf(retries')
    BY <2>1, RetryReturns DEF Inv, Types
  <2>3. PICK e : e = message[t].event
    OBVIOUS
  <2>4. Settled(e)' \/ e \in EventsOf(retries')
    BY <2>2, <2>3 DEF Settled
  <2> QED BY <2>1, <2>2, <2>3, <2>4, ReturnKeeps
<1> QED BY <1>1, <1>2

\* The outermost call of a task is of its message.
LEMMA BottomIs ==
  ASSUME Inv, NEW c \in Consumers, stack[c] # <<>>, NEW e, e = message[c].event
  PROVE  /\ Top(c).id.event = e \/ Handled(e)
         /\ Top(c).at = "waiters" => Handled(e)
<1>1. PICK n : n = Len(stack[c])
  OBVIOUS
<1>2. c \in Tasks /\ stack[c] \in Seq(Frames) /\ StackFine(c)
  BY DEF Inv, Types, Tasks
<1>3. /\ n \in Nat \ {0} /\ DOMAIN stack[c] = 1..n /\ Top(c) = stack[c][n]
  BY <1>1, <1>2, UnderIs DEF Top
<1>4. stack[c][1].id.event = e /\ e \in Events /\ e # None
  BY MessageIs, MessagingAssumption DEF Inv, HandFine
<1>5. PICK f : f = stack[c][1]
  OBVIOUS
<1>6. 1 \in 1..n /\ (n # 1 => 1 < n)
  BY <1>3
<1>7. FrameFine(c, 1, f) /\ (n # 1 => f.at = "waiters")
  BY <1>1, <1>2, <1>3, <1>5, <1>6 DEF StackFine
<1>8. f.at = "waiters" => Handled(e)
  BY <1>4, <1>5, <1>7 DEF FrameFine
<1> QED BY <1>3, <1>4, <1>5, <1>7, <1>8

LEMMA KeptNext ==
  ASSUME Inv, Kept, [Next]_vars
  PROVE  Kept'
<1>t. /\ Types /\ MessagingTypeOK
      /\ \A t \in Tasks : stack[t] \in Seq(Frames)
      /\ Sweeper \in Tasks /\ Consumers \subseteq Tasks /\ Sweeper \notin Consumers
  BY ServiceAssumption DEF Inv, Types, Tasks, Sweeper
<1>s. \A e \in Events : Settled(e) => Settled(e)'
  BY SettledStays
<1>1. ASSUME UNCHANGED messagingVars
      PROVE  /\ sends' = sends
             /\ \A e \in InQueues \cup InHands : e \in InQueues' \cup InHands' \/ Settled(e)'
  BY <1>1 DEF messagingVars, InQueues, InHands
<1>2. ASSUME sends' = sends,
             \A e \in InQueues \cup InHands : e \in InQueues' \cup InHands' \/ Settled(e)'
      PROVE  EventsKept'
  BY <1>s, <1>2 DEF Kept, EventsKept
<1>3. EventsKept'
  <2>1. ASSUME NEW d \in Events, Emit(d)
        PROVE  EventsKept'
    <3>1. Publish(d)
      BY <2>1 DEF Emit
    <3>2. /\ EventsOf(queue) \subseteq EventsOf(queue')
          /\ \A e \in Events : sends'[e] > 0 => sends[e] > 0 \/ e \in EventsOf(queue')
      BY <1>t, <3>1, PublishAdds
    <3>3. retries' = retries /\ InHands' = InHands
      BY <3>1 DEF Publish, InHands
    <3> QED BY <1>s, <3>2, <3>3, InQueuesIs DEF Kept, EventsKept
  <2>2. ASSUME NEW c \in Consumers, Idle(c)
        PROVE  EventsKept'
    <3>1. UNCHANGED <<sends, queue, retries, message>>
      BY <2>2 DEF Idle, Block
    <3>2. InHands \subseteq InHands'
      BY <1>t, <2>2 DEF Idle, Block, InHands, MessagingTypeOK
    <3> QED BY <1>2, <3>1, <3>2 DEF InQueues
  <2>3. ASSUME NEW c \in Consumers, StartRecording(c) \/ StartEvaluation(c)
        PROVE  EventsKept'
    <3>1. /\ place[c] # "handling" /\ place' = [place EXCEPT ![c] = "handling"]
          /\ \A d \in Consumers \ {c} : message'[d] = message[d]
          /\ EventsOf(queue) \cup EventsOf(retries)
               \subseteq EventsOf(queue') \cup EventsOf(retries') \cup {message'[c].event}
          /\ sends' = sends
      BY <1>t, <2>3, TakeMoves DEF StartRecording, StartEvaluation
    <3>2. InHands' = InHands \cup {message'[c].event}
      BY <1>t, <3>1 DEF InHands, MessagingTypeOK
    <3> QED BY <1>2, <3>1, <3>2, InQueuesIs
  <2>4. ASSUME NEW c \in Consumers, Record(c)
        PROVE  EventsKept'
    <3>1. PICK e : e = message[c].event
      OBVIOUS
    <3>2. e \in states' /\ Ack(c) /\ place[c] = "handling"
      BY <2>4, <3>1 DEF Record
    <3>3. Settled(e)'
      BY <3>2 DEF Settled
    <3> QED BY <1>2, <3>1, <3>2, <3>3, ReturnKeeps DEF Ack
  <2>5. ASSUME NEW c \in Consumers, RecordFails(c)
        PROVE  EventsKept'
    <3>1. PICK e : e = message[c].event
      OBVIOUS
    <3>2. Retry(c) /\ place[c] = "handling" /\ message[c] \in Message
      BY <2>5 DEF RecordFails, Inv, HandFine
    <3>3. /\ Return(c) /\ UNCHANGED <<sends, queue>>
          /\ EventsOf(retries) \subseteq EventsOf(retries')
          /\ e \in dead' \cup EventsOf(retries')
      BY <1>t, <3>1, <3>2, RetryReturns
    <3>4. Settled(e)' \/ e \in EventsOf(retries')
      BY <3>3 DEF Settled
    <3> QED BY <1>2, <3>1, <3>2, <3>3, <3>4, ReturnKeeps
  <2>6. ASSUME NEW c \in Consumers, EndEvaluation(c)
        PROVE  EventsKept'
    <3>1. PICK e : e = message[c].event
      OBVIOUS
    <3>2. Ack(c) /\ place[c] = "handling" /\ stack[c] = <<>> /\ service = "triggers"
      BY <2>6 DEF EndEvaluation
    <3>3. Settled(e) /\ e \in Events
      BY <3>1, <3>2, MessageIs DEF Kept, HandsKept, Inv, HandFine
    <3> QED BY <1>2, <1>s, <3>1, <3>2, <3>3, ReturnKeeps DEF Ack
  <2>7. ASSUME NEW c \in Consumers, Park(c)
        PROVE  EventsKept'
    BY <1>1, <1>2, <1>t, <2>7, RaisedKeeps DEF Park, At
  <2>8. ASSUME NEW t \in Tasks, CallStep(t) \/ EvaluationFails(t)
        PROVE  EventsKept'
    BY <1>1, <1>2, <2>8, RaisedKeeps
    DEF CallStep, Evaluate, EvaluationFails, ReadFollowers, NextWaiter, FinishFrame, At
  <2>9. ASSUME NEW id, Sweep \/ GrowOld(id)
        PROVE  EventsKept'
    BY <1>1, <1>2, <2>9 DEF Sweep, GrowOld
  <2>10. CASE Restart
    <3>1. sends' = sends /\ InQueues \cup InHands \subseteq lost'
      BY <2>10 DEF Restart, RestartMessaging
    <3> QED BY <1>2, <3>1 DEF Settled
  <2>11. CASE UNCHANGED vars
    BY <1>1, <1>2, <2>11 DEF vars, messagingVars
  <2> QED BY <1>t, <2>1, <2>2, <2>3, <2>4, <2>5, <2>6, <2>7, <2>8, <2>9, <2>10, <2>11
          DEF Next, ConsumerStep
<1>4. ASSUME NEW c \in Consumers, place'[c] = place[c], message'[c] = message[c],
             service' = service,
             place[c] = "handling" /\ stack'[c] = <<>> /\ stack[c] # <<>>
               => \A e : e = message[c].event => Settled(e)'
      PROVE  place'[c] = "handling" /\ service' = "triggers" /\ stack'[c] = <<>>
               => Settled(message[c].event)'
  <2> SUFFICES ASSUME place[c] = "handling", service = "triggers", stack'[c] = <<>>
               PROVE  Settled(message[c].event)'
    BY <1>4
  <2>1. PICK e : e = message[c].event
    OBVIOUS
  <2>2. e \in Events
    BY <2>1, MessageIs DEF Inv, HandFine
  <2>3. Settled(e)'
    BY <1>4, <1>s, <2>1, <2>2 DEF Kept, HandsKept
  <2> QED BY <1>4, <2>1, <2>3
<1>5. HandsKept'
  <2> SUFFICES ASSUME NEW c \in Consumers, place'[c] = "handling", service' = "triggers",
                      stack'[c] = <<>>
               PROVE  Settled(message[c].event)'
    BY DEF HandsKept
  <2>1. ASSUME place'[c] = place[c], message'[c] = message[c], service' = service,
               stack'[c] = stack[c]
        PROVE  Settled(message[c].event)'
    BY <1>4, <2>1
  <2>2. ASSUME NEW d, Emit(d) \/ GrowOld(d) \/ Sweep \/ UNCHANGED vars
        PROVE  Settled(message[c].event)'
    <3>1. /\ place' = place /\ message' = message /\ service' = service
          /\ stack'[c] = stack[c]
      BY <1>t, <2>2 DEF Emit, Publish, GrowOld, Sweep, messagingVars, vars, Types, Tasks
    <3> QED BY <2>1, <3>1
  <2>3. ASSUME NEW d \in Consumers,
               \/ Idle(d) \/ StartRecording(d) \/ Record(d) \/ RecordFails(d)
               \/ EndEvaluation(d)
        PROVE  Settled(message[c].event)'
    <3>1. stack' = stack /\ service' = service
      BY <2>3 DEF Idle, serviceVars, StartRecording, Record, RecordFails, EndEvaluation
    <3>2. ~StartRecording(d) /\ ~Record(d) /\ ~RecordFails(d)
      BY <3>1 DEF StartRecording, Record, RecordFails
    <3>3. place'[c] = place[c] /\ message'[c] = message[c]
      BY <1>t, <2>3, <3>2
      DEF Idle, Block, EndEvaluation, Ack, Return, MessagingTypeOK
    <3> QED BY <2>1, <3>1, <3>3
  <2>4. ASSUME NEW d \in Consumers, StartEvaluation(d)
        PROVE  Settled(message[c].event)'
    <3>1. /\ \A b \in Consumers \ {d} : message'[b] = message[b] /\ place'[b] = place[b]
          /\ service' = service /\ seen' = seen /\ handled' = handled
      BY <1>t, <2>4, TakeMoves DEF StartEvaluation, MessagingTypeOK
    <3>2. CASE c # d
      <4>1. stack'[c] = stack[c]
        BY <1>t, <2>4, <3>2 DEF StartEvaluation, Types
      <4> QED BY <2>1, <3>1, <3>2, <4>1
    <3>3. CASE c = d
      <4>1. PICK e : e = message'[c].event
        OBVIOUS
      <4>2. e \in seen
        <5>1. stack'[c] = IF e \in seen THEN <<>> ELSE <<Entry(IdOf(message'[c]))>>
          BY <1>t, <2>4, <3>3, <4>1 DEF StartEvaluation, Types
        <5>2. \A x : <<x>> # <<>>
          OBVIOUS
        <5> QED BY <5>1, <5>2
      <4>3. Settled(e)'
        BY <3>1, <4>2 DEF Inv, Seen, Settled, Covered, Handled
      <4> QED BY <4>1, <4>3
    <3> QED BY <3>2, <3>3
  <2>5. ASSUME NEW t \in Tasks, stack[t] # <<>>, Raised(t), service' = service
        PROVE  Settled(message[c].event)'
    <3>1. CASE t = Sweeper
      <4>1. UNCHANGED messagingVars /\ stack'[c] = stack[c]
        BY <1>t, <2>5, <3>1 DEF Raised, Types
      <4> QED BY <2>1, <2>5, <4>1 DEF messagingVars
    <3>2. CASE t # Sweeper
      <4>1. /\ t \in Consumers /\ place' = [place EXCEPT ![t] = "looking"]
            /\ message' = [message EXCEPT ![t] = None]
            /\ stack' = [stack EXCEPT ![t] = <<>>]
        BY <2>5, <3>2, TopIs DEF Raised, Retry, Return
      <4>2. c # t
        BY <1>t, <4>1 DEF MessagingTypeOK
      <4>3. stack'[c] = stack[c] /\ place'[c] = place[c] /\ message'[c] = message[c]
        BY <1>t, <4>1, <4>2 DEF MessagingTypeOK, Types
      <4> QED BY <2>1, <2>5, <4>3
    <3> QED BY <3>1, <3>2
  <2>6. ASSUME NEW t \in Tasks, NEW s, stack' = [stack EXCEPT ![t] = s], service' = service,
               UNCHANGED messagingVars,
               t \in Consumers /\ stack[t] # <<>> /\ s = <<>>
                 => \A e : e = message[t].event => Settled(e)'
        PROVE  Settled(message[c].event)'
    <3>1. place' = place /\ message' = message
      BY <2>6 DEF messagingVars
    <3>2. CASE c = t
      BY <1>4, <1>t, <2>6, <3>1, <3>2 DEF Types
    <3>3. CASE c # t
      <4>1. stack'[c] = stack[c]
        BY <1>t, <2>6, <3>3 DEF Types
      <4> QED BY <2>1, <2>6, <3>1, <4>1
    <3> QED BY <3>2, <3>3
  <2>7. ASSUME NEW t \in Tasks, stack[t] # <<>>, NEW f, f \in Frames
        PROVE  Append(Under(t), f) # <<>> /\ Append(Under(t), f) \in Seq(Frames)
    <3>1. Under(t) \in Seq(Frames)
      BY <1>t, <2>7, UnderIs DEF Under
    <3> QED BY <2>7, <3>1, AppendIs
  <2>8. ASSUME NEW t \in Tasks, Evaluate(t) \/ ReadFollowers(t)
        PROVE  Settled(message[c].event)'
    <3>1. /\ stack[t] # <<>> /\ Top(t).id \in Copy /\ service' = service
          /\ UNCHANGED messagingVars
      BY <2>8, TopIs DEF Evaluate, ReadFollowers, At
    <3>2. PICK f : f \in Frames /\ stack' = [stack EXCEPT ![t] = Append(Under(t), f)]
      <4>1. CASE Evaluate(t)
        BY <3>1, <4>1 DEF Evaluate, Frame, Frames
      <4>2. CASE ReadFollowers(t)
        <5> DEFINE g == [Frame(Top(t).id, "waiters") EXCEPT !.waiters =
                           {p \in parked : follows[p.event] = Top(t).id.event}]
        <5>1. g \in Frames
          BY <1>t, <3>1 DEF Frame, Frames, Types
        <5> QED BY <4>2, <5>1 DEF ReadFollowers
      <4> QED BY <2>8, <4>1, <4>2
    <3> QED BY <2>6, <2>7, <3>1, <3>2
  <2>9. ASSUME NEW t \in Tasks, NextWaiter(t)
        PROVE  Settled(message[c].event)'
    <3>1. /\ stack[t] # <<>> /\ Top(t) \in Frames /\ service' = service
      BY <2>9, TopIs DEF NextWaiter, At
    <3>2. PICK id \in Top(t).waiters :
            \/ Raised(t)
            \/ /\ stack' = [stack EXCEPT ![t] =
                    Append(Append(Under(t), [Top(t) EXCEPT !.waiters = @ \ {id}]),
                           Entry(id))]
               /\ UNCHANGED messagingVars
      BY <2>9 DEF NextWaiter
    <3>3. PICK g, h : g = [Top(t) EXCEPT !.waiters = @ \ {id}] /\ h = Entry(id)
      OBVIOUS
    <3>4. g \in Frames /\ id \in Copy
      BY <3>1, <3>3 DEF Frames
    <3>5. h \in Frames
      BY <1>t, <3>3, <3>4, EntryFine DEF Inv
    <3>6. Append(Append(Under(t), g), h) # <<>>
      BY <2>7, <3>1, <3>4, <3>5, AppendIs
    <3> QED BY <2>5, <2>6, <3>1, <3>2, <3>3, <3>6
  <2>10. ASSUME NEW d \in Consumers, Park(d)
         PROVE  Settled(message[c].event)'
    <3>1. stack[d] # <<>> /\ d \in Tasks /\ service' = service /\ handled' = handled
      BY <1>t, <2>10 DEF Park, At
    <3>2. CASE Raised(d)
      BY <2>5, <3>1, <3>2
    <3>3. CASE ~Raised(d)
      <4>1. /\ parked' = parked \cup {Top(d).id} /\ stack' = [stack EXCEPT ![d] = <<>>]
            /\ UNCHANGED messagingVars
        BY <2>10, <3>3 DEF Park
      <4>2. ASSUME NEW e, e = message[d].event
            PROVE  Settled(e)'
        BY <3>1, <4>1, <4>2, BottomIs DEF Settled, Covered, Handled
      <4> QED BY <2>6, <3>1, <4>1, <4>2
    <3> QED BY <3>2, <3>3
  <2>11. ASSUME NEW t \in Tasks, FinishFrame(t)
         PROVE  Settled(message[c].event)'
    <3>1. /\ stack[t] # <<>> /\ service' = service /\ handled' = handled
          /\ Top(t).at = "waiters" /\ stack' = [stack EXCEPT ![t] = Under(t)]
          /\ UNCHANGED messagingVars
      BY <2>11 DEF FinishFrame, At
    <3>2. ASSUME t \in Consumers, NEW e, e = message[t].event
          PROVE  Settled(e)'
      BY <3>1, <3>2, BottomIs DEF Settled, Covered, Handled
    <3> QED BY <2>6, <3>1, <3>2
  <2>12. ASSUME NEW t \in Tasks, EvaluationFails(t)
         PROVE  Settled(message[c].event)'
    BY <2>5, <2>12 DEF EvaluationFails, At
  <2>13. ~Restart
    BY DEF Restart, RestartMessaging
  <2> QED BY <1>t, <2>2, <2>3, <2>4, <2>8, <2>9, <2>10, <2>11, <2>12, <2>13
          DEF Next, ConsumerStep, CallStep
<1> QED BY <1>3, <1>5 DEF Kept

\* Every event that was accepted is in a queue, with a task, in a table or evaluated,
\* unless a server that stopped or a sweep that failed had it in its hands.
THEOREM NoEventForgotten == Spec => []NothingForgotten
<1>1. Inv /\ Kept => NothingForgotten
  BY DEF Kept, EventsKept, Settled, Covered, Handled, NothingForgotten
<1> QED BY <1>1, InvInit, KeptInit, InvNext, KeptNext, PTL DEF Spec

-----------------------------------------------------------------------------
(* The row of a task run.                                                  *)

\* The clock shows one time for at most two states, and moves on by more than one tick
\* after them.
ClockTicks(k) ==
  \A e, d \in Events : e < d =>
    /\ k[e] <= k[d]
    /\ k[e] = k[d] => d = e + 1 /\ \A f \in Events : d < f => k[d] + 1 < k[f]

LEMMA NatLeast ==
  ASSUME NEW S \in SUBSET Nat, S # {}
  PROVE  \E n \in S : \A m \in S : n <= m
<1> DEFINE R == {x \in Nat \X Nat : x[1] < x[2]}
<1>1. IsWellFoundedOn(R, Nat)
  BY NatLessThanWellFounded DEF OpToRel
<1>2. PICK n \in S : \A m \in S : ~ (<<m, n>> \in R)
  BY <1>1, WFMin
<1>3. ASSUME NEW m \in S PROVE n <= m
  <2>1. ~ (<<m, n>> \in R)
    BY <1>2
  <2>2. m \in Nat /\ n \in Nat
    OBVIOUS
  <2>3. ~(m < n)
    BY <2>1, <2>2
  <2> QED BY <2>2, <2>3
<1> QED BY <1>3

\* The timestamps of set_state rise where the clock ticks.
LEMMA TimestampsRise ==
  ASSUME clock \in [Events -> Nat \ {0}], ClockTicks(clock)
  PROVE  /\ Timestamps \in [Events -> Nat \ {0}]
         /\ \A e, d \in Events : e < d => Timestamps[e] < Timestamps[d]
<1> DEFINE Stamp(s) ==
             [e \in Events |-> IF e - 1 \in Events /\ s[e - 1] = clock[e] THEN clock[e] + 1
                               ELSE clock[e]]
           Moved(e) == e - 1 \in Events /\ clock[e - 1] = clock[e]
           g == [e \in Events |-> IF Moved(e) THEN clock[e] + 1 ELSE clock[e]]
           f == Timestamps
<1>t. Events \subseteq Nat \ {0}
  BY MessagingAssumption
<1>1. g = Stamp(g)
  <2> SUFFICES ASSUME NEW e \in Events
               PROVE  Moved(e) <=> e - 1 \in Events /\ g[e - 1] = clock[e]
    OBVIOUS
  <2>1. ASSUME e - 1 \in Events
        PROVE  clock[e - 1] = clock[e] <=> g[e - 1] = clock[e]
    <3>1. PICK d : d = e - 1 /\ d \in Events /\ d < e
      BY <1>t, <2>1
    <3>2. CASE Moved(d)
      <4>1. clock[d] + 1 < clock[e]
        <5>1. d - 1 \in Events /\ d - 1 < d /\ clock[d - 1] = clock[d]
          BY <1>t, <3>1, <3>2
        <5> QED BY <3>1, <5>1 DEF ClockTicks
      <4> QED BY <1>t, <3>1, <3>2, <4>1
    <3>3. CASE ~Moved(d)
      BY <3>1, <3>3
    <3> QED BY <3>2, <3>3
  <2> QED BY <2>1
<1>2. f = Stamp(f)
  <2>1. f = CHOOSE s : s = Stamp(s)
    BY DEF Timestamps
  <2> QED BY <1>1, <2>1
<1> HIDE DEF f
<1>3. f = g
  <2> DEFINE Wrong == {e \in Events : f[e] # g[e]}
  <2>1. CASE Wrong = {}
    BY <1>2, <2>1
  <2>2. CASE Wrong # {}
    <3>1. PICK e \in Wrong : \A d \in Wrong : e <= d
      BY <1>t, <2>2, NatLeast
    <3>2. e - 1 \in Events => f[e - 1] = g[e - 1]
      BY <1>t, <3>1
    <3>3. f[e] = Stamp(f)[e] /\ g[e] = Stamp(g)[e]
      BY <1>1, <1>2
    <3>4. f[e] = g[e]
      BY <3>2, <3>3
    <3> QED BY <3>1, <3>4
  <2> QED BY <2>1, <2>2
<1>4. ASSUME NEW e \in Events, NEW d \in Events, e < d
      PROVE  g[e] < g[d]
  <2>1. clock[e] \in Nat /\ clock[d] \in Nat /\ clock[e] <= clock[d] /\ e \in Nat /\ d \in Nat
    BY <1>t, <1>4 DEF ClockTicks
  <2>2. CASE Moved(e)
    <3>1. clock[e] + 1 < clock[d]
      <4>1. e - 1 \in Events /\ e - 1 < e /\ clock[e - 1] = clock[e]
        BY <2>1, <2>2
      <4> QED BY <1>4, <4>1 DEF ClockTicks
    <3> QED BY <2>1, <2>2, <3>1
  <2>3. CASE ~Moved(e) /\ clock[e] = clock[d]
    <3>1. d = e + 1
      BY <1>4, <2>3 DEF ClockTicks
    <3>2. Moved(d)
      BY <2>1, <2>3, <3>1
    <3> QED BY <2>1, <2>3, <3>2
  <2>4. CASE ~Moved(e) /\ clock[e] # clock[d]
    BY <2>1, <2>4
  <2> QED BY <2>2, <2>3, <2>4
<1>5. g \in [Events -> Nat \ {0}]
  OBVIOUS
<1> QED BY <1>3, <1>4, <1>5 DEF f

\* The row shows the state with the latest timestamp.
Newest ==
  /\ clock \in [Events -> Nat \ {0}] /\ ClockTicks(clock)
  /\ states \subseteq Events
  /\ states = {} => row = [event |-> None, timestamp |-> 0]
  /\ states # {} => /\ row.event \in states /\ row.timestamp = Timestamps[row.event]
                    /\ \A e \in states : Timestamps[e] <= row.timestamp

LEMMA NewestInit ==
  ASSUME Init, \A i \in Instances : ClockTicks(i.clock)
  PROVE  Newest
BY ServiceAssumption DEF Init, Newest

LEMMA NewestNext ==
  ASSUME Inv, Newest, [Next]_vars
  PROVE  Newest'
<1>1. ASSUME NEW c \in Consumers, Record(c)
      PROVE  Newest'
  <2>1. PICK e : e = message[c].event
    OBVIOUS
  <2>2. e \in Events
    BY <1>1, <2>1 DEF Inv, HandFine, Record, Message
  <2>3. /\ clock' = clock /\ states' = states \cup {e}
        /\ row' = IF row.timestamp < Timestamps[e]
                    THEN [event |-> e, timestamp |-> Timestamps[e]] ELSE row
    BY <1>1, <2>1 DEF Record
  <2>4. PICK ts : ts = Timestamps /\ Timestamps' = ts
    BY <2>3 DEF Timestamps
  <2>5. ts \in [Events -> Nat \ {0}]
    BY <2>4, TimestampsRise DEF Newest
  <2>6. CASE states = {}
    BY <2>2, <2>3, <2>4, <2>5, <2>6 DEF Newest
  <2>7. CASE states # {}
    <3>1. row.event \in states /\ row.timestamp = ts[row.event]
          /\ \A d \in states : ts[d] <= row.timestamp /\ d \in Events
      BY <2>4, <2>7 DEF Newest
    <3>2. CASE row.timestamp < ts[e]
      BY <2>2, <2>3, <2>4, <2>5, <3>1, <3>2 DEF Newest
    <3>3. CASE ~(row.timestamp < ts[e])
      BY <2>2, <2>3, <2>4, <2>5, <3>1, <3>3 DEF Newest
    <3> QED BY <3>2, <3>3
  <2> QED BY <2>6, <2>7
<1>2. CASE UNCHANGED <<clock, states, row>>
  <2>1. Timestamps' = Timestamps
    BY <1>2 DEF Timestamps
  <2> QED BY <1>2, <2>1 DEF Newest
<1>3. (\E c \in Consumers : Record(c)) \/ UNCHANGED <<clock, states, row>>
  <2>1. ASSUME NEW c \in Consumers, Idle(c) \/ ConsumerStep(c) \/ RecordFails(c), ~Record(c)
        PROVE  UNCHANGED <<clock, states, row>>
    BY <2>1 DEF Idle, serviceVars, ConsumerStep, RecordFails, StartRecording,
      StartEvaluation, Park, CallStep, Evaluate, ReadFollowers, NextWaiter, FinishFrame,
      EndEvaluation
  <2>2. ASSUME \/ \E e \in Events : Emit(e)
               \/ Sweep \/ CallStep(Sweeper)
               \/ \E t \in Tasks : EvaluationFails(t)
               \/ \E id \in Copy : GrowOld(id)
               \/ Restart \/ UNCHANGED vars
        PROVE  UNCHANGED <<clock, states, row>>
    BY <2>2 DEF Emit, Sweep, CallStep, Evaluate, ReadFollowers, NextWaiter, FinishFrame,
      EvaluationFails, GrowOld, Restart, vars
  <2> QED BY <2>1, <2>2 DEF Next
<1> QED BY <1>1, <1>2, <1>3

\* Whatever the order in which the states of a task run come, are sent again and retried,
\* its row shows the latest one that was recorded, where the clock of the engine shows a
\* time for at most two states in a row and then moves on by more than one tick.
THEOREM LatestStateWins ==
  ASSUME \A i \in Instances : ClockTicks(i.clock)
  PROVE  Spec => []RowIsLatest
<1>1. Init => Newest
  BY NewestInit
<1>2. Newest => RowIsLatest
  <2> SUFFICES ASSUME Newest PROVE RowIsLatest
    OBVIOUS
  <2>1. states # {} => row.event \in states /\ row.timestamp = Timestamps[row.event]
    BY DEF Newest
  <2>2. ASSUME NEW e \in states
        PROVE  e <= row.event
    <3>1. e \in Events /\ row.event \in Events /\ e \in Nat /\ row.event \in Nat
      BY <2>1, MessagingAssumption DEF Newest
    <3>2. Timestamps[e] <= Timestamps[row.event]
      BY <2>1 DEF Newest
    <3>3. /\ row.event < e => Timestamps[row.event] < Timestamps[e]
          /\ Timestamps[row.event] \in Nat /\ Timestamps[e] \in Nat
      BY <3>1, TimestampsRise DEF Newest
    <3> QED BY <3>1, <3>2, <3>3
  <2>3. states = {} => row.event = None
    BY DEF Newest
  <2> QED BY <2>1, <2>2, <2>3 DEF RowIsLatest
<1> QED BY <1>1, <1>2, InvInit, InvNext, NewestNext, PTL DEF Spec

-----------------------------------------------------------------------------
(* An event is evaluated once.                                             *)

Distinct(q) == \A i, j \in DOMAIN q : q[i].event = q[j].event => i = j
IdsOf(q) == {IdOf(q[i]) : i \in DOMAIN q}
InQ == EventsOf(queue) \cup EventsOf(retries)

\* As long as all is calm, a message is in one place.
OnePlace ==
  /\ Distinct(queue) /\ Distinct(retries)
  /\ EventsOf(queue) \cap EventsOf(retries) = {}
  /\ \A c \in Consumers : place[c] = "handling" =>
       /\ message[c].event \notin InQ
       /\ \A d \in Consumers : place[d] = "handling" /\ message[d].event = message[c].event
            => c = d

\* All copies are the first ones, of events that were sent.
Known(id) == id.event \in DOMAIN follows /\ id.copy = 1 /\ sends[id.event] = 1

AllKnown ==
  /\ DOMAIN follows \subseteq Events
  /\ \A e \in Events : sends[e] \in {0, 1}
  /\ \A id \in IdsOf(queue) \cup IdsOf(retries) \cup parked : Known(id)
  /\ \A c \in Consumers : place[c] = "handling" => Known(IdOf(message[c]))
  /\ \A e \in seen : e \in DOMAIN follows /\ sends[e] = 1

LEMMA AppendedOnce ==
  ASSUME NEW q \in Seq(Message), NEW m \in Message
  PROVE  /\ IdsOf(Append(q, m)) = IdsOf(q) \cup {IdOf(m)}
         /\ Distinct(q) /\ m.event \notin EventsOf(q) => Distinct(Append(q, m))
<1>1. /\ DOMAIN Append(q, m) = 1..(Len(q) + 1) /\ Append(q, m)[Len(q) + 1] = m
      /\ \A i \in 1..Len(q) : Append(q, m)[i] = q[i]
      /\ DOMAIN q = 1..Len(q) /\ Len(q) \in Nat
  BY AppendIs, LenProperties
<1>2. \A i \in 1..(Len(q) + 1) : i \in 1..Len(q) \/ i = Len(q) + 1
  BY <1>1
<1>3. 1..Len(q) \subseteq 1..(Len(q) + 1) /\ Len(q) + 1 \in 1..(Len(q) + 1)
  BY <1>1
<1>4. IdsOf(Append(q, m)) = IdsOf(q) \cup {IdOf(m)}
  BY <1>1, <1>2, <1>3 DEF IdsOf
<1>5. ASSUME Distinct(q), m.event \notin EventsOf(q)
      PROVE  Distinct(Append(q, m))
  BY <1>1, <1>2, <1>5 DEF Distinct, EventsOf
<1> QED BY <1>4, <1>5

LEMMA TakenOnce ==
  ASSUME NEW q \in Seq(Message), q # <<>>
  PROVE  /\ IdsOf(Tail(q)) \subseteq IdsOf(q) /\ IdOf(Head(q)) \in IdsOf(q)
         /\ Distinct(q) => Distinct(Tail(q)) /\ Head(q).event \notin EventsOf(Tail(q))
<1>1. /\ Tail(q) \in Seq(Message) /\ Len(Tail(q)) = Len(q) - 1
      /\ \A i \in 1..Len(Tail(q)) : Tail(q)[i] = q[i + 1]
  BY HeadTailProperties
<1>2. /\ DOMAIN q = 1..Len(q) /\ Len(q) \in Nat \ {0} /\ Head(q) = q[1]
      /\ DOMAIN Tail(q) = 1..(Len(q) - 1)
  BY <1>1, LenProperties, EmptySeq
<1>3. \A i \in DOMAIN Tail(q) : i + 1 \in DOMAIN q /\ Tail(q)[i] = q[i + 1] /\ i + 1 # 1
  BY <1>1, <1>2
<1>4. 1 \in DOMAIN q
  BY <1>2
<1>5. IdsOf(Tail(q)) \subseteq IdsOf(q) /\ IdOf(Head(q)) \in IdsOf(q)
  BY <1>2, <1>3, <1>4 DEF IdsOf
<1>6. ASSUME Distinct(q)
      PROVE  Distinct(Tail(q)) /\ Head(q).event \notin EventsOf(Tail(q))
  <2>1. \A i, j \in DOMAIN Tail(q) : i + 1 = j + 1 => i = j
    BY <1>2
  <2>2. Distinct(Tail(q))
    BY <1>3, <1>6, <2>1 DEF Distinct
  <2>3. Head(q).event \notin EventsOf(Tail(q))
    BY <1>2, <1>3, <1>4, <1>6 DEF Distinct, EventsOf
  <2> QED BY <2>2, <2>3
<1> QED BY <1>5, <1>6

\* Events of messages and of their copies.
LEMMA EventsOfIds ==
  ASSUME NEW q \in Seq(Message), NEW e
  PROVE  e \in EventsOf(q) <=> \E id \in IdsOf(q) : id.event = e
<1>1. \A m : IdOf(m).event = m.event
  BY DEF IdOf
<1>2. e \in EventsOf(q) <=> \E i \in DOMAIN q : IdOf(q[i]).event = e
  BY <1>1 DEF EventsOf
<1> QED BY <1>2 DEF IdsOf

LEMMA PublishedOnce ==
  ASSUME MessagingTypeOK, OnePlace, AllKnown, NEW e \in DOMAIN follows, sends[e] = 0,
         Publish(e), UNCHANGED <<follows, parked, seen>>
  PROVE  OnePlace' /\ AllKnown' /\ InQ' = InQ \cup {e}
<1>0. /\ e \in Events /\ sends' = [sends EXCEPT ![e] = 1]
      /\ UNCHANGED <<retries, place, message>>
  BY DEF Publish, AllKnown
<1> DEFINE m == [event |-> e, copy |-> 1, retry_count |-> 0]
<1>1. m \in Message /\ m.event = e /\ IdOf(m) = [event |-> e, copy |-> 1]
  BY <1>0, MessagingAssumption DEF Message, IdOf
<1>2. queue' = Append(queue, m)
  BY DEF Publish
<1> HIDE DEF m
<1>3. /\ EventsOf(queue') = EventsOf(queue) \cup {e}
      /\ IdsOf(queue') = IdsOf(queue) \cup {[event |-> e, copy |-> 1]}
      /\ Distinct(queue) /\ e \notin EventsOf(queue) => Distinct(queue')
  BY <1>1, <1>2, EventsOfAppend, AppendedOnce DEF MessagingTypeOK
<1>4. \A id : Known(id) => id.event # e /\ Known(id)'
  BY <1>0 DEF Known, MessagingTypeOK, AllKnown
<1>5. Known([event |-> e, copy |-> 1])'
  BY <1>0 DEF Known, MessagingTypeOK
<1>6. e \notin InQ
  BY <1>4, EventsOfIds DEF InQ, AllKnown, MessagingTypeOK
<1>7. ASSUME NEW c \in Consumers, place[c] = "handling"
      PROVE  message[c].event # e /\ Known(IdOf(message[c]))'
  <2>1. PICK id : id = IdOf(message[c])
    OBVIOUS
  <2>2. id.event = message[c].event
    BY <2>1 DEF IdOf
  <2> QED BY <1>0, <1>4, <1>7, <2>1, <2>2 DEF AllKnown
<1>8. InQ' = InQ \cup {e}
  BY <1>0, <1>3 DEF InQ
<1>9. OnePlace'
  BY <1>0, <1>3, <1>6, <1>7, <1>8 DEF OnePlace, InQ
<1>10. \A d \in seen : sends'[d] = 1
  BY <1>0 DEF AllKnown, MessagingTypeOK
<1>11. \A d \in Events : sends'[d] \in {0, 1}
  BY <1>0 DEF AllKnown, MessagingTypeOK
<1>12. AllKnown'
  BY <1>0, <1>3, <1>4, <1>5, <1>7, <1>10, <1>11 DEF AllKnown
<1> QED BY <1>8, <1>9, <1>12

LEMMA TakenIsOne ==
  ASSUME MessagingTypeOK, OnePlace, AllKnown, NEW c \in Consumers, Take(c),
         UNCHANGED <<follows, parked, seen>>
  PROVE  /\ OnePlace' /\ AllKnown' /\ InQ' \subseteq InQ
         /\ message'[c].event \in InQ /\ message'[c].event \notin InQ'
         /\ Known(IdOf(message'[c]))
<1>0. /\ place[c] # "handling" /\ place' = [place EXCEPT ![c] = "handling"]
      /\ \A d \in Consumers \ {c} : message'[d] = message[d]
      /\ UNCHANGED <<sends, dead>> /\ message'[c] \in Message
  BY TakeMoves
<1>1. /\ InQ' \subseteq InQ /\ message'[c].event \in InQ /\ message'[c].event \notin InQ'
      /\ Distinct(queue') /\ Distinct(retries') /\ EventsOf(queue') \cap EventsOf(retries') = {}
      /\ IdsOf(queue') \cup IdsOf(retries') \subseteq IdsOf(queue) \cup IdsOf(retries)
      /\ IdOf(message'[c]) \in IdsOf(queue) \cup IdsOf(retries)
  <2>1. CASE TakeRetry(c)
    <3>1. retries # <<>> /\ retries' = Tail(retries) /\ queue' = queue
          /\ message'[c] = Head(retries)
      BY <2>1 DEF TakeRetry, Handle, MessagingTypeOK
    <3>2. /\ EventsOf(retries) = {Head(retries).event} \cup EventsOf(Tail(retries))
          /\ Distinct(Tail(retries)) /\ Head(retries).event \notin EventsOf(Tail(retries))
          /\ IdsOf(Tail(retries)) \subseteq IdsOf(retries)
          /\ IdOf(Head(retries)) \in IdsOf(retries)
      BY <3>1, EventsOfTail, TakenOnce DEF MessagingTypeOK, OnePlace
    <3> QED BY <3>1, <3>2 DEF OnePlace, InQ
  <2>2. CASE TakeNew(c)
    <3>1. queue # <<>> /\ queue' = Tail(queue) /\ retries' = retries
          /\ message'[c] = Head(queue)
      BY <2>2 DEF TakeNew, Handle, MessagingTypeOK
    <3>2. /\ EventsOf(queue) = {Head(queue).event} \cup EventsOf(Tail(queue))
          /\ Distinct(Tail(queue)) /\ Head(queue).event \notin EventsOf(Tail(queue))
          /\ IdsOf(Tail(queue)) \subseteq IdsOf(queue)
          /\ IdOf(Head(queue)) \in IdsOf(queue)
      BY <3>1, EventsOfTail, TakenOnce DEF MessagingTypeOK, OnePlace
    <3> QED BY <3>1, <3>2 DEF OnePlace, InQ
  <2> QED BY <2>1, <2>2 DEF Take
<1>2. \A d \in Consumers : place'[d] = "handling" => d = c \/ place[d] = "handling"
  BY <1>0 DEF MessagingTypeOK
<1>3. OnePlace'
  BY <1>0, <1>1, <1>2 DEF OnePlace
<1>4. \A id : Known(id)' = Known(id)
  BY <1>0 DEF Known
<1>5. AllKnown'
  <2>1. \A d \in Consumers : place'[d] = "handling" => Known(IdOf(message'[d]))
    BY <1>0, <1>1, <1>2 DEF AllKnown
  <2> QED BY <1>0, <1>1, <1>4, <2>1 DEF AllKnown
<1> QED BY <1>1, <1>3, <1>5 DEF AllKnown

LEMMA ReturnedOnce ==
  ASSUME MessagingTypeOK, OnePlace, AllKnown, NEW c \in Consumers, place[c] = "handling",
         message[c] \in Message, Ack(c) \/ Retry(c), UNCHANGED <<follows, parked, seen>>
  PROVE  /\ OnePlace' /\ AllKnown' /\ InQ' \subseteq InQ \cup {message[c].event}
         /\ Ack(c) => InQ' = InQ
<1>0. Return(c) /\ UNCHANGED <<sends, queue>>
  BY RetryReturns DEF Ack
<1>1. /\ \A d \in Consumers : place'[d] = "handling" => d # c /\ place[d] = "handling"
      /\ \A d \in Consumers \ {c} : message'[d] = message[d]
  BY <1>0 DEF Return, MessagingTypeOK
<1>2. \A id : Known(id)' = Known(id)
  BY <1>0 DEF Known
<1>3. CASE retries' = retries
  <2>1. InQ' = InQ
    BY <1>0, <1>3 DEF InQ
  <2> QED BY <1>0, <1>1, <1>2, <1>3, <2>1 DEF OnePlace, AllKnown
<1>4. CASE retries' # retries
  <2> DEFINE m == message[c]
             n == [m EXCEPT !.retry_count = @ + 1]
  <2>1. Retry(c) /\ ~Ack(c) /\ m.retry_count # MaxRetries /\ retries' = Append(retries, n)
    BY <1>4 DEF Retry, Ack
  <2>2. n \in Message /\ n.event = m.event /\ IdOf(n) = IdOf(m)
    BY <2>1, MessagingAssumption DEF Message, IdOf
  <2> HIDE DEF n
  <2>3. /\ EventsOf(retries') = EventsOf(retries) \cup {m.event}
        /\ IdsOf(retries') = IdsOf(retries) \cup {IdOf(m)}
        /\ Distinct(retries) /\ m.event \notin EventsOf(retries) => Distinct(retries')
    BY <2>1, <2>2, EventsOfAppend, AppendedOnce DEF MessagingTypeOK
  <2>4. InQ' = InQ \cup {m.event}
    BY <1>0, <2>3 DEF InQ
  <2>5. OnePlace'
    BY <1>0, <1>1, <2>3, <2>4 DEF OnePlace, InQ
  <2>6. AllKnown'
    BY <1>0, <1>1, <1>2, <2>3 DEF AllKnown
  <2> QED BY <2>1, <2>4, <2>5, <2>6
<1> QED BY <1>3, <1>4

On(t, i, f) == t \in Tasks /\ i \in DOMAIN stack[t] /\ f = stack[t][i]
Waits(f, e) == \E id \in f.waiters : id.event = e
Pending(f) == f.at \in {"parking", "evaluating"}
Parked(e) == \E p \in parked : p.event = e
Loop(t, i) == t = Sweeper /\ i = 1

\* A call lies on one that handles the event it follows, and waits for it to return.
Below(t, i, f) ==
  \E j, g : /\ On(t, j, g) /\ j < i /\ g.at = "waiters"
            /\ g.id.event = follows[f.id.event] /\ Known(g.id)

NestedAt(t, i, f) ==
  /\ Loop(t, i) => f.id.event = None /\ f.waiters \subseteq old
  /\ ~Loop(t, i) =>
       /\ Known(f.id) /\ \A id \in f.waiters : follows[id.event] = f.id.event
       /\ t = Sweeper => f.id.event \in Overdue
  /\ \A id \in f.waiters : Known(id) /\ (t = Sweeper => id.event \in Overdue)
  /\ i # 1 => f.at # "parking" /\ (t # Sweeper => Below(t, i, f))

Nested == \A t, i, f : On(t, i, f) => NestedAt(t, i, f)

Counted == \A e \in Events : handled[e] > 0 <=> e \in seen

\* An event is with its message, then perhaps in the table, then with the one call of
\* the event it follows, and then in a call of its own.
Alone(e) ==
  /\ handled[e] <= 1
  /\ \A t, i, f, u, j, g : On(t, i, f) /\ On(u, j, g) /\ f.id.event = e /\ g.id.event = e
       => t = u /\ i = j
  /\ \A t, i, f : On(t, i, f) /\ f.id.event = e /\ Pending(f) =>
       e \notin seen /\ (i = 1 => ~Parked(e))
  /\ \A t, i, f : On(t, i, f) /\ Waits(f, e) =>
       e \notin seen /\ \A u, j, g : On(u, j, g) => g.id.event # e
  /\ \A t, i, f : On(t, i, f) /\ f.id.event = follows[e] /\ f.at = "reading" /\ Parked(e)
       => e \notin seen
  /\ e \in InQ /\ e \notin seen =>
       ~Parked(e) /\ \A t, i, f : On(t, i, f) => f.id.event # e /\ ~Waits(f, e)
  /\ Parked(e) /\ follows[e] \notin seen => e \notin seen

Once ==
  /\ OnePlace /\ AllKnown /\ Nested /\ Counted
  /\ \A e \in DOMAIN follows \ Overdue : Alone(e)

LEMMA OverdueIs ==
  ASSUME DOMAIN follows \subseteq Events
  PROVE  /\ \A id \in old : id.event \in Events => id.event \in Overdue
         /\ \A e \in DOMAIN follows : follows[e] \in Overdue => e \in Overdue
         /\ follows' = follows /\ old \subseteq old' => Overdue \subseteq Overdue'
<1>1. \A id \in old : id.event \in Events => id.event \in Overdue
  BY DEF Overdue
<1>2. \A e \in DOMAIN follows : follows[e] \in Overdue => e \in Overdue
  BY DEF Overdue
<1>3. ASSUME follows' = follows, old \subseteq old', NEW e \in Overdue
      PROVE  e \in Overdue'
  BY <1>3 DEF Overdue
<1> QED BY <1>1, <1>2, <1>3

LEMMA OnIs ==
  ASSUME Inv, NEW t, NEW i, NEW f, On(t, i, f)
  PROVE  /\ i \in Nat \ {0} /\ f \in Frames /\ FrameFine(t, i, f) /\ t \in Tasks
         /\ i <= Len(stack[t]) /\ Len(stack[t]) \in Nat
         /\ i < Len(stack[t]) => f.at = "waiters"
         /\ \A g : On(t, i, g) => g = f
<1>1. stack[t] \in Seq(Frames) /\ StackFine(t) /\ i \in 1..Len(stack[t]) /\ t \in Tasks
  BY LenProperties DEF Inv, Types, On
<1>2. i \in Nat \ {0} /\ i <= Len(stack[t]) /\ Len(stack[t]) \in Nat
  BY <1>1, LenProperties
<1> QED BY <1>1, <1>2, ElementOfSeq DEF On, StackFine

\* What stays of the calls of a task from which the upper ones are taken.
Rest(t, k, u, i, f) == On(u, i, f) /\ (u = t => i < k)

\* The call of a task that is at work.
LEMMA OnTop ==
  ASSUME Inv, NEW t \in Tasks, stack[t] # <<>>, NEW n, n = Len(stack[t])
  PROVE  On(t, n, Top(t)) /\ n \in Nat \ {0}
<1>1. stack[t] \in Seq(Frames)
  BY DEF Inv, Types
<1>2. n \in Nat \ {0} /\ DOMAIN stack[t] = 1..n
  BY <1>1, EmptySeq, LenProperties
<1> QED BY <1>2 DEF On, Top

LEMMA OnPop ==
  ASSUME Inv, NEW t \in Tasks, stack[t] # <<>>, NEW n, n = Len(stack[t]),
         stack' = [stack EXCEPT ![t] = Under(t)]
  PROVE  \A u, i, f : On(u, i, f)' <=> Rest(t, n, u, i, f)
<1>1. stack[t] \in Seq(Frames) /\ stack \in [Tasks -> Seq(Frames)]
  BY DEF Inv, Types
<1>2. /\ n \in Nat \ {0} /\ DOMAIN Under(t) = 1..(n - 1) /\ DOMAIN stack[t] = 1..n
      /\ \A i \in 1..(n - 1) : Under(t)[i] = stack[t][i]
  BY <1>1, UnderIs DEF Under
<1>3. \A i : i \in 1..(n - 1) <=> i \in 1..n /\ i < n
  BY <1>2
<1>4. stack'[t] = Under(t) /\ \A u \in Tasks : u # t => stack'[u] = stack[u]
  BY <1>1
<1> QED BY <1>2, <1>3, <1>4 DEF On, Rest

LEMMA OnClear ==
  ASSUME Inv, NEW t \in Tasks, stack' = [stack EXCEPT ![t] = <<>>]
  PROVE  \A u, i, f : On(u, i, f)' <=> Rest(t, 1, u, i, f)
<1>1. stack \in [Tasks -> Seq(Frames)]
  BY DEF Inv, Types
<1>2. \A u, i, f : On(u, i, f) => i \in Nat \ {0}
  BY OnIs
<1>3. \A i \in Nat \ {0} : ~(i < 1)
  OBVIOUS
<1>4. /\ stack'[t] = <<>> /\ \A u \in Tasks : u # t => stack'[u] = stack[u]
      /\ DOMAIN <<>> = {}
  BY <1>1
<1> QED BY <1>2, <1>3, <1>4 DEF On, Rest

LEMMA OnStart ==
  ASSUME Inv, NEW t \in Tasks, stack[t] = <<>>, NEW h, stack' = [stack EXCEPT ![t] = <<h>>]
  PROVE  \A u, i, f : On(u, i, f)' <=> On(u, i, f) \/ (u = t /\ i = 1 /\ f = h)
<1>1. stack \in [Tasks -> Seq(Frames)]
  BY DEF Inv, Types
<1>2. /\ stack'[t] = <<h>> /\ \A u \in Tasks : u # t => stack'[u] = stack[u]
      /\ DOMAIN <<h>> = {1} /\ <<h>>[1] = h
  BY <1>1
<1>3. DOMAIN stack[t] = {}
  OBVIOUS
<1> QED BY <1>2, <1>3 DEF On

LEMMA OnTurn ==
  ASSUME Inv, NEW t \in Tasks, stack[t] # <<>>, NEW g \in Frames,
         stack' = [stack EXCEPT ![t] = Append(Under(t), g)]
  PROVE  \A u, i, f : On(u, i, f)' <=>
           Rest(t, Len(stack[t]), u, i, f) \/ (u = t /\ i = Len(stack[t]) /\ f = g)
<1>0. PICK n, s : n = Len(stack[t]) /\ s = Append(Under(t), g)
  OBVIOUS
<1>1. stack[t] \in Seq(Frames) /\ stack \in [Tasks -> Seq(Frames)]
  BY DEF Inv, Types
<1>2. /\ n \in Nat \ {0} /\ Len(Under(t)) = n - 1 /\ Under(t) \in Seq(Frames)
      /\ DOMAIN stack[t] = 1..n
      /\ \A i \in 1..(n - 1) : Under(t)[i] = stack[t][i]
  BY <1>0, <1>1, UnderIs DEF Under
<1>3. /\ DOMAIN s = 1..n /\ s[n] = g
      /\ \A i \in 1..(n - 1) : s[i] = stack[t][i]
  BY <1>0, <1>2, AppendIs
<1>4. /\ \A i : i \in 1..(n - 1) <=> i \in 1..n /\ i < n
      /\ \A i : i \in 1..n <=> i = n \/ i \in 1..(n - 1)
      /\ n \notin 1..(n - 1)
  BY <1>2
<1>5. stack'[t] = s /\ \A u \in Tasks : u # t => stack'[u] = stack[u]
  BY <1>0, <1>1
<1> QED BY <1>0, <1>2, <1>3, <1>4, <1>5 DEF On, Rest

LEMMA OnGrow ==
  ASSUME Inv, NEW t \in Tasks, stack[t] # <<>>, NEW g \in Frames, NEW h \in Frames,
         stack' = [stack EXCEPT ![t] = Append(Append(Under(t), g), h)]
  PROVE  \A u, i, f : On(u, i, f)' <=>
           (Rest(t, Len(stack[t]), u, i, f) \/ (u = t /\ i = Len(stack[t]) /\ f = g))
             \/ (u = t /\ i = Len(stack[t]) + 1 /\ f = h)
<1>0. PICK n, v, s : /\ n = Len(stack[t]) /\ v = Append(Under(t), g) /\ s = Append(v, h)
  OBVIOUS
<1>1. stack[t] \in Seq(Frames) /\ stack \in [Tasks -> Seq(Frames)]
  BY DEF Inv, Types
<1>2. /\ n \in Nat \ {0} /\ Len(Under(t)) = n - 1 /\ Under(t) \in Seq(Frames)
      /\ DOMAIN stack[t] = 1..n
      /\ \A i \in 1..(n - 1) : Under(t)[i] = stack[t][i]
  BY <1>0, <1>1, UnderIs DEF Under
<1>3. /\ v \in Seq(Frames) /\ Len(v) = n /\ v[n] = g
      /\ \A i \in 1..(n - 1) : v[i] = stack[t][i]
  BY <1>0, <1>2, AppendIs
<1>4. /\ DOMAIN s = 1..(n + 1) /\ s[n + 1] = h
      /\ \A i \in 1..n : s[i] = v[i]
  BY <1>0, <1>2, <1>3, AppendIs
<1>5. /\ \A i : i \in 1..(n - 1) <=> i \in 1..n /\ i < n
      /\ \A i : i \in 1..(n + 1) <=> i = n + 1 \/ i = n \/ i \in 1..(n - 1)
      /\ n \notin 1..(n - 1) /\ n + 1 \notin 1..n /\ n + 1 # n
      /\ n \in 1..n /\ 1..(n - 1) \subseteq 1..n /\ n + 1 \notin 1..(n - 1)
  BY <1>2
<1>6. stack'[t] = s /\ \A u \in Tasks : u # t => stack'[u] = stack[u]
  BY <1>0, <1>1
<1>7. \A i \in 1..(n - 1) : s[i] = stack[t][i]
  BY <1>3, <1>4, <1>5
<1>8. s[n] = g /\ s[n + 1] = h
  BY <1>3, <1>4, <1>5
<1>9. n \in Nat \ {0} /\ DOMAIN stack[t] = 1..n
  BY <1>2
<1> SUFFICES ASSUME NEW u, NEW i, NEW f
             PROVE  On(u, i, f)' <=> (Rest(t, n, u, i, f) \/ (u = t /\ i = n /\ f = g))
                                       \/ (u = t /\ i = n + 1 /\ f = h)
  BY <1>0
<1>10. CASE u # t
  BY <1>6, <1>10 DEF On, Rest
<1>11. CASE u = t
  <2>1. On(u, i, f)' <=> i \in 1..(n + 1) /\ f = s[i]
    BY <1>4, <1>6, <1>11 DEF On
  <2>2. Rest(t, n, u, i, f) <=> i \in 1..(n - 1) /\ f = s[i]
    BY <1>5, <1>7, <1>9, <1>11 DEF On, Rest
  <2> QED BY <1>5, <1>8, <1>11, <2>1, <2>2
<1> QED BY <1>10, <1>11

LEMMA NestedStep ==
  ASSUME Inv, Nested, DOMAIN follows \subseteq Events, NEW t, NEW k \in Nat,
         follows' = follows, old \subseteq old', \A id : Known(id) => Known(id)',
         \A u, i, f : On(u, i, f)' => Rest(t, k, u, i, f) \/ NestedAt(u, i, f)',
         \A u, i, f : Rest(t, k, u, i, f) => On(u, i, f)'
  PROVE  Nested'
<1> SUFFICES ASSUME NEW u, NEW i, NEW f, Rest(t, k, u, i, f)
             PROVE  NestedAt(u, i, f)'
  BY DEF Nested
<1>1. On(u, i, f) /\ (u = t => i < k) /\ NestedAt(u, i, f) /\ i \in Nat
  BY OnIs DEF Rest, Nested
<1>2. Overdue \subseteq Overdue'
  BY OverdueIs
<1>3. ASSUME Below(u, i, f)
      PROVE  Below(u, i, f)'
  <2>1. PICK j, g : /\ On(u, j, g) /\ j < i /\ g.at = "waiters"
                    /\ g.id.event = follows[f.id.event] /\ Known(g.id)
    BY <1>3 DEF Below
  <2>2. j \in Nat
    BY <2>1, OnIs
  <2>3. Rest(t, k, u, j, g)
    BY <1>1, <2>1, <2>2 DEF Rest
  <2> QED BY <2>1, <2>3 DEF Below
<1> QED BY <1>1, <1>2, <1>3 DEF NestedAt, Loop

\* What a call knows of its event.
LEMMA CallIs ==
  ASSUME Inv, Once, NEW t, NEW i, NEW f, On(t, i, f)
  PROVE  /\ ~Loop(t, i) => /\ f.id.event \in DOMAIN follows /\ f.id.event # None
                           /\ f.at \in {"reading", "waiters"} => f.id.event \in seen
         /\ Loop(t, i) => f.at = "waiters" /\ f.id.event = None
         /\ i = 1 /\ t # Sweeper => /\ t \in Consumers /\ place[t] = "handling"
                                    /\ f.id.event = message[t].event
<1>1. /\ NestedAt(t, i, f) /\ FrameFine(t, i, f) /\ f \in Frames /\ t \in Tasks
      /\ f.at \in {"parking", "evaluating", "reading", "waiters"}
  BY OnIs DEF Once, Nested, Frames
<1>2. DOMAIN follows \subseteq Events /\ None \notin Events
  BY MessagingAssumption DEF Once, AllKnown
<1>3. ASSUME ~Loop(t, i)
      PROVE  /\ f.id.event \in DOMAIN follows /\ f.id.event # None
             /\ f.at \in {"reading", "waiters"} => f.id.event \in seen
  <2>1. f.id.event \in DOMAIN follows /\ f.id.event # None
    BY <1>1, <1>2, <1>3 DEF NestedAt, Known
  <2>2. f.at \in {"reading", "waiters"} => Handled(f.id.event)
    BY <1>1, <2>1 DEF FrameFine
  <2> QED BY <1>2, <2>1, <2>2 DEF Handled, Once, Counted
<1>4. ASSUME Loop(t, i)
      PROVE  f.at = "waiters" /\ f.id.event = None
  BY <1>1, <1>4 DEF NestedAt, FrameFine
<1>5. ASSUME i = 1, t # Sweeper
      PROVE  t \in Consumers /\ place[t] = "handling" /\ f.id.event = message[t].event
  <2>1. t \in Consumers /\ f = stack[t][1] /\ stack[t] # <<>>
    BY <1>1, <1>5 DEF On, Tasks
  <2>2. place[t] = "handling" /\ stack[t][1].id = IdOf(message[t])
    BY <2>1 DEF Inv, HandFine
  <2> QED BY <2>1, <2>2 DEF IdOf
<1> QED BY <1>3, <1>4, <1>5

\* The event that one follows is alone as well, if it is handled.
LEMMA LeaderAlone ==
  ASSUME Once, NEW e \in DOMAIN follows \ Overdue, follows[e] \in DOMAIN follows
  PROVE  follows[e] \notin Overdue /\ Alone(follows[e])
BY OverdueIs DEF Once, AllKnown

\* A call of an event that is read as a waiter does not exist.
LEMMA NoCallYet ==
  ASSUME Inv, Once, NEW e \in DOMAIN follows \ Overdue, Parked(e),
         NEW t, NEW n, NEW g, On(t, n, g), g.at = "reading", g.id.event = follows[e],
         NEW u, NEW j, NEW f, On(u, j, f), f.id.event = e
  PROVE  FALSE
<1>1. Alone(e) /\ e \in Events /\ e # None
  BY MessagingAssumption DEF Once, AllKnown
<1>2. e \notin seen
  BY <1>1 DEF Alone
<1>3. ~Loop(u, j) /\ NestedAt(u, j, f)
  BY <1>1, CallIs DEF Once, Nested
<1>4. ~Loop(t, n)
  BY CallIs
<1>5. follows[e] \in DOMAIN follows
  BY <1>4, CallIs
<1>6. f.at \in {"parking", "evaluating", "reading", "waiters"}
  BY OnIs DEF Frames
<1>7. Pending(f)
  BY <1>2, <1>3, <1>6, CallIs DEF Pending
<1>8. j # 1
  BY <1>1, <1>7 DEF Alone
<1>9. u # Sweeper
  BY <1>3 DEF NestedAt
<1>10. PICK i, h : On(u, i, h) /\ h.at = "waiters" /\ h.id.event = follows[e]
  BY <1>3, <1>8, <1>9 DEF NestedAt, Below
<1>11. u = t /\ i = n
  BY <1>5, <1>10, LeaderAlone DEF Alone
<1>12. h = g
  BY <1>10, <1>11, OnIs
<1> QED BY <1>10, <1>12

\* Calls return, rows go, and no message is new but of what was evaluated.
LEMMA AloneShrinks ==
  ASSUME NEW e, Alone(e), follows' = follows, seen' = seen, handled' = handled,
         \A t, i, f : On(t, i, f)' => On(t, i, f), Parked(e)' => Parked(e),
         e \in InQ' /\ e \notin seen => e \in InQ
  PROVE  Alone(e)'
BY DEF Alone

LEMMA EmitOnce ==
  ASSUME Inv, Once, NEW e \in Events, Emit(e), calm'
  PROVE  Once'
<1>1. /\ e \in DOMAIN follows /\ Publish(e) /\ sends[e] = 0
      /\ UNCHANGED <<service, follows, seen, parked, old, stack, handled>>
  <2>1. sends[e] \in {0, 1}
    BY DEF Once, AllKnown
  <2>2. sends[e] > 0 => calm' = FALSE
    BY DEF Emit, Trouble
  <2>3. ~(sends[e] > 0)
    BY <2>2, Zenon
  <2>4. sends[e] = 0
    BY <2>1, <2>3
  <2> QED BY <2>4 DEF Emit
<1>2. OnePlace' /\ AllKnown' /\ InQ' = InQ \cup {e}
  BY <1>1, PublishedOnce DEF Once, Inv, Types
<1>3. \A id : Known(id) => Known(id)' /\ id.event # e
  BY <1>1, <1>2 DEF Known, Publish, Inv, Types, MessagingTypeOK, AllKnown
<1>4. \A t, i, f : On(t, i, f)' <=> On(t, i, f)
  BY <1>1 DEF On
<1>5. Nested'
  <2>2. ASSUME NEW t, NEW i, NEW f, On(t, i, f)
        PROVE  NestedAt(t, i, f)'
    <3>1. Overdue' = Overdue
      BY <1>1 DEF Overdue
    <3>2. Below(t, i, f) => Below(t, i, f)'
      BY <1>1, <1>3, <1>4 DEF Below
    <3> QED BY <1>1, <1>3, <2>2, <3>1, <3>2 DEF NestedAt, Loop, Once, Nested
  <2> QED BY <1>4, <2>2 DEF Nested
<1>6. Counted'
  BY <1>1 DEF Once, Counted
<1>7. ASSUME NEW d \in DOMAIN follows \ Overdue
      PROVE  Alone(d)'
  <2>1. Alone(d) /\ (Parked(d)' <=> Parked(d))
    BY <1>1 DEF Once, Parked
  <2>2. CASE d # e
    <3>1. d \in InQ' /\ d \notin seen => d \in InQ
      BY <1>2, <2>2
    <3> QED BY <1>1, <1>4, <2>1, <3>1, AloneShrinks
  <2>3. CASE d = e
    <3>1. ~Parked(e)
      BY <1>3 DEF Once, AllKnown, Parked
    <3>2. \A t, i, f : On(t, i, f) => f.id.event # e /\ ~Waits(f, e)
      <4> SUFFICES ASSUME NEW t, NEW i, NEW f, On(t, i, f)
                   PROVE  f.id.event # e /\ ~Waits(f, e)
        OBVIOUS
      <4>1. NestedAt(t, i, f) /\ e # None
        BY MessagingAssumption DEF Once, Nested
      <4> QED BY <1>3, <4>1 DEF NestedAt, Waits
    <3> QED BY <1>1, <1>4, <2>1, <2>3, <3>1, <3>2 DEF Alone
  <2> QED BY <2>2, <2>3
<1>8. Overdue' = Overdue
  BY <1>1 DEF Overdue
<1> QED BY <1>1, <1>2, <1>5, <1>6, <1>7, <1>8 DEF Once

\* A step that leaves the calls as they are, but for those that it ends.
LEMMA EndingOnce ==
  ASSUME Inv, Once, OnePlace', AllKnown', NEW t, NEW k \in Nat,
         UNCHANGED <<follows, seen, handled>>, old \subseteq old', sends' = sends,
         \A u, i, f : On(u, i, f)' <=> Rest(t, k, u, i, f),
         \A e \in DOMAIN follows \ Overdue :
           (Parked(e)' => Parked(e)) /\ (e \in InQ' /\ e \notin seen => e \in InQ)
  PROVE  Once'
<1>1. DOMAIN follows \subseteq Events
  BY DEF Once, AllKnown
<1>2. \A id : Known(id) => Known(id)'
  BY DEF Known
<1>3. Nested'
  BY <1>1, <1>2, NestedStep DEF Once
<1>4. Counted'
  BY DEF Once, Counted
<1>5. Overdue \subseteq Overdue'
  BY <1>1, OverdueIs
<1>6. ASSUME NEW e \in DOMAIN follows \ Overdue
      PROVE  Alone(e)'
  BY AloneShrinks DEF Once, Rest
<1> QED BY <1>3, <1>4, <1>5, <1>6 DEF Once

LEMMA StartOnce ==
  ASSUME Inv, Once, NEW c \in Consumers, StartEvaluation(c)
  PROVE  Once'
<1>1. /\ Take(c) /\ place[c] # "handling"
      /\ UNCHANGED <<service, follows, seen, parked, old, handled>>
  BY TakeMoves DEF StartEvaluation, Inv, Types
<1>2. PICK m, e : m = IdOf(message'[c]) /\ e = m.event
  OBVIOUS
<1>3. /\ OnePlace' /\ AllKnown' /\ InQ' \subseteq InQ /\ e \in InQ /\ e \notin InQ'
      /\ Known(m) /\ sends' = sends /\ e = message'[c].event /\ m \in Copy
  <2>1. message'[c] \in Message /\ sends' = sends
    BY <1>1, TakeMoves DEF Inv, Types
  <2>2. m \in Copy /\ e = message'[c].event
    BY <1>2, <2>1, MessageIs
  <2> QED BY <1>1, <1>2, <2>1, <2>2, TakenIsOne DEF Once, Inv, Types
<1>4. stack[c] = <<>> /\ c \in Tasks /\ c # Sweeper
  BY <1>1, ServiceAssumption DEF Inv, HandFine, Tasks, Sweeper
<1>5. CASE e \in seen
  <2>1. stack' = [stack EXCEPT ![c] = <<>>]
    BY <1>3, <1>5 DEF StartEvaluation
  <2>2. \A u, i, f : On(u, i, f)' <=> Rest(c, 1, u, i, f)
    BY <1>4, <2>1, OnClear
  <2>3. \A d : Parked(d)' => Parked(d)
    BY <1>1 DEF Parked
  <2> QED BY <1>1, <1>3, <2>2, <2>3, EndingOnce
<1>6. CASE e \notin seen
  <2>1. PICK h : h = Entry(m)
    OBVIOUS
  <2>2. stack' = [stack EXCEPT ![c] = <<h>>]
    BY <1>2, <1>3, <1>6, <2>1 DEF StartEvaluation
  <2>3. h.id = m /\ h.waiters = {} /\ h.at \in {"parking", "evaluating"}
    BY <2>1 DEF Entry, Frame
  <2>4. \A u, i, f : On(u, i, f)' <=> On(u, i, f) \/ (u = c /\ i = 1 /\ f = h)
    BY <1>4, <2>2, OnStart
  <2>5. Nested'
    <3>1. NestedAt(c, 1, h)'
      BY <1>1, <1>3, <1>4, <2>3 DEF NestedAt, Loop, Known
    <3>2. \A id : Known(id) => Known(id)'
      BY <1>1, <1>3 DEF Known
    <3>3. \A i, f : ~On(c, i, f)
      BY <1>4 DEF On
    <3>4. \A u, i, f : On(u, i, f)' => Rest(c, 1, u, i, f) \/ NestedAt(u, i, f)'
      BY <2>4, <3>1, <3>3 DEF Rest
    <3>5. \A u, i, f : Rest(c, 1, u, i, f) => On(u, i, f)'
      BY <2>4 DEF Rest
    <3>6. DOMAIN follows \subseteq Events /\ Nested
      BY DEF Once, AllKnown
    <3> QED BY <1>1, <3>2, <3>4, <3>5, <3>6, NestedStep
  <2>6. ASSUME NEW d \in DOMAIN follows \ Overdue
        PROVE  Alone(d)'
    <3>1. Alone(d) /\ (Parked(d)' <=> Parked(d))
      BY <1>1 DEF Once, Parked
    <3>2. CASE d = e
      <4>1. ~Parked(e) /\ \A t, i, f : On(t, i, f) => f.id.event # e /\ ~Waits(f, e)
        BY <1>3, <1>6, <3>1, <3>2 DEF Alone
      <4>2. ~Waits(h, e) /\ h.at # "reading"
        BY <2>3 DEF Waits
      <4> QED BY <1>1, <1>3, <1>6, <2>4, <3>1, <3>2, <4>1, <4>2 DEF Alone
    <3>3. CASE d # e
      <4>1. ~Waits(h, d) /\ h.at # "reading" /\ h.id.event # d
        BY <1>2, <2>3, <3>3 DEF Waits
      <4> QED BY <1>1, <1>3, <2>4, <3>1, <3>3, <4>1 DEF Alone
    <3> QED BY <3>2, <3>3
  <2>7. Counted' /\ Overdue' = Overdue
    BY <1>1 DEF Once, Counted, Overdue
  <2> QED BY <1>1, <1>3, <2>5, <2>6, <2>7 DEF Once
<1> QED BY <1>5, <1>6

\* A task is at work on the message it took, or on one that it read for a follower.
LEMMA ParkOnce ==
  ASSUME Inv, Once, NEW c \in Consumers, Park(c)
  PROVE  Once'
<1>1. PICK n, T, x : n = Len(stack[c]) /\ T = Top(c) /\ x = T.id.event
  OBVIOUS
<1>2. /\ stack[c] # <<>> /\ T.at = "parking" /\ c \in Tasks /\ c # Sweeper
      /\ UNCHANGED <<service, follows, seen, handled, old>>
  BY <1>1, ServiceAssumption DEF Park, At, Tasks, Sweeper
<1>3. On(c, n, T)
  BY <1>1, <1>2, OnTop
<1>4. NestedAt(c, n, T)
  BY <1>3 DEF Once, Nested
<1>5. n = 1 /\ Known(T.id) /\ x = message[c].event /\ place[c] = "handling"
  BY <1>1, <1>2, <1>3, <1>4, CallIs DEF NestedAt, Loop
<1>6. message[c] \in Message
  BY <1>5 DEF Inv, HandFine
<1>7. /\ stack' = [stack EXCEPT ![c] = <<>>]
      /\ \A u, i, f : On(u, i, f)' <=> Rest(c, 1, u, i, f)
  <2>1. stack' = [stack EXCEPT ![c] = <<>>]
    BY DEF Park, Raised
  <2> QED BY <1>2, <2>1, OnClear
<1>8. x \in DOMAIN follows \ Overdue => x \notin seen /\ ~Parked(x) /\ Alone(x)
  BY <1>1, <1>2, <1>3, <1>5 DEF Once, Alone, Pending
<1>9. CASE Parked(x)
  <2>1. Raised(c) /\ parked' = parked
    BY <1>1, <1>9 DEF Park, Parked
  <2>2. Retry(c)
    BY <1>2, <2>1 DEF Raised
  <2>3. OnePlace' /\ AllKnown' /\ InQ' \subseteq InQ \cup {x} /\ sends' = sends
    BY <1>2, <1>5, <1>6, <2>1, <2>2, ReturnedOnce, RetryReturns DEF Once, Inv, Types
  <2>4. \A e \in DOMAIN follows \ Overdue :
          (Parked(e)' => Parked(e)) /\ (e \in InQ' /\ e \notin seen => e \in InQ)
    BY <1>8, <1>9, <2>1, <2>3 DEF Parked
  <2> QED BY <1>2, <1>7, <2>3, <2>4, EndingOnce
<1>10. CASE ~Parked(x)
  <2>1. parked' = parked \cup {T.id} /\ UNCHANGED <<sends, queue, retries, place, message>>
    BY <1>1, <1>10 DEF Park, Parked, messagingVars
  <2>2. OnePlace' /\ InQ' = InQ
    BY <2>1 DEF Once, OnePlace, InQ
  <2>3. \A id : Known(id)' <=> Known(id)
    BY <1>2, <2>1 DEF Known
  <2>4. AllKnown'
    BY <1>2, <1>5, <2>1, <2>3 DEF Once, AllKnown
  <2>5. Nested'
    BY <1>2, <1>7, <2>3, NestedStep DEF Once, AllKnown
  <2>6. ASSUME NEW e \in DOMAIN follows \ Overdue
        PROVE  Alone(e)'
    <3>1. CASE e # x
      <4>1. Parked(e)' => Parked(e)
        BY <1>1, <2>1, <3>1 DEF Parked
      <4> QED BY <1>2, <1>7, <2>2, <4>1, AloneShrinks DEF Once, Rest
    <3>2. CASE e = x
      <4>1. x \notin InQ
        BY <1>1, <1>3, <1>8, <3>2 DEF Alone
      <4>2. \A t, i, f : On(t, i, f)' => f.id.event # x
        <5> SUFFICES ASSUME NEW t, NEW i, NEW f, On(t, i, f), t = c => i < 1
                     PROVE  f.id.event # x
          BY <1>7 DEF Rest
        <5>1. f.id.event = x => t = c /\ i = n
          BY <1>1, <1>3, <1>8, <3>2 DEF Alone
        <5> QED BY <1>5, <5>1
      <4>3. \A t, i, f : On(t, i, f)' => On(t, i, f)
        BY <1>7 DEF Rest
      <4> QED BY <1>1, <1>2, <1>3, <1>8, <2>2, <3>2, <4>1, <4>2, <4>3 DEF Alone
    <3> QED BY <3>1, <3>2
  <2>7. Counted' /\ Overdue' = Overdue
    BY <1>2 DEF Once, Counted, Overdue
  <2> QED BY <1>2, <2>2, <2>4, <2>5, <2>6, <2>7 DEF Once
<1> QED BY <1>9, <1>10

LEMMA EvaluateOnce ==
  ASSUME Inv, Once, NEW t \in Tasks, Evaluate(t)
  PROVE  Once'
<1>1. PICK n, T, x, g : /\ n = Len(stack[t]) /\ T = Top(t) /\ x = T.id.event
                        /\ g = Frame(T.id, "reading")
  OBVIOUS
<1>2. /\ stack[t] # <<>> /\ T.at = "evaluating"
      /\ handled' = [handled EXCEPT ![x] = @ + 1] /\ seen' = seen \cup {x}
      /\ stack' = [stack EXCEPT ![t] = Append(Under(t), g)]
      /\ UNCHANGED <<service, follows, parked, old>>
      /\ UNCHANGED <<sends, queue, retries, place, message>>
  BY <1>1 DEF Evaluate, At, messagingVars
<1>3. On(t, n, T) /\ n \in Nat \ {0} /\ T \in Frames /\ NestedAt(t, n, T)
  BY <1>1, <1>2, OnTop, OnIs DEF Once, Nested
<1>4. ~Loop(t, n) /\ x \in DOMAIN follows /\ x \in Events /\ Known(T.id)
  BY <1>1, <1>2, <1>3, CallIs DEF NestedAt, Once, AllKnown
<1>5. g \in Frames /\ g.id = T.id /\ g.at = "reading" /\ g.waiters = {}
  BY <1>1, <1>3 DEF Frame, Frames
<1>6. \A u, i, f : On(u, i, f)' <=> Rest(t, n, u, i, f) \/ (u = t /\ i = n /\ f = g)
  <2>1. \A u, i, f : On(u, i, f)' <=>
          Rest(t, Len(stack[t]), u, i, f) \/ (u = t /\ i = Len(stack[t]) /\ f = g)
    BY <1>2, <1>5, OnTurn
  <2> QED BY <1>1, <2>1
<1>7. \A id : Known(id)' <=> Known(id)
  BY <1>2 DEF Known
<1>8. OnePlace' /\ AllKnown' /\ InQ' = InQ /\ Overdue' = Overdue
  <2>1. OnePlace' /\ InQ' = InQ /\ Overdue' = Overdue
    BY <1>2 DEF Once, OnePlace, InQ, Overdue
  <2>2. AllKnown'
    BY <1>1, <1>2, <1>4, <1>7 DEF Once, AllKnown, Known
  <2> QED BY <2>1, <2>2
<1>9. \A u, i, f : Rest(t, n, u, i, f) => On(u, i, f)'
  BY <1>6
<1>10. ASSUME Below(t, n, T), t # Sweeper
       PROVE  Below(t, n, g)'
  <2>1. PICK j, h : /\ On(t, j, h) /\ j < n /\ h.at = "waiters"
                    /\ h.id.event = follows[T.id.event] /\ Known(h.id)
    BY <1>10 DEF Below
  <2>2. On(t, j, h)'
    BY <1>9, <2>1 DEF Rest
  <2> QED BY <1>2, <1>5, <1>7, <2>1, <2>2 DEF Below
<1>11. Nested'
  <2>1. NestedAt(t, n, g)'
    BY <1>2, <1>3, <1>4, <1>5, <1>7, <1>8, <1>10 DEF NestedAt, Loop
  <2>2. DOMAIN follows \subseteq Events /\ Nested
    BY DEF Once, AllKnown
  <2>3. \A u, i, f : On(u, i, f)' => Rest(t, n, u, i, f) \/ NestedAt(u, i, f)'
    BY <1>6, <2>1
  <2> QED BY <1>2, <1>3, <1>7, <1>9, <2>2, <2>3, NestedStep
<1>12. handled \in [Events -> Nat]
  BY DEF Inv, Types
<1>13. Counted'
  BY <1>2, <1>4, <1>12 DEF Once, Counted
<1>14. x \notin Overdue => x \notin seen /\ Alone(x) /\ handled[x] = 0
  <2> SUFFICES ASSUME x \notin Overdue PROVE x \notin seen /\ Alone(x) /\ handled[x] = 0
    OBVIOUS
  <2>1. Alone(x)
    BY <1>4 DEF Once
  <2>2. x \notin seen
    BY <1>1, <1>2, <1>3, <2>1 DEF Alone, Pending
  <2> QED BY <1>4, <1>12, <2>1, <2>2 DEF Once, Counted
<1>15. ASSUME NEW e \in DOMAIN follows \ Overdue, e # x
       PROVE  Alone(e)'
  <2>1. Alone(e) /\ (Parked(e)' <=> Parked(e)) /\ handled'[e] = handled[e] /\ e \in Events
    BY <1>2, <1>12, <1>15 DEF Once, Parked, AllKnown
  <2>2. x = follows[e] /\ Parked(e) => e \notin seen
    BY <1>4, <1>14, <2>1, LeaderAlone DEF Alone
  <2>3. ~Waits(g, e) /\ g.id.event = x /\ ~Pending(g)
    BY <1>1, <1>5 DEF Waits, Pending
  <2>4. \A u, i, f : On(u, i, f)' => On(u, i, f) \/ f = g
    BY <1>6 DEF Rest
  <2> QED BY <1>2, <1>8, <1>15, <2>1, <2>2, <2>3, <2>4 DEF Alone
<1>16. ASSUME x \notin Overdue
       PROVE  Alone(x)'
  <2>1. Alone(x) /\ x \notin seen /\ handled'[x] = 1
    BY <1>2, <1>4, <1>12, <1>14, <1>16
  <2>2. \A u, i, f : On(u, i, f)' /\ f.id.event = x => u = t /\ i = n /\ f = g
    <3> SUFFICES ASSUME NEW u, NEW i, NEW f, Rest(t, n, u, i, f), f.id.event = x
                 PROVE  FALSE
      BY <1>6
    <3>1. u = t /\ i = n
      BY <1>1, <1>3, <2>1 DEF Alone, Rest
    <3> QED BY <1>3, <3>1 DEF Rest
  <2>3. \A u, i, f : On(u, i, f)' => ~Waits(f, x)
    <3>1. ~Waits(g, x)
      BY <1>5 DEF Waits
    <3>2. \A u, i, f : On(u, i, f) => ~Waits(f, x)
      BY <1>1, <1>3, <2>1 DEF Alone
    <3> QED BY <1>6, <3>1, <3>2 DEF Rest
  <2>4. n = 1 => ~Parked(x)
    BY <1>1, <1>2, <1>3, <2>1 DEF Alone, Pending
  <2>5. ASSUME n # 1
        PROVE  /\ follows[x] \in seen
               /\ \A u, i, f : On(u, i, f)' /\ f.id.event = follows[x] => f.at # "reading"
    <3>1. t # Sweeper
      BY <1>1, <1>3, <1>4, <1>16 DEF NestedAt
    <3>2. PICK j, h : /\ On(t, j, h) /\ j < n /\ h.at = "waiters"
                      /\ h.id.event = follows[x] /\ Known(h.id)
      BY <1>1, <1>3, <2>5, <3>1 DEF NestedAt, Below
    <3>3. follows[x] \in DOMAIN follows /\ follows[x] \in seen
      BY <3>1, <3>2, CallIs DEF Loop
    <3>4. Alone(follows[x])
      BY <1>4, <1>16, <3>3, LeaderAlone
    <3>5. j \in Nat /\ ~(n < n)
      BY <1>3, <3>2, OnIs
    <3>6. follows[x] # x
      BY <1>1, <1>3, <2>1, <3>2, <3>5 DEF Alone
    <3>7. ASSUME NEW u, NEW i, NEW f, On(u, i, f), f.id.event = follows[x]
          PROVE  f.at # "reading"
      <4>1. u = t /\ i = j
        BY <3>2, <3>4, <3>7 DEF Alone
      <4>2. f = h
        BY <3>2, <3>7, <4>1, OnIs
      <4> QED BY <3>2, <4>2
    <3>8. g.id.event # follows[x]
      BY <1>1, <1>5, <3>6
    <3> QED BY <1>6, <3>3, <3>7, <3>8 DEF Rest
  <2>6. Parked(x)' <=> Parked(x)
    BY <1>2 DEF Parked
  <2>7. ~Pending(g)
    BY <1>5 DEF Pending
  <2>8. \A u, i, f : On(u, i, f)' /\ f.id.event = follows[x] /\ f.at = "reading"
          => ~Parked(x)
    BY <2>4, <2>5
  <2>9. Parked(x) => follows[x] \in seen
    BY <2>4, <2>5
  <2>10. x \in seen' /\ handled'[x] <= 1
    BY <1>2, <2>1
  <2> QED BY <1>2, <2>2, <2>3, <2>6, <2>7, <2>8, <2>9, <2>10 DEF Alone
<1>17. \A e \in DOMAIN follows \ Overdue : Alone(e)'
  BY <1>15, <1>16
<1> QED BY <1>2, <1>8, <1>11, <1>13, <1>17 DEF Once

\* A call reads which of the parked events follow its own.
LEMMA ReadFollowersOnce ==
  ASSUME Inv, Once, NEW t \in Tasks, ReadFollowers(t)
  PROVE  Once'
<1>1. PICK n, T, x, w, g : /\ n = Len(stack[t]) /\ T = Top(t) /\ x = T.id.event
                           /\ w = {p \in parked : follows[p.event] = x}
                           /\ g = [Frame(T.id, "waiters") EXCEPT !.waiters = w]
  OBVIOUS
<1>2. /\ stack[t] # <<>> /\ T.at = "reading"
      /\ stack' = [stack EXCEPT ![t] = Append(Under(t), g)]
      /\ UNCHANGED <<service, follows, seen, handled, parked, old>>
      /\ UNCHANGED <<sends, queue, retries, place, message>>
  BY <1>1 DEF ReadFollowers, At, messagingVars
<1>3. On(t, n, T) /\ n \in Nat \ {0} /\ T \in Frames /\ NestedAt(t, n, T)
  BY <1>1, <1>2, OnTop, OnIs DEF Once, Nested
<1>4. ~Loop(t, n) /\ x \in DOMAIN follows /\ x \in seen /\ Known(T.id)
  BY <1>1, <1>2, <1>3, CallIs DEF NestedAt
<1>5. w \subseteq parked /\ parked \subseteq Copy
  BY <1>1 DEF Inv, Types
<1>6. g \in Frames /\ g.id = T.id /\ g.at = "waiters" /\ g.waiters = w
  BY <1>1, <1>3, <1>5 DEF Frame, Frames
<1>7. \A u, i, f : On(u, i, f)' <=> Rest(t, n, u, i, f) \/ (u = t /\ i = n /\ f = g)
  <2>1. \A u, i, f : On(u, i, f)' <=>
          Rest(t, Len(stack[t]), u, i, f) \/ (u = t /\ i = Len(stack[t]) /\ f = g)
    BY <1>2, <1>6, OnTurn
  <2> QED BY <1>1, <2>1
<1>8. \A id : Known(id)' <=> Known(id)
  BY <1>2 DEF Known
<1>9. OnePlace' /\ AllKnown' /\ InQ' = InQ /\ Overdue' = Overdue /\ Counted'
  <2>1. OnePlace' /\ InQ' = InQ /\ Overdue' = Overdue /\ Counted'
    BY <1>2 DEF Once, OnePlace, InQ, Overdue, Counted
  <2>2. AllKnown'
    BY <1>2, <1>8 DEF Once, AllKnown
  <2> QED BY <2>1, <2>2
<1>10. ASSUME Below(t, n, T)
       PROVE  Below(t, n, g)'
  <2>1. PICK j, h : /\ On(t, j, h) /\ j < n /\ h.at = "waiters"
                    /\ h.id.event = follows[T.id.event] /\ Known(h.id)
    BY <1>10 DEF Below
  <2>2. On(t, j, h)'
    BY <1>7, <2>1 DEF Rest
  <2> QED BY <1>2, <1>6, <1>8, <2>1, <2>2 DEF Below
<1>11. Nested'
  <2>1. \A id \in w : Known(id) /\ follows[id.event] = x /\ id.event \in DOMAIN follows
    BY <1>1 DEF Once, AllKnown, Known
  <2>2. ASSUME t = Sweeper, NEW id \in w
        PROVE  id.event \in Overdue
    <3>1. x \in Overdue
      BY <1>1, <1>3, <1>4, <2>2 DEF NestedAt
    <3> QED BY <2>1, <3>1, OverdueIs DEF Once, AllKnown
  <2>3. NestedAt(t, n, g)'
    BY <1>1, <1>2, <1>3, <1>4, <1>6, <1>8, <1>9, <1>10, <2>1, <2>2 DEF NestedAt, Loop
  <2>4. DOMAIN follows \subseteq Events /\ Nested
    BY DEF Once, AllKnown
  <2>5. \A u, i, f : On(u, i, f)' => Rest(t, n, u, i, f) \/ NestedAt(u, i, f)'
    BY <1>7, <2>3
  <2>6. \A u, i, f : Rest(t, n, u, i, f) => On(u, i, f)'
    BY <1>7
  <2> QED BY <1>2, <1>3, <1>8, <2>4, <2>5, <2>6, NestedStep
<1>12. ASSUME NEW e \in DOMAIN follows \ Overdue
       PROVE  Alone(e)'
  <2>1. Alone(e) /\ (Parked(e)' <=> Parked(e))
    BY <1>2 DEF Once, Parked
  <2>2. \A u, i, f : On(u, i, f)' =>
          On(u, i, f) \/ (u = t /\ i = n /\ f = g)
    BY <1>7 DEF Rest
  <2>3. ASSUME Waits(g, e)
        PROVE  Parked(e) /\ e \notin seen /\ \A u, j, f : On(u, j, f) => f.id.event # e
    <3>1. Parked(e) /\ follows[e] = x
      BY <1>1, <1>6, <2>3 DEF Waits, Parked
    <3>2. e \notin seen
      BY <1>1, <1>2, <1>3, <2>1, <3>1 DEF Alone
    <3>3. \A u, j, f : On(u, j, f) => f.id.event # e
      BY <1>1, <1>2, <1>3, <3>1, NoCallYet
    <3> QED BY <3>1, <3>2, <3>3
  <2>4. \A u, i, f : On(u, i, f)' => \E h : On(u, i, h) /\ h.id = f.id
    BY <1>3, <1>6, <2>2
  <2>5. \A u, i, f : On(u, i, f)' /\ Pending(f) => On(u, i, f)
    BY <1>6, <2>2 DEF Pending
  <2>6. \A u, i, f : On(u, i, f)' /\ f.at = "reading" => On(u, i, f)
    BY <1>6, <2>2
  <2>7. \A u, i, f : On(u, i, f)' /\ Waits(f, e) =>
          e \notin seen /\ e \notin InQ /\ \A v, j, h : On(v, j, h) => h.id.event # e
    BY <2>1, <2>2, <2>3 DEF Alone
  <2>8. \A u, i, f, v, j, h :
          On(u, i, f)' /\ On(v, j, h)' /\ f.id.event = e /\ h.id.event = e => u = v /\ i = j
    BY <2>1, <2>4 DEF Alone
  <2>9. \A u, i, f : On(u, i, f)' /\ Waits(f, e) =>
          \A v, j, h : On(v, j, h)' => h.id.event # e
    BY <2>4, <2>7
  <2>10. e \in InQ /\ e \notin seen =>
           ~Parked(e) /\ \A u, i, f : On(u, i, f)' => f.id.event # e /\ ~Waits(f, e)
    BY <2>1, <2>4, <2>7 DEF Alone
  <2> QED BY <1>2, <1>9, <2>1, <2>5, <2>6, <2>7, <2>8, <2>9, <2>10 DEF Alone
<1> QED BY <1>2, <1>9, <1>11, <1>12 DEF Once

\* Its calls are over.
LEMMA FinishFrameOnce ==
  ASSUME Inv, Once, NEW t \in Tasks, FinishFrame(t)
  PROVE  Once'
<1>1. PICK n : n = Len(stack[t])
  OBVIOUS
<1>2. /\ stack[t] # <<>> /\ stack' = [stack EXCEPT ![t] = Under(t)]
      /\ parked' \subseteq parked
      /\ UNCHANGED <<service, follows, seen, handled, old>>
      /\ UNCHANGED <<sends, queue, retries, place, message>>
  BY DEF FinishFrame, At, messagingVars
<1>3. \A u, i, f : On(u, i, f)' <=> Rest(t, n, u, i, f)
  BY <1>1, <1>2, OnPop
<1>4. n \in Nat
  BY <1>1, <1>2, OnTop
<1>5. OnePlace' /\ InQ' = InQ
  BY <1>2 DEF Once, OnePlace, InQ
<1>6. AllKnown'
  <2>1. \A id : Known(id)' <=> Known(id)
    BY <1>2 DEF Known
  <2> QED BY <1>2, <2>1 DEF Once, AllKnown
<1>7. \A e : Parked(e)' => Parked(e)
  BY <1>2 DEF Parked
<1> QED BY <1>2, <1>3, <1>4, <1>5, <1>6, <1>7, EndingOnce

\* The sweep takes the rows that are too old.
LEMMA SweepOnce ==
  ASSUME Inv, Once, Sweep
  PROVE  Once'
<1>1. PICK h : h = [Frame([event |-> None, copy |-> 0], "waiters")
                      EXCEPT !.waiters = parked \cap old]
  OBVIOUS
<1>2. /\ stack[Sweeper] = <<>> /\ stack' = [stack EXCEPT ![Sweeper] = <<h>>]
      /\ parked' = parked \ old /\ Sweeper \in Tasks
      /\ UNCHANGED <<service, follows, seen, handled, old>>
      /\ UNCHANGED <<sends, queue, retries, place, message>>
  BY <1>1 DEF Sweep, messagingVars, Tasks
<1>3. h.id.event = None /\ h.at = "waiters" /\ h.waiters = parked \cap old
  BY <1>1 DEF Frame
<1>4. \A u, i, f : On(u, i, f)' <=> On(u, i, f) \/ (u = Sweeper /\ i = 1 /\ f = h)
  BY <1>2, OnStart
<1>5. \A id : Known(id)' <=> Known(id)
  BY <1>2 DEF Known
<1>6. OnePlace' /\ AllKnown' /\ InQ' = InQ /\ Overdue' = Overdue /\ Counted'
  <2>1. OnePlace' /\ InQ' = InQ /\ Overdue' = Overdue /\ Counted'
    BY <1>2 DEF Once, OnePlace, InQ, Overdue, Counted
  <2>2. AllKnown'
    BY <1>2, <1>5 DEF Once, AllKnown
  <2> QED BY <2>1, <2>2
<1>7. DOMAIN follows \subseteq Events /\ Nested /\ None \notin Events
  BY MessagingAssumption DEF Once, AllKnown
<1>8. \A id \in parked \cap old : Known(id) /\ id.event \in Overdue
  BY <1>7, OverdueIs DEF Once, AllKnown, Known
<1>9. Nested'
  <2>1. NestedAt(Sweeper, 1, h)'
    BY <1>2, <1>3, <1>5, <1>6, <1>8 DEF NestedAt, Loop
  <2>2. \A i, f : ~On(Sweeper, i, f)
    BY <1>2 DEF On
  <2>3. \A u, i, f : On(u, i, f)' => Rest(Sweeper, 1, u, i, f) \/ NestedAt(u, i, f)'
    BY <1>4, <2>1, <2>2 DEF Rest
  <2>4. \A u, i, f : Rest(Sweeper, 1, u, i, f) => On(u, i, f)'
    BY <1>4 DEF Rest
  <2> QED BY <1>2, <1>5, <1>7, <2>3, <2>4, NestedStep
<1>10. ASSUME NEW e \in DOMAIN follows \ Overdue
       PROVE  Alone(e)'
  <2>1. Alone(e) /\ (Parked(e)' => Parked(e)) /\ e # None
    BY <1>2, <1>7 DEF Once, Parked
  <2>2. h.id.event # e /\ ~Pending(h) /\ h.at # "reading" /\ ~Waits(h, e)
    BY <1>3, <1>8, <2>1 DEF Pending, Waits
  <2> QED BY <1>2, <1>4, <1>6, <2>1, <2>2 DEF Alone
<1> QED BY <1>2, <1>6, <1>9, <1>10 DEF Once

\* A handler that raises ends the calls of its task, all of which have evaluated theirs.
LEMMA RaisedOnce ==
  ASSUME Inv, Once, NEW t \in Tasks, At(t, "waiters"), Raised(t),
         UNCHANGED <<service, follows, seen, handled, parked, old>>
  PROVE  Once'
<1>1. stack[t] # <<>> /\ \A u, i, f : On(u, i, f)' <=> Rest(t, 1, u, i, f)
  <2>1. stack[t] # <<>> /\ stack' = [stack EXCEPT ![t] = <<>>]
    BY DEF At, Raised
  <2> QED BY <2>1, OnClear
<1>2. \A e : Parked(e)' => Parked(e)
  BY DEF Parked
<1>3. CASE t = Sweeper
  <2>1. UNCHANGED <<sends, queue, retries, place, message>>
    BY <1>3 DEF Raised, messagingVars
  <2>2. OnePlace' /\ InQ' = InQ
    BY <2>1 DEF Once, OnePlace, InQ
  <2>3. AllKnown'
    <3>1. \A id : Known(id)' <=> Known(id)
      BY <2>1 DEF Known
    <3> QED BY <2>1, <3>1 DEF Once, AllKnown
  <2> QED BY <1>1, <1>2, <2>1, <2>2, <2>3, EndingOnce
<1>4. CASE t # Sweeper
  <2>1. PICK n, f : n = Len(stack[t]) /\ f = stack[t][1]
    OBVIOUS
  <2>2. On(t, n, Top(t)) /\ n \in Nat \ {0}
    BY <1>1, <2>1, OnTop
  <2>3. DOMAIN stack[t] = 1..n
    BY <2>1, LenProperties DEF Inv, Types
  <2>4. On(t, 1, f)
    BY <2>1, <2>2, <2>3 DEF On
  <2>5. f.at = "waiters"
    <3>1. CASE n = 1
      BY <2>2, <2>4, <3>1, OnIs DEF At
    <3>2. CASE n # 1
      <4>1. 1 < Len(stack[t])
        BY <2>1, <2>2, <3>2
      <4> QED BY <2>4, <4>1, OnIs
    <3> QED BY <3>1, <3>2
  <2>6. t \in Consumers /\ place[t] = "handling" /\ f.id.event = message[t].event
        /\ f.id.event \in seen
    BY <1>4, <2>4, <2>5, CallIs DEF Loop
  <2>7. message[t] \in Message /\ Retry(t)
    BY <1>4, <2>6 DEF Inv, HandFine, Raised
  <2>8. OnePlace' /\ AllKnown' /\ InQ' \subseteq InQ \cup {message[t].event}
        /\ sends' = sends
    BY <2>6, <2>7, ReturnedOnce, RetryReturns DEF Once, Inv, Types
  <2>9. \A e : e \in InQ' /\ e \notin seen => e \in InQ
    BY <2>6, <2>8
  <2> QED BY <1>1, <1>2, <2>8, <2>9, EndingOnce
<1> QED BY <1>3, <1>4

LEMMA SameCopy ==
  ASSUME NEW a \in Copy, NEW b \in Copy, a.event = b.event, a.copy = b.copy
  PROVE  a = b
BY DEF Copy

\* A call handles the next event that waits for its own.
LEMMA NextWaiterOnce ==
  ASSUME Inv, Once, NEW t \in Tasks, NextWaiter(t)
  PROVE  Once'
<1>1. /\ At(t, "waiters") /\ UNCHANGED <<service, follows, seen, handled, parked, old>>
  BY DEF NextWaiter
<1>2. CASE Raised(t)
  BY <1>1, <1>2, RaisedOnce
<1>3. CASE ~Raised(t)
  <2>1. PICK id \in Top(t).waiters :
          /\ stack' = [stack EXCEPT ![t] =
               Append(Append(Under(t), [Top(t) EXCEPT !.waiters = @ \ {id}]), Entry(id))]
          /\ UNCHANGED <<sends, queue, retries, place, message>>
    BY <1>3 DEF NextWaiter, messagingVars
  <2>2. PICK n, T, x, y, g, h :
          /\ n = Len(stack[t]) /\ T = Top(t) /\ x = T.id.event /\ y = id.event
          /\ g = [T EXCEPT !.waiters = @ \ {id}] /\ h = Entry(id)
    OBVIOUS
  <2>3. /\ stack[t] # <<>> /\ T.at = "waiters" /\ id \in T.waiters
        /\ stack' = [stack EXCEPT ![t] = Append(Append(Under(t), g), h)]
    BY <1>1, <2>1, <2>2 DEF At
  <2>4. On(t, n, T) /\ n \in Nat \ {0} /\ T \in Frames /\ NestedAt(t, n, T)
    BY <2>2, <2>3, OnTop, OnIs DEF Once, Nested
  <2>5. /\ T.waiters \subseteq Copy /\ id \in Copy
        /\ g \in Frames /\ g.id = T.id /\ g.at = "waiters" /\ g.waiters = T.waiters \ {id}
    BY <2>2, <2>3, <2>4 DEF Frames
  <2>6. Known(id) /\ (t = Sweeper => y \in Overdue) /\ y \in DOMAIN follows
    BY <2>2, <2>3, <2>4 DEF NestedAt, Known
  <2>7. h.at = "evaluating"
    <3>1. CASE Loop(t, n)
      BY <2>2, <2>3, <2>4, <3>1 DEF NestedAt, Entry, Frame
    <3>2. CASE ~Loop(t, n)
      <4>1. follows[y] = x /\ x \in seen
        BY <2>2, <2>3, <2>4, <3>2, CallIs DEF NestedAt
      <4> QED BY <2>2, <4>1 DEF Entry, Frame
    <3> QED BY <3>1, <3>2
  <2>8. h.id = id /\ h.waiters = {} /\ h.id.event = y
    BY <2>2 DEF Entry, Frame
  <2>9. h \in Frames
    BY <2>5, <2>7, <2>8, <2>2 DEF Entry, Frame, Frames
  <2>10. \A u, i, f : On(u, i, f)' <=>
           (Rest(t, n, u, i, f) \/ (u = t /\ i = n /\ f = g))
             \/ (u = t /\ i = n + 1 /\ f = h)
    <3>1. \A u, i, f : On(u, i, f)' <=>
            (Rest(t, Len(stack[t]), u, i, f) \/ (u = t /\ i = Len(stack[t]) /\ f = g))
              \/ (u = t /\ i = Len(stack[t]) + 1 /\ f = h)
      BY <2>3, <2>5, <2>9, OnGrow
    <3> QED BY <2>2, <3>1
  <2>11. \A d : Known(d)' <=> Known(d)
    BY <1>1, <2>1 DEF Known
  <2>12. OnePlace' /\ AllKnown' /\ InQ' = InQ /\ Overdue' = Overdue /\ Counted'
    <3>1. OnePlace' /\ InQ' = InQ /\ Overdue' = Overdue /\ Counted'
      BY <1>1, <2>1 DEF Once, OnePlace, InQ, Overdue, Counted
    <3>2. AllKnown'
      BY <1>1, <2>1, <2>11 DEF Once, AllKnown
    <3> QED BY <3>1, <3>2
  <2>13. ASSUME Below(t, n, T)
         PROVE  Below(t, n, g)'
    <3>1. PICK j, k : /\ On(t, j, k) /\ j < n /\ k.at = "waiters"
                      /\ k.id.event = follows[T.id.event] /\ Known(k.id)
      BY <2>13 DEF Below
    <3>2. On(t, j, k)'
      BY <2>10, <3>1 DEF Rest
    <3> QED BY <1>1, <2>5, <2>11, <3>1, <3>2 DEF Below
  <2>14. NestedAt(t, n, g)'
    BY <1>1, <2>4, <2>5, <2>11, <2>12, <2>13 DEF NestedAt, Loop
  <2>15. NestedAt(t, n + 1, h)'
    <3>1. ~Loop(t, n + 1) /\ n < n + 1
      BY <2>4 DEF Loop
    <3>2. ASSUME t # Sweeper
          PROVE  Below(t, n + 1, h)'
      <4>1. Known(T.id) /\ follows[y] = x
        BY <2>2, <2>3, <2>4, <3>2 DEF NestedAt, Loop
      <4>2. On(t, n, g)'
        BY <2>10
      <4> QED BY <1>1, <2>2, <2>5, <2>8, <2>11, <3>1, <4>1, <4>2 DEF Below
    <3>3. h.at # "parking" /\ Known(h.id)' /\ (t = Sweeper => h.id.event \in Overdue')
      BY <2>6, <2>7, <2>8, <2>11, <2>12
    <3>4. ~Loop(t, n + 1)'
      BY <3>1 DEF Loop
    <3> QED BY <2>8, <3>2, <3>3, <3>4 DEF NestedAt
  <2>16. Nested'
    <3>1. DOMAIN follows \subseteq Events /\ Nested
      BY DEF Once, AllKnown
    <3>2. \A u, i, f : On(u, i, f)' => Rest(t, n, u, i, f) \/ NestedAt(u, i, f)'
      BY <2>10, <2>14, <2>15
    <3>3. \A u, i, f : Rest(t, n, u, i, f) => On(u, i, f)'
      BY <2>10
    <3> QED BY <1>1, <2>4, <2>11, <3>1, <3>2, <3>3, NestedStep
  <2>17. \A u, i, f : On(u, i, f)' =>
           (u = t /\ i = n + 1 /\ f = h) \/
           \E k : On(u, i, k) /\ k.id = f.id /\ k.at = f.at /\ f.waiters \subseteq k.waiters
    <3> SUFFICES ASSUME NEW u, NEW i, NEW f, On(u, i, f)', ~(u = t /\ i = n + 1 /\ f = h)
                 PROVE  \E k : /\ On(u, i, k) /\ k.id = f.id /\ k.at = f.at
                               /\ f.waiters \subseteq k.waiters
      OBVIOUS
    <3>1. CASE Rest(t, n, u, i, f)
      BY <3>1 DEF Rest
    <3>2. CASE u = t /\ i = n /\ f = g
      BY <2>3, <2>4, <2>5, <3>2
    <3> QED BY <2>10, <3>1, <3>2
  <2>18. ~Waits(h, y) /\ h.at # "reading" /\ \A e : ~Waits(h, e)
    BY <2>7, <2>8 DEF Waits
  <2>19. ASSUME NEW e \in DOMAIN follows \ Overdue, e # y
         PROVE  Alone(e)'
    <3>1. Alone(e) /\ (Parked(e)' <=> Parked(e))
      BY <1>1 DEF Once, Parked
    <3>2. \A u, i, f : On(u, i, f)' /\ f.id.event = e =>
            \E k : On(u, i, k) /\ k.id = f.id /\ k.at = f.at
      BY <2>8, <2>17, <2>19
    <3>3. \A u, i, f : On(u, i, f)' /\ Waits(f, e) => \E k : On(u, i, k) /\ Waits(k, e)
      BY <2>17, <2>18 DEF Waits
    <3>4. \A u, i, f : On(u, i, f)' /\ f.at = "reading" =>
            \E k : On(u, i, k) /\ k.id = f.id /\ k.at = f.at
      BY <2>17, <2>18
    <3>5. \A u, i, f, v, j, k :
            On(u, i, f)' /\ On(v, j, k)' /\ f.id.event = e /\ k.id.event = e => u = v /\ i = j
      BY <3>1, <3>2 DEF Alone
    <3>6. \A u, i, f : On(u, i, f)' /\ f.id.event = e /\ Pending(f) =>
            e \notin seen /\ (i = 1 => ~Parked(e))
      BY <3>1, <3>2 DEF Alone, Pending
    <3>7. \A u, i, f : On(u, i, f)' /\ Waits(f, e) =>
            e \notin seen /\ \A v, j, k : On(v, j, k)' => k.id.event # e
      BY <3>1, <3>2, <3>3 DEF Alone
    <3>8. \A u, i, f : On(u, i, f)' /\ f.id.event = follows[e] /\ f.at = "reading"
            /\ Parked(e) => e \notin seen
      BY <3>1, <3>4 DEF Alone
    <3>9. e \in InQ /\ e \notin seen =>
            ~Parked(e) /\ \A u, i, f : On(u, i, f)' => f.id.event # e /\ ~Waits(f, e)
      BY <3>1, <3>2, <3>3 DEF Alone
    <3> QED BY <1>1, <2>12, <3>1, <3>5, <3>6, <3>7, <3>8, <3>9 DEF Alone
  <2>20. ASSUME y \notin Overdue
         PROVE  Alone(y)'
    <3>1. Alone(y) /\ (Parked(y)' <=> Parked(y))
      BY <1>1, <2>6, <2>20 DEF Once, Parked
    <3>2. Waits(T, y)
      BY <2>2, <2>3 DEF Waits
    <3>3. y \notin seen /\ y \notin InQ /\ \A u, j, f : On(u, j, f) => f.id.event # y
      BY <2>4, <3>1, <3>2 DEF Alone
    <3>4. \A u, i, f : On(u, i, f)' /\ f.id.event = y => u = t /\ i = n + 1 /\ f = h
      BY <2>17, <3>3
    <3>5. t # Sweeper /\ ~Loop(t, n) /\ follows[y] = x /\ Known(T.id)
      BY <2>2, <2>3, <2>4, <2>6, <2>20 DEF NestedAt, Loop
    <3>6. follows[y] \in DOMAIN follows /\ Alone(follows[y])
      <4>1. follows[y] \in DOMAIN follows
        BY <2>2, <3>5 DEF Known
      <4> QED BY <2>6, <2>20, <4>1, LeaderAlone
    <3>7. \A u, i, f : On(u, i, f)' => ~Waits(f, y)
      <4> SUFFICES ASSUME NEW u, NEW i, NEW f, On(u, i, f)', NEW d \in f.waiters,
                          d.event = y
                   PROVE  FALSE
        BY DEF Waits
      <4>1. CASE f = h
        BY <2>8, <4>1
      <4>2. CASE f = g
        <5>1. d \in T.waiters /\ d # id /\ d \in Copy /\ d.event = y
          BY <2>5, <4>2
        <5>2. Known(d)
          BY <2>4, <5>1 DEF NestedAt
        <5>3. d.event = id.event /\ d.copy = id.copy
          BY <2>2, <2>6, <5>2 DEF Known
        <5> QED BY <2>5, <5>1, <5>3, SameCopy
      <4>3. CASE Rest(t, n, u, i, f)
        <5>1. On(u, i, f) /\ (u = t => i < n) /\ NestedAt(u, i, f)
          BY <4>3 DEF Rest, Once, Nested
        <5>2. u # Sweeper
          BY <2>20, <5>1 DEF NestedAt
        <5>3. f.id.event = follows[y]
          BY <5>1, <5>2 DEF NestedAt, Loop
        <5>4. u = t /\ i = n
          BY <2>2, <2>4, <3>5, <3>6, <5>1, <5>3 DEF Alone
        <5> QED BY <2>4, <5>1, <5>4
      <4> QED BY <2>10, <4>1, <4>2, <4>3
    <3>8. n + 1 # 1
      BY <2>4
    <3> QED BY <1>1, <2>12, <3>1, <3>3, <3>4, <3>7, <3>8 DEF Alone
  <2>21. \A e \in DOMAIN follows \ Overdue : Alone(e)'
    BY <2>19, <2>20
  <2> QED BY <1>1, <2>12, <2>16, <2>21 DEF Once
<1> QED BY <1>2, <1>3

\* A step that moves neither calls nor rows.
LEMMA QuietOnce ==
  ASSUME Inv, Once, OnePlace', AllKnown', InQ' = InQ, old \subseteq old',
         UNCHANGED <<follows, seen, handled, parked, stack, sends>>
  PROVE  Once'
<1>1. PICK v : v \notin Tasks
  BY NoSetContainsEverything
<1>2. \A u, i, f : On(u, i, f)' <=> Rest(v, 0, u, i, f)
  BY <1>1 DEF On, Rest
<1>3. \A e : Parked(e)' => Parked(e)
  BY DEF Parked
<1> QED BY <1>2, <1>3, EndingOnce

LEMMA IdleOnce ==
  ASSUME Inv, Once, NEW c \in Consumers, Idle(c)
  PROVE  Once'
<1>1. /\ place' = [place EXCEPT ![c] = "blocked"]
      /\ UNCHANGED <<sends, queue, retries, message>>
      /\ UNCHANGED <<follows, seen, handled, parked, stack, old>>
  BY DEF Idle, Block, serviceVars
<1>2. \A d \in Consumers : place'[d] = "handling" => place[d] = "handling"
  BY <1>1 DEF Inv, Types, MessagingTypeOK
<1>3. OnePlace' /\ InQ' = InQ
  BY <1>1, <1>2 DEF Once, OnePlace, InQ
<1>4. AllKnown'
  <2>1. \A id : Known(id)' <=> Known(id)
    BY <1>1 DEF Known
  <2> QED BY <1>1, <1>2, <2>1 DEF Once, AllKnown
<1> QED BY <1>1, <1>3, <1>4, QuietOnce

LEMMA EndEvaluationOnce ==
  ASSUME Inv, Once, NEW c \in Consumers, EndEvaluation(c)
  PROVE  Once'
<1>1. /\ place[c] = "handling" /\ Ack(c) /\ message[c] \in Message /\ sends' = sends
      /\ UNCHANGED <<follows, seen, handled, parked, stack, old>>
  BY DEF EndEvaluation, Ack, serviceVars, Inv, HandFine
<1>2. OnePlace' /\ AllKnown' /\ InQ' = InQ
  BY <1>1, ReturnedOnce DEF Once, Inv, Types
<1> QED BY <1>1, <1>2, QuietOnce

LEMMA StillOnce ==
  ASSUME Inv, Once, old \subseteq old', UNCHANGED <<sends, queue, retries, place, message>>,
         UNCHANGED <<follows, seen, handled, parked, stack>>
  PROVE  Once'
<1>1. OnePlace' /\ InQ' = InQ
  BY DEF Once, OnePlace, InQ
<1>2. AllKnown'
  <2>1. \A id : Known(id)' <=> Known(id)
    BY DEF Known
  <2> QED BY <2>1 DEF Once, AllKnown
<1> QED BY <1>1, <1>2, QuietOnce

\* The recorder evaluates nothing.
OnceInv ==
  /\ calm /\ service = "triggers" => Once
  /\ service # "triggers" => stack[Sweeper] = <<>> /\ \A e \in Events : handled[e] = 0

LEMMA OnceInit == Init => OnceInv
<1> SUFFICES ASSUME Init PROVE OnceInv
  OBVIOUS
<1>1. DOMAIN <<>> = {}
  BY EmptySeq
<1>2. /\ queue = <<>> /\ retries = <<>> /\ parked = {} /\ seen = {}
      /\ \A e \in Events : sends[e] = 0 /\ handled[e] = 0
      /\ \A c \in Consumers : place[c] # "handling"
      /\ \A t \in Tasks : stack[t] = <<>>
      /\ DOMAIN follows \subseteq Events
  BY ServiceAssumption DEF Init, MessagingInit
<1>3. EventsOf(queue) = {} /\ EventsOf(retries) = {} /\ IdsOf(queue) = {} /\ IdsOf(retries) = {}
  BY <1>1, <1>2 DEF EventsOf, IdsOf
<1>4. OnePlace
  BY <1>1, <1>2, <1>3 DEF OnePlace, Distinct
<1>5. AllKnown
  BY <1>2, <1>3 DEF AllKnown
<1>6. \A t, i, f : ~On(t, i, f)
  BY <1>1, <1>2 DEF On
<1>7. Nested /\ Counted
  BY <1>2, <1>6 DEF Nested, Counted
<1>8. ASSUME NEW e \in DOMAIN follows
      PROVE  Alone(e)
  <2>1. e \in Events /\ e \notin InQ /\ ~Parked(e)
    BY <1>2, <1>3 DEF InQ, Parked
  <2> QED BY <1>2, <1>6, <2>1 DEF Alone
<1>9. stack[Sweeper] = <<>>
  BY <1>2 DEF Tasks
<1> QED BY <1>2, <1>4, <1>5, <1>7, <1>8, <1>9 DEF OnceInv, Once

LEMMA OnceNext == ASSUME Inv, OnceInv, [Next]_vars PROVE OnceInv'
<1>1. service' = service
  BY DEF Next, vars, Emit, Idle, serviceVars, ConsumerStep, RecordFails, Record,
    StartRecording, StartEvaluation, Park, CallStep, Evaluate, ReadFollowers, NextWaiter,
    FinishFrame, EndEvaluation, Sweep, EvaluationFails, GrowOld, Restart
<1>2. ASSUME service # "triggers"
      PROVE  UNCHANGED handled /\ stack'[Sweeper] = <<>>
  <2>1. stack[Sweeper] = <<>> /\ \A c \in Consumers : stack[c] = <<>>
    BY <1>2 DEF OnceInv, Inv, HandFine
  <2>2. \A t \in Tasks : stack[t] = <<>>
    BY <2>1 DEF Tasks
  <2>3. \A t \in Tasks : ~CallStep(t) /\ ~EvaluationFails(t)
    BY <2>2 DEF CallStep, Evaluate, ReadFollowers, NextWaiter, FinishFrame,
      EvaluationFails, At
  <2>4. \A c \in Consumers : c \in Tasks /\ ~Park(c)
    BY <2>1 DEF Park, At, Tasks
  <2>5. Sweeper \in Tasks
    BY DEF Tasks
  <2>6. ASSUME NEW c \in Consumers, Idle(c) \/ ConsumerStep(c) \/ RecordFails(c)
        PROVE  UNCHANGED <<handled, stack>>
    BY <1>2, <2>3, <2>4, <2>6 DEF Idle, serviceVars, ConsumerStep, RecordFails, Record,
      StartRecording, StartEvaluation, EndEvaluation
  <2>7. ASSUME \/ \E e \in Events : Emit(e)
               \/ \E id \in Copy : GrowOld(id)
               \/ UNCHANGED vars
        PROVE  UNCHANGED <<handled, stack>>
    BY <2>7 DEF Emit, GrowOld, vars
  <2>8. CASE Restart
    BY <2>5, <2>8 DEF Restart
  <2>9. ~Sweep
    BY <1>2 DEF Sweep
  <2> QED BY <2>1, <2>3, <2>5, <2>6, <2>7, <2>8, <2>9 DEF Next
<1>3. ASSUME calm', service = "triggers"
      PROVE  Once'
  <2>1. calm
    BY <1>3, Zenon DEF Next, vars, Emit, Idle, serviceVars, ConsumerStep, RecordFails, Record,
      StartRecording, StartEvaluation, Park, CallStep, Evaluate, ReadFollowers, NextWaiter,
      FinishFrame, EndEvaluation, Sweep, EvaluationFails, GrowOld, Restart, Trouble
  <2>2. Once
    BY <1>3, <2>1 DEF OnceInv
  <2>3. ~Trouble
    BY <1>3, Zenon DEF Trouble
  <2>4. ASSUME NEW e \in Events, Emit(e)
        PROVE  Once'
    BY <1>3, <2>2, <2>4, EmitOnce
  <2>5. ASSUME NEW t \in Tasks, CallStep(t)
        PROVE  Once'
    BY <2>2, <2>5, EvaluateOnce, ReadFollowersOnce, NextWaiterOnce, FinishFrameOnce
      DEF CallStep
  <2>6. ASSUME NEW c \in Consumers, Idle(c) \/ ConsumerStep(c) \/ RecordFails(c)
        PROVE  Once'
    <3>1. c \in Tasks
      BY DEF Tasks
    <3>2. ~RecordFails(c) /\ ~StartRecording(c) /\ ~Record(c)
      BY <1>3 DEF RecordFails, StartRecording, Record
    <3> QED BY <2>2, <2>5, <2>6, <3>1, <3>2, IdleOnce, StartOnce, ParkOnce,
              EndEvaluationOnce DEF ConsumerStep
  <2>7. CASE Sweep
    BY <2>2, <2>7, SweepOnce
  <2>8. Sweeper \in Tasks
    BY DEF Tasks
  <2>9. ASSUME NEW id \in Copy, GrowOld(id)
        PROVE  Once'
    BY <2>2, <2>9, StillOnce DEF GrowOld, messagingVars
  <2>10. CASE UNCHANGED vars
    BY <2>2, <2>10, StillOnce DEF vars
  <2>11. ~Restart /\ \A t \in Tasks : ~EvaluationFails(t)
    BY <2>3 DEF Restart, EvaluationFails
  <2> QED BY <2>4, <2>5, <2>6, <2>7, <2>8, <2>9, <2>10, <2>11 DEF Next
<1> QED BY <1>1, <1>2, <1>3 DEF OnceInv

\* As long as no event is sent twice, no handler raises and the server goes on, an event
\* is evaluated once, unless it or one before it is too old to wait, however many tasks
\* evaluate events and wherever its followers are parked (message_handler,
\* preceding_event_confirmed, get_lost_followers).
THEOREM EvaluatedOnce == Spec => []HandledOnce
<1>1. Inv /\ OnceInv => HandledOnce
  <2> SUFFICES ASSUME Inv, OnceInv, calm, NEW e \in Events, handled[e] > 1
               PROVE  e \in Overdue
    BY DEF HandledOnce
  <2>1. handled[e] \in Nat
    BY DEF Inv, Types
  <2>2. service = "triggers"
    BY <2>1 DEF OnceInv
  <2>3. Once
    BY <2>2 DEF OnceInv
  <2>4. handled[e] > 0
    BY <2>1
  <2>5. e \in seen
    BY <2>3, <2>4 DEF Once, Counted
  <2>6. e \in DOMAIN follows
    BY <2>3, <2>5 DEF Once, AllKnown
  <2>7. ASSUME e \notin Overdue
        PROVE  FALSE
    <3>1. handled[e] <= 1
      BY <2>3, <2>6, <2>7 DEF Once, Alone
    <3> QED BY <2>1, <3>1
  <2> QED BY <2>7
<1> QED BY <1>1, InvInit, InvNext, OnceInit, OnceNext, PTL DEF Spec

=============================================================================
