--------------------------- MODULE GlobalConcurrency ---------------------------
(***************************************************************************)
(* Global concurrency limits: rows of slots that decay with time, requests *)
(* that take slots of several rows at once or none, and the clients, which *)
(* queue their calls per set of names, wait after a refusal, time out, are *)
(* cancelled, resend requests and die.                                     *)
(***************************************************************************)
EXTENDS Integers, Sequences, FiniteSets

CONSTANTS
  Limits,
  Calls,       \* calls of concurrency or rate_limit in user code, each made repeatedly
  Services,    \* acquisition services, one per process and set of names
  ServiceOf,   \* ServiceOf[c]: the service that c is sent to
  NamesOf,     \* NamesOf[s]: the limits the calls of s ask for
  Occupy,      \* Occupy[c]: the slots that c takes from each limit
  RateCalls,   \* the calls of rate_limit; the others are of concurrency
  Strict,      \* the calls with strict=True
  Timeout,     \* Timeout[c]: timeout_seconds in ticks, or None
  MaxRetries,  \* MaxRetries[c]: max_retries, or None
  InitialLimit,   \* InitialLimit[l]: limit of the row that a user creates for l
  DecayTicks,     \* DecayTicks[l]: ticks in which a slot decays, 0 for no decay
  OccupancyTicks, \* avg_slot_occupancy_seconds in ticks
  MaxDenied,      \* a bound: denied_slots is counted up to it
  Worlds,         \* who calls what in which troubles, see World
  None

Status == {"absent", "inactive", "active"}

\* The calls that are made, what users have made of the limits before, and the failures
\* and the changes by users that may happen.
World ==
  [calls : SUBSET Calls, status : [Limits -> Status],
   troubles : SUBSET {"resend increment", "resend decrement", "crash", "cancel",
                      "release fails", "status", "limit", "reset"}]

ASSUME GlobalConcurrencyAssumption ==
  /\ ServiceOf \in [Calls -> Services] /\ NamesOf \in [Services -> SUBSET Limits]
  /\ Occupy \in [Calls -> Nat \ {0}]
  /\ RateCalls \subseteq Calls /\ Strict \subseteq Calls
  /\ Timeout \in [Calls -> Nat \cup {None}]
  /\ MaxRetries \in [Calls -> Nat \cup {None}]
  /\ InitialLimit \in [Limits -> Nat] /\ DecayTicks \in [Limits -> Nat]
  /\ OccupancyTicks \in Nat \ {0} /\ MaxDenied \in Nat
  /\ Worlds \subseteq World /\ None \notin Nat

VARIABLES
  world,    \* one of Worlds, for good
  status,   \* per limit: "absent", or its row is "inactive" or "active"
  limit,    \* per limit, the column limit
  slots,    \* per limit, the column active_slots
  denied,   \* per limit, the column denied_slots
  age,      \* per limit, the ticks since the column updated
  queue,    \* per service, the calls it has not finished, the head being handled
  pc,       \* per call, see Phases
  abandoned,\* the calls whose caller was cancelled while the service has their item
  asked,    \* per call, the active limits its last request found
  wait,     \* per call, the ticks until it asks again
  timer,    \* per call, the ticks until its timeout, or None
  tries,    \* per call, how many retries it has left, or None
  debt      \* history: per limit, what it owes a bucket that leaks continuously

row == <<status, limit, slots, denied, age>>
item == <<asked, wait, timer, tries>>
vars ==
  <<world, status, limit, slots, denied, age, queue, pc, abandoned, asked, wait, timer, tries,
    debt>>

\* A call waits in the queue, its request is on the way, granted, or denied and not yet
\* counted, the service sleeps, the caller is inside, or its release is on the way or
\* done.
Phases ==
  {"idle", "queued", "sending", "granted", "denied", "sleeping", "inside", "releasing",
   "released"}
Waiting == {"queued", "sending", "granted", "denied", "sleeping"}

Names(c) == NamesOf[ServiceOf[c]]
Found(c) == {l \in Names(c) : status[l] # "absent"}
Active(c) == {l \in Names(c) : status[l] = "active"}

Init ==
  /\ world \in Worlds
  /\ status = world.status
  /\ limit = [l \in Limits |-> IF status[l] = "absent" THEN 0 ELSE InitialLimit[l]]
  /\ slots = [l \in Limits |-> 0] /\ denied = [l \in Limits |-> 0]
  /\ age = [l \in Limits |-> 0]
  /\ queue = [s \in Services |-> <<>>]
  /\ pc = [c \in Calls |-> "idle"]
  /\ abandoned = {}
  /\ asked = [c \in Calls |-> {}] /\ wait = [c \in Calls |-> 0]
  /\ timer = [c \in Calls |-> None] /\ tries = [c \in Calls |-> None]
  /\ debt = [l \in Limits |-> 0]

Decays(l) == DecayTicks[l] > 0

\* greatest(0, a - b)
Less(a, b) == IF a < b THEN 0 ELSE a - b

\* A variant that rounds the quotient up, for RateBounded.
AfterMutant(n, t, d) == IF d = 0 THEN n ELSE Less(n, (t + d - 1) \div d)

\* What is left of n things after t ticks, when one goes away every d ticks, by a floor
\* of the quotient.
After(n, t, d) == IF d = 0 THEN n ELSE Less(n, t \div d)

ActiveSlotsAfterDecay(l) == After(slots[l], age[l], DecayTicks[l])
DeniedSlotsAfterDecay(l) ==
  After(denied[l], age[l], IF Decays(l) THEN DecayTicks[l] ELSE OccupancyTicks)

\* The age from which nothing is left to decay.
MaxAge(l) ==
  LET d == IF DecayTicks[l] > OccupancyTicks THEN DecayTicks[l] ELSE OccupancyTicks IN
  d * (slots[l] + denied[l])
--------------------------------------------------------------------------------
(* Requests to increment, at the server.                                   *)

\* The request cannot be granted whatever the other calls do, and is answered with an
\* error.
Unprocessable(c) ==
  \/ \E l \in Active(c) : limit[l] < Occupy[c]
  \/ c \in RateCalls /\ \E l \in Active(c) : ~Decays(l)

\* A variant that any free slot satisfies, for LimitKept.
CanAcquireMutant(c) == \A l \in Active(c) : ActiveSlotsAfterDecay(l) < limit[l]

CanAcquire(c) ==
  \A l \in Active(c) : ActiveSlotsAfterDecay(l) + Occupy[c] <= limit[l]

\* How long the client of a denied request is told to wait, in ticks; the limit with the
\* most blocking slots decides. If it does not decay, these are divided by limit.
Blocking(c, l) == Occupy[c] + denied[l]
RetryAfter(c) ==
  LET n(l) == Blocking(c, l)
      d(l) == IF Decays(l) THEN 1 ELSE limit[l]
      worst == {l \in Active(c) : \A k \in Active(c) : n(l) * d(k) >= n(k) * d(l)} IN
  {IF Decays(l) THEN DecayTicks[l] * n(l)
   ELSE (OccupancyTicks * n(l) + limit[l] - 1) \div limit[l] : l \in worst}

\* The service has finished its item with the outcome p for the caller.
Finish(c, p) ==
  /\ queue' = [queue EXCEPT ![ServiceOf[c]] = Tail(@)]
  /\ pc' = [pc EXCEPT ![c] = p]
  /\ abandoned' = abandoned \ {c}
  /\ asked' = [asked EXCEPT ![c] = {}] /\ wait' = [wait EXCEPT ![c] = 0]
  /\ timer' = [timer EXCEPT ![c] = None] /\ tries' = [tries EXCEPT ![c] = None]

\* A refused request changes nothing. That a limit is required and does not exist the
\* caller finds out from the answer.
Refuse(c) ==
  /\ pc[c] = "sending"
  /\ Unprocessable(c) \/ (c \in Strict /\ Found(c) = {})
  /\ Finish(c, "idle")
  /\ UNCHANGED <<world, row, debt>>

Grant(c) ==
  /\ pc[c] = "sending"
  /\ ~Unprocessable(c) /\ ~(c \in Strict /\ Found(c) = {})
  /\ CanAcquire(c)
  /\ slots' = [l \in Limits |-> IF l \in Active(c)
                                THEN ActiveSlotsAfterDecay(l) + Occupy[c] ELSE slots[l]]
  /\ denied' = [l \in Limits |-> IF l \in Active(c)
                                 THEN DeniedSlotsAfterDecay(l) ELSE denied[l]]
  /\ age' = [l \in Limits |-> IF l \in Active(c) THEN 0 ELSE age[l]]
  /\ debt' = [l \in Limits |-> IF l \in Active(c)
                               THEN debt[l] + Occupy[c] * DecayTicks[l] ELSE debt[l]]
  /\ pc' = [pc EXCEPT ![c] = "granted"]
  /\ UNCHANGED <<world, status, limit, queue, abandoned, item>>

\* A variant without the rollback, for NothingLeaks.
DenyMutant(c) ==
  LET room == {l \in Active(c) : ActiveSlotsAfterDecay(l) + Occupy[c] <= limit[l]} IN
  /\ pc[c] = "sending"
  /\ ~Unprocessable(c) /\ ~CanAcquire(c)
  /\ \E t \in RetryAfter(c) : wait' = [wait EXCEPT ![c] = t]
  /\ slots' = [l \in Limits |-> IF l \in room THEN ActiveSlotsAfterDecay(l) + Occupy[c]
                                ELSE slots[l]]
  /\ asked' = [asked EXCEPT ![c] = Active(c)]
  /\ pc' = [pc EXCEPT ![c] = "denied"]
  /\ UNCHANGED <<world, status, limit, denied, age, queue, abandoned, timer, tries, debt>>

\* The update did not reach all of the rows and is rolled back.
Deny(c) ==
  /\ pc[c] = "sending"
  /\ ~Unprocessable(c) /\ ~CanAcquire(c)
  /\ \E t \in RetryAfter(c) : wait' = [wait EXCEPT ![c] = t]
  /\ asked' = [asked EXCEPT ![c] = Active(c)]
  /\ pc' = [pc EXCEPT ![c] = "denied"]
  /\ UNCHANGED <<world, row, queue, abandoned, timer, tries, debt>>

\* The rows that bulk_update_denied_slots reaches, in a transaction of its own. It leaves
\* active_slots alone, and the row is stamped all the same.
Denied(c) == {l \in asked[c] : status[l] = "active"}
DeniedAfter(c, l) ==
  LET n == DeniedSlotsAfterDecay(l) + Occupy[c] IN IF n > MaxDenied THEN MaxDenied ELSE n
AgeAfterDenial(c, l) == IF l \in Denied(c) THEN 0 ELSE age[l]

\* The server counts the denial and answers; a client without retries left gives up, as
\* does one whose timeout has passed meanwhile.
CountDenial(c) ==
  /\ pc[c] = "denied"
  /\ denied' = [l \in Limits |-> IF l \in Denied(c) THEN DeniedAfter(c, l) ELSE denied[l]]
  /\ age' = [l \in Limits |-> AgeAfterDenial(c, l)]
  /\ IF tries[c] = 0 \/ timer[c] = 0
     THEN Finish(c, "idle")
     ELSE /\ pc' = [pc EXCEPT ![c] = "sleeping"]
          /\ UNCHANGED <<queue, abandoned, item>>
  /\ UNCHANGED <<world, status, limit, slots, debt>>
--------------------------------------------------------------------------------
(* The client: callers and services.                                       *)

\* A caller sends its request to the service.
Call(c) ==
  /\ c \in world.calls /\ pc[c] = "idle"
  /\ pc' = [pc EXCEPT ![c] = "queued"]
  /\ queue' = [queue EXCEPT ![ServiceOf[c]] = Append(@, c)]
  /\ UNCHANGED <<world, row, abandoned, item, debt>>

\* The service handles its items one after the other; the timeout is that of the handling.
Handle(c) ==
  /\ pc[c] = "queued" /\ Head(queue[ServiceOf[c]]) = c
  /\ pc' = [pc EXCEPT ![c] = "sending"]
  /\ timer' = [timer EXCEPT ![c] = Timeout[c]]
  /\ tries' = [tries EXCEPT ![c] = MaxRetries[c]]
  /\ UNCHANGED <<world, row, queue, abandoned, asked, wait, debt>>

\* A variant for which no max_retries means no retries, for SomebodyGetsIn.
RetryMutant(c) ==
  /\ pc[c] = "sleeping" /\ wait[c] = 0 /\ timer[c] # 0 /\ tries[c] # None
  /\ pc' = [pc EXCEPT ![c] = "sending"]
  /\ tries' = [tries EXCEPT ![c] = @ - 1]
  /\ asked' = [asked EXCEPT ![c] = {}]
  /\ UNCHANGED <<world, row, queue, abandoned, wait, timer, debt>>

Retry(c) ==
  /\ pc[c] = "sleeping" /\ wait[c] = 0 /\ timer[c] # 0
  /\ pc' = [pc EXCEPT ![c] = "sending"]
  /\ tries' = [tries EXCEPT ![c] = IF @ = None THEN None ELSE @ - 1]
  /\ asked' = [asked EXCEPT ![c] = {}]
  /\ UNCHANGED <<world, row, queue, abandoned, wait, timer, debt>>

\* The service has the answer. A caller of rate_limit goes on, one that was cancelled is
\* no longer there to release anything.
Receive(c) ==
  /\ pc[c] = "granted"
  /\ Finish(c, IF c \in abandoned \/ c \in RateCalls THEN "idle" ELSE "inside")
  /\ UNCHANGED <<world, row, debt>>

TimeOut(c) ==
  /\ timer[c] = 0 /\ pc[c] \in {"sending", "granted", "sleeping"}
  /\ Finish(c, "idle")
  /\ UNCHANGED <<world, row, debt>>

\* The block of the context manager ends.
Leave(c) ==
  /\ pc[c] = "inside"
  /\ pc' = [pc EXCEPT ![c] = "releasing"]
  /\ UNCHANGED <<world, row, queue, abandoned, item, debt>>

\* The request to decrement creates the rows that it does not find, inactive and with a
\* limit of one.
Decrement(c) ==
  /\ pc[c] = "releasing"
  /\ status' = [l \in Limits |-> IF l \in Names(c) \ Found(c) THEN "inactive"
                                 ELSE status[l]]
  /\ limit' = [l \in Limits |-> IF l \in Names(c) \ Found(c) THEN 1 ELSE limit[l]]
  /\ slots' = [l \in Limits |-> IF l \in Active(c)
                                THEN Less(ActiveSlotsAfterDecay(l), Occupy[c])
                                ELSE slots[l]]
  /\ denied' = [l \in Limits |-> IF l \in Active(c)
                                 THEN DeniedSlotsAfterDecay(l) ELSE denied[l]]
  /\ age' = [l \in Limits |-> IF l \in Active(c) \/ l \in Names(c) \ Found(c)
                              THEN 0 ELSE age[l]]
  /\ debt' = [l \in Limits |-> IF l \in Active(c)
                               THEN Less(debt[l], Occupy[c] * DecayTicks[l])
                               ELSE debt[l]]
  /\ pc' = [pc EXCEPT ![c] = "released"]
  /\ UNCHANGED <<world, queue, abandoned, item>>

Return(c) ==
  /\ pc[c] = "released"
  /\ pc' = [pc EXCEPT ![c] = "idle"]
  /\ UNCHANGED <<world, row, queue, abandoned, item, debt>>
--------------------------------------------------------------------------------
(* Failures, users and time.                                               *)

\* An answer is lost and the client's transport sends the request again.
ResendIncrement(c) ==
  /\ "resend increment" \in world.troubles /\ pc[c] = "granted"
  /\ pc' = [pc EXCEPT ![c] = "sending"]
  /\ UNCHANGED <<world, row, queue, abandoned, item, debt>>

\* So for a release; the same happens if the caller is cancelled while it waits for the
\* answer, and the ConcurrencyContext releases the slots again when it is left.
ResendDecrement(c) ==
  /\ "resend decrement" \in world.troubles /\ pc[c] = "released"
  /\ pc' = [pc EXCEPT ![c] = "releasing"]
  /\ UNCHANGED <<world, row, queue, abandoned, item, debt>>

\* A release fails after all of its retries, or is cancelled where there is no context.
ReleaseFails(c) ==
  /\ "release fails" \in world.troubles /\ pc[c] = "releasing"
  /\ pc' = [pc EXCEPT ![c] = "idle"]
  /\ UNCHANGED <<world, row, queue, abandoned, item, debt>>

\* The caller is cancelled; its item stays with the service.
CancelCaller(c) ==
  /\ "cancel" \in world.troubles /\ pc[c] \in Waiting /\ c \notin abandoned
  /\ abandoned' = abandoned \cup {c}
  /\ UNCHANGED <<world, row, queue, pc, item, debt>>

\* The process of service s dies; its slots stay taken.
Crash(s) ==
  LET dead == {c \in Calls : ServiceOf[c] = s} IN
  /\ "crash" \in world.troubles
  /\ \E c \in dead : pc[c] # "idle"
  /\ queue' = [queue EXCEPT ![s] = <<>>]
  /\ pc' = [c \in Calls |-> IF c \in dead THEN "idle" ELSE pc[c]]
  /\ abandoned' = abandoned \ dead
  /\ asked' = [c \in Calls |-> IF c \in dead THEN {} ELSE asked[c]]
  /\ wait' = [c \in Calls |-> IF c \in dead THEN 0 ELSE wait[c]]
  /\ timer' = [c \in Calls |-> IF c \in dead THEN None ELSE timer[c]]
  /\ tries' = [c \in Calls |-> IF c \in dead THEN None ELSE tries[c]]
  /\ UNCHANGED <<world, row, debt>>

\* A user creates a limit, or deletes it.
CreateLimit(l) ==
  /\ "status" \in world.troubles /\ status[l] = "absent"
  /\ status' = [status EXCEPT ![l] = "active"]
  /\ limit' = [limit EXCEPT ![l] = InitialLimit[l]]
  /\ age' = [age EXCEPT ![l] = 0]
  /\ UNCHANGED <<world, slots, denied, queue, pc, abandoned, item, debt>>

DeleteLimit(l) ==
  /\ "status" \in world.troubles /\ status[l] # "absent"
  /\ status' = [status EXCEPT ![l] = "absent"]
  /\ limit' = [limit EXCEPT ![l] = 0]
  /\ slots' = [slots EXCEPT ![l] = 0] /\ denied' = [denied EXCEPT ![l] = 0]
  /\ age' = [age EXCEPT ![l] = 0] /\ debt' = [debt EXCEPT ![l] = 0]
  /\ UNCHANGED <<world, queue, pc, abandoned, item>>

\* A user enables or disables it, changes its limit or, to get slots back that nobody
\* will release, its active_slots.
ToggleLimit(l) ==
  /\ "status" \in world.troubles /\ status[l] # "absent"
  /\ status' = [status EXCEPT ![l] = IF @ = "active" THEN "inactive" ELSE "active"]
  /\ age' = [age EXCEPT ![l] = 0]
  /\ UNCHANGED <<world, limit, slots, denied, queue, pc, abandoned, item, debt>>

SetLimit(l) ==
  /\ "limit" \in world.troubles /\ status[l] # "absent"
  /\ \E n \in 0 .. InitialLimit[l] + 1 : limit' = [limit EXCEPT ![l] = n]
  /\ age' = [age EXCEPT ![l] = 0]
  /\ UNCHANGED <<world, status, slots, denied, queue, pc, abandoned, item, debt>>

ResetSlots(l) ==
  /\ "reset" \in world.troubles /\ status[l] # "absent" /\ slots[l] > 0
  /\ slots' = [slots EXCEPT ![l] = 0]
  /\ age' = [age EXCEPT ![l] = 0] /\ debt' = [debt EXCEPT ![l] = 0]
  /\ UNCHANGED <<world, status, limit, denied, queue, pc, abandoned, item>>

Tick ==
  /\ age' = [l \in Limits |-> IF age[l] < MaxAge(l) THEN age[l] + 1 ELSE age[l]]
  /\ wait' = [c \in Calls |-> Less(wait[c], 1)]
  /\ timer' = [c \in Calls |-> IF timer[c] = None THEN None ELSE Less(timer[c], 1)]
  /\ debt' = [l \in Limits |-> Less(debt[l], 1)]
  /\ UNCHANGED <<world, status, limit, slots, denied, queue, pc, abandoned, asked, tries>>

Server(c) == Refuse(c) \/ Grant(c) \/ Deny(c) \/ CountDenial(c) \/ Decrement(c)
Client(c) == Handle(c) \/ Retry(c) \/ Receive(c) \/ TimeOut(c) \/ Return(c)
Fault(c) ==
  ResendIncrement(c) \/ ResendDecrement(c) \/ ReleaseFails(c) \/ CancelCaller(c)
User(l) ==
  CreateLimit(l) \/ DeleteLimit(l) \/ ToggleLimit(l) \/ SetLimit(l) \/ ResetSlots(l)

Next ==
  \/ \E c \in Calls : Call(c) \/ Leave(c) \/ Server(c) \/ Client(c) \/ Fault(c)
  \/ \E s \in Services : Crash(s)
  \/ \E l \in Limits : User(l)
  \/ Tick

Spec == Init /\ [][Next]_vars

\* Time goes on, the server answers, services handle their items, and what user code does
\* inside the context manager comes to an end. No trouble need happen, nor a call be made.
FairSpec ==
  /\ Spec
  /\ WF_vars(Tick)
  /\ \A c \in Calls : WF_vars(Server(c)) /\ WF_vars(Client(c)) /\ WF_vars(Leave(c))
--------------------------------------------------------------------------------
(* Properties                                                              *)

\* The types of the variables; a service has the items of its own calls and works for the
\* first of them only (_QueueServiceBase._main_loop). See ServicesInOrder.
TypeOK ==
  /\ status \in [Limits -> Status]
  /\ limit \in [Limits -> Nat] /\ slots \in [Limits -> Nat]
  /\ denied \in [Limits -> Nat] /\ age \in [Limits -> Nat]
  /\ debt \in [Limits -> Nat]
  /\ queue \in [Services -> Seq(Calls)]
  /\ pc \in [Calls -> Phases]
  /\ abandoned \subseteq {c \in Calls : pc[c] \in Waiting}
  /\ asked \in [Calls -> SUBSET Limits] /\ wait \in [Calls -> Nat]
  /\ timer \in [Calls -> Nat \cup {None}] /\ tries \in [Calls -> Nat \cup {None}]
  /\ \A c \in Calls : pc[c] \in Waiting <=>
       \E i \in DOMAIN queue[ServiceOf[c]] : queue[ServiceOf[c]][i] = c
  /\ \A c \in Calls : pc[c] \in Waiting \ {"queued"} => Head(queue[ServiceOf[c]]) = c

\* The calls whose block runs under limit l, and how many slots of it calls occupy.
Inside(l) == {c \in Calls : pc[c] = "inside" /\ l \in Names(c)}
Taken(S) == UNION {{c} \X (1 .. Occupy[c]) : c \in S}
Occupied(S) == Cardinality(Taken(S))
Kept(l) == status[l] = "active" /\ ~Decays(l)

\* However many requests are resent, callers cancelled or killed and releases lost, the
\* blocks that run under a limit occupy no more slots than it has. The limit does not
\* decay, and neither is a release sent twice nor the row changed by users
\* (bulk_increment_active_slots, bulk_decrement_active_slots).
LimitKept ==
  world.troubles \cap {"resend decrement", "status", "limit", "reset"} = {} =>
    \A l \in Limits : Kept(l) => Occupied(Inside(l)) <= limit[l]

\* The calls that have slots of l, on the server's side.
Holding(l) ==
  {c \in Calls : pc[c] \in {"granted", "inside", "releasing"} /\ l \in Names(c)}

\* Neither failures nor timeouts nor changes by users.
Untroubled ==
  world.troubles = {} /\ \A c \in world.calls : c \notin RateCalls /\ Timeout[c] = None

\* Then the slots of a limit that does not decay are exactly those of the calls that have
\* them: a request that finds one of its limits full keeps nothing of the others, and a
\* release gives back everything (bulk_increment_active_slots, its rollback).
NothingLeaks ==
  Untroubled => \A l \in Limits : Kept(l) => slots[l] = Occupied(Holding(l))

\* Likewise, callers that wait do not wait for each other: while some do, eventually one
\* of them gets in, whichever limits they ask for together.
SomebodyGetsIn ==
  (Untroubled /\ \E c \in Calls : pc[c] \in Waiting) ~> (\E c \in Calls : pc[c] = "inside")

\* A limit with decay never admits more than a bucket that leaks continuously would, in
\* which every slot weighs DecayTicks and one leaks out per tick: however late and often
\* its columns are written, with a floor each time, and whoever changes the limit or
\* resends a request meanwhile (active_slots_after_decay, updated).
RateBounded ==
  [][\A l \in Limits : debt'[l] > debt[l] => debt'[l] <= DecayTicks[l] * limit[l]]_vars

\* "The slot eventually becomes available again over time, based on the slot decay rate":
\* a limit that is full does not stay so (docs/v3/develop/global-concurrency-limits.mdx).
\* It is false, as section 4 of README.md explains, and no run checks it.
SlotsComeBack ==
  \A l \in Limits : (ActiveSlotsAfterDecay(l) >= limit[l])
                       ~> (ActiveSlotsAfterDecay(l) < limit[l])

\* "timeout_seconds: The number of seconds to wait for the slots to be acquired before
\* raising a TimeoutError": a call with a timeout does not wait for ever (concurrency in
\* concurrency/asyncio.py). It is false as well.
TimeoutsKept ==
  \A c \in Calls : Timeout[c] # None => (pc[c] \in Waiting) ~> (pc[c] \notin Waiting)

\* "Concurrency limits are not implicitly created": only a user creates a limit, which
\* is active then (docs/v3/develop/global-concurrency-limits.mdx). It is false as well.
NotImplicitlyCreated ==
  [][\A l \in Limits : status[l] = "absent" => status'[l] # "inactive"]_vars
=============================================================================
