------------------------------ MODULE EventServices ------------------------------
(***************************************************************************)
(* Two services that consume the server's events: the recorder of task     *)
(* runs, and the triggers of automations, which evaluate an event only     *)
(* after the event it follows.  An instance has one of them, since each    *)
(* has a subscription of its own.                                          *)
(***************************************************************************)
EXTENDS Messaging

CONSTANTS
  Instances,    \* the services with their events: which event each event follows,
                \* what the clock of the task engine reads at each, and how many
                \* events may be sent again, handlers raise and restarts happen
  MaxDepth      \* MAX_DEPTH_OF_PRECEDING_EVENT, 20 in the code

ASSUME ServiceAssumption ==
  /\ \A i \in Instances :
       /\ i.service \in {"recorder", "triggers"}
       /\ DOMAIN i.follows \subseteq Events
       /\ \A e \in DOMAIN i.follows : i.follows[e] \in Events \cup {None}
       /\ i.clock \in [Events -> Nat \ {0}]
       /\ i.troubles \in Nat
  /\ MaxDepth \in Nat
  /\ "sweeper" \notin Consumers

VARIABLES
  service,  \* the service of this instance
  follows,  \* per event that occurs, the event it follows, or None
  clock,    \* the engine's clock at each state
  row,      \* the task run's row: the event of its state and state_timestamp
  states,   \* the events whose states are in the table of states
  seen,     \* the events this server remembers to have handled
  parked,   \* the table of followers
  old,      \* copies received longer ago than PRECEDING_EVENT_LOOKBACK
  stack,    \* per task, and for the sweeper, the calls of reactive_evaluation
  handled,  \* history: how often each event was evaluated, to the end or not
  lost,     \* history: events that were in the hands of a server that stopped
            \* or of a sweep that failed
  troubles, \* how many resent events, raising handlers and restarts are left
  calm      \* history: whether there was none so far

serviceVars ==
  <<service, follows, clock, row, states, seen, parked, old, stack, handled, lost,
    troubles, calm>>
vars ==
  <<sends, queue, retries, dead, place, message,
    service, follows, clock, row, states, seen, parked, old, stack, handled, lost,
    troubles, calm>>

Sweeper == "sweeper"
Tasks == Consumers \cup {Sweeper}
IdOf(m) == [event |-> m.event, copy |-> m.copy]

Init ==
  /\ MessagingInit
  /\ \E i \in Instances :
       /\ service = i.service /\ follows = i.follows /\ clock = i.clock
       /\ troubles = i.troubles
  /\ row = [event |-> None, timestamp |-> 0] /\ states = {}
  /\ seen = {} /\ parked = {} /\ old = {}
  /\ stack = [t \in Tasks |-> <<>>]
  /\ handled = [e \in Events |-> 0]
  /\ lost = {}
  /\ calm = TRUE

Trouble == troubles > 0 /\ troubles' = troubles - 1 /\ calm' = FALSE

\* The client sends the events in any order: those of several processes are mixed,
\* and a client that was cut off sends again what nobody confirmed.
Emit(e) ==
  /\ e \in DOMAIN follows
  /\ Publish(e)
  /\ IF sends[e] > 0 THEN Trouble ELSE UNCHANGED <<troubles, calm>>
  /\ UNCHANGED <<service, follows, clock, row, states, seen, parked, old, stack, handled,
                 lost>>

Idle(c) == Block(c) /\ UNCHANGED serviceVars

-----------------------------------------------------------------------------
(* The recorder of task runs: events are the states of one task run.       *)

\* A variant with set_state as it would be without its correction, for RowIsLatest.
TimestampsMutant == clock

\* set_state: a state gets a later timestamp if its clock stands still.
Timestamps ==
  LET stamp[e \in Events] ==
        IF e - 1 \in Events /\ stamp[e - 1] = clock[e] THEN clock[e] + 1 ELSE clock[e]
  IN  stamp

StartRecording(c) ==
  /\ service = "recorder" /\ Take(c)
  /\ UNCHANGED serviceVars

\* record_task_run_event in its transaction: the row is inserted or updated, the state
\* is inserted unless it is there, the row's state is set unless it is newer.
Record(c) ==
  /\ service = "recorder" /\ place[c] = "handling"
  /\ LET e == message[c].event
     IN  /\ states' = states \cup {e}
         /\ row' = IF row.timestamp < Timestamps[e]
                     THEN [event |-> e, timestamp |-> Timestamps[e]] ELSE row
  /\ Ack(c)
  /\ UNCHANGED <<service, follows, clock, seen, parked, old, stack, handled, lost,
                 troubles, calm>>

\* The transaction fails and is rolled back.
RecordFails(c) ==
  /\ service = "recorder" /\ place[c] = "handling"
  /\ Trouble
  /\ Retry(c)
  /\ UNCHANGED <<service, follows, clock, row, states, seen, parked, old, stack,
                 handled, lost>>

-----------------------------------------------------------------------------
(* The triggers: message_handler and reactive_evaluation, whose context    *)
(* preceding_event_confirmed calls it again for the followers it finds.    *)

Frame(id, at) == [id |-> id, at |-> at, waiters |-> {}]
Top(t) == stack[t][Len(stack[t])]
Under(t) == SubSeq(stack[t], 1, Len(stack[t]) - 1)

\* A variant that takes a follower that is parked for one that may be handled, for
\* CausallyOrdered.
EntryMutant(id) ==
  LET leader == follows[id.event]
  IN  IF leader # None /\ leader \notin seen /\ id \notin old
           /\ \A p \in parked : p.event # id.event
        THEN Frame(id, "parking") ELSE Frame(id, "evaluating")

\* What preceding_event_confirmed makes of an event: a follower that is early is parked.
Entry(id) ==
  LET leader == follows[id.event]
  IN  IF leader # None /\ leader \notin seen /\ id \notin old
        THEN Frame(id, "parking") ELSE Frame(id, "evaluating")

\* message_handler drops what it has seen.
StartEvaluation(c) ==
  /\ service = "triggers" /\ Take(c)
  /\ stack' = [stack EXCEPT ![c] =
       IF message'[c].event \in seen THEN <<>> ELSE <<Entry(IdOf(message'[c]))>>]
  /\ UNCHANGED <<service, follows, clock, row, states, seen, parked, old, handled, lost,
                 troubles, calm>>

\* The outermost call has returned, or there was none.
EndEvaluation(c) ==
  /\ service = "triggers" /\ place[c] = "handling" /\ stack[c] = <<>>
  /\ Ack(c)
  /\ UNCHANGED serviceVars

\* Where an exception goes: to the consumer, which retries the message, or out of the
\* sweep, which has deleted the rows of what it was going to handle.
Raised(t) ==
  /\ stack' = [stack EXCEPT ![t] = <<>>]
  /\ IF t = Sweeper
       THEN /\ lost' = lost \cup {Top(t).id.event}
                 \cup {id.event : id \in stack[t][1].waiters}
            /\ UNCHANGED messagingVars
       ELSE Retry(t) /\ UNCHANGED lost

At(t, at) == stack[t] # <<>> /\ Top(t).at = at

\* A variant that parks a follower and goes on, for HandledOnce.
ParkMutant(c) ==
  /\ At(c, "parking")
  /\ parked' = parked \cup {Top(c).id}
  /\ stack' = [stack EXCEPT ![c] = Append(Under(c), Frame(Top(c).id, "evaluating"))]
  /\ UNCHANGED <<messagingVars, service, follows, clock, row, states, seen, old, handled,
                 lost, troubles, calm>>

\* record_follower, whose row is unique, and then EventArrivedEarly.
Park(c) ==
  /\ At(c, "parking")
  /\ IF \E p \in parked : p.event = Top(c).id.event
       THEN Raised(c) /\ UNCHANGED parked
       ELSE /\ parked' = parked \cup {Top(c).id}
            /\ stack' = [stack EXCEPT ![c] = <<>>]
            /\ UNCHANGED <<messagingVars, lost>>
  /\ UNCHANGED <<service, follows, clock, row, states, seen, old, handled, troubles,
                 calm>>

\* The triggers that cover the event are evaluated, and the event is seen.
Evaluate(t) ==
  /\ At(t, "evaluating")
  /\ handled' = [handled EXCEPT ![Top(t).id.event] = @ + 1]
  /\ seen' = seen \cup {Top(t).id.event}
  /\ stack' = [stack EXCEPT ![t] = Append(Under(t), Frame(Top(t).id, "reading"))]
  /\ UNCHANGED <<messagingVars, service, follows, clock, row, states, parked, old, lost,
                 troubles, calm>>

\* A trigger raises; what was evaluated before, and half of what raised, is committed.
EvaluationFails(t) ==
  /\ At(t, "evaluating")
  /\ Trouble
  /\ \/ UNCHANGED handled
     \/ handled' = [handled EXCEPT ![Top(t).id.event] = @ + 1]
  /\ Raised(t)
  /\ UNCHANGED <<service, follows, clock, row, states, seen, parked, old>>

\* get_followers.
ReadFollowers(t) ==
  /\ At(t, "reading")
  /\ LET followers == {p \in parked : follows[p.event] = Top(t).id.event}
     IN  stack' = [stack EXCEPT ![t] = Append(Under(t),
           [Frame(Top(t).id, "waiters") EXCEPT !.waiters = followers])]
  /\ UNCHANGED <<messagingVars, service, follows, clock, row, states, seen, parked, old,
                 handled, lost, troubles, calm>>

\* The sweeper's first frame stands for its loop.
Depth(t) == IF t = Sweeper THEN Len(stack[t]) - 1 ELSE Len(stack[t])

\* The followers are handled in the order in which they occurred, one level deeper.
NextWaiter(t) ==
  /\ At(t, "waiters")
  /\ \E id \in Top(t).waiters :
       /\ \A other \in Top(t).waiters : id.event <= other.event
       /\ IF Depth(t) > MaxDepth
            THEN Raised(t)
            ELSE /\ stack' = [stack EXCEPT ![t] =
                      Append(Append(Under(t), [Top(t) EXCEPT !.waiters = @ \ {id}]),
                             Entry(id))]
                 /\ UNCHANGED <<messagingVars, lost>>
  /\ UNCHANGED <<service, follows, clock, row, states, seen, parked, old, handled, troubles,
                 calm>>

\* All followers are handled: the event's own row goes, see forget_follower.
FinishFrame(t) ==
  /\ At(t, "waiters") /\ Top(t).waiters = {}
  /\ parked' = {p \in parked : p.event # Top(t).id.event}
  /\ stack' = [stack EXCEPT ![t] = Under(t)]
  /\ UNCHANGED <<messagingVars, service, follows, clock, row, states, seen, old, handled,
                 lost, troubles, calm>>

\* periodic_evaluation: get_lost_followers reads the rows that are too old and deletes
\* them; then they are handled.
Sweep ==
  /\ service = "triggers" /\ stack[Sweeper] = <<>> /\ parked \cap old # {}
  /\ parked' = parked \ old
  /\ stack' = [stack EXCEPT ![Sweeper] =
       <<[Frame([event |-> None, copy |-> 0], "waiters")
            EXCEPT !.waiters = parked \cap old]>>]
  /\ UNCHANGED <<messagingVars, service, follows, clock, row, states, seen, old, handled,
                 lost, troubles, calm>>

-----------------------------------------------------------------------------

GrowOld(id) ==
  /\ service = "triggers" /\ id.event \in DOMAIN follows /\ follows[id.event] # None
  /\ id.copy <= sends[id.event] /\ id \notin old
  /\ old' = old \cup {id}
  /\ UNCHANGED <<messagingVars, service, follows, clock, row, states, seen, parked, stack,
                 handled, lost, troubles, calm>>

InQueues == {queue[i].event : i \in DOMAIN queue} \cup {retries[i].event : i \in DOMAIN retries}
InHands == {message[c].event : c \in {d \in Consumers : place[d] = "handling"}}
InSweep ==
  (UNION {{stack[Sweeper][i].id.event} \cup
          {id.event : id \in stack[Sweeper][i].waiters}
            : i \in DOMAIN stack[Sweeper]}) \ {None}

\* The server stops and starts again.
Restart ==
  /\ Trouble
  /\ RestartMessaging
  /\ seen' = {}
  /\ stack' = [t \in Tasks |-> <<>>]
  /\ lost' = lost \cup InQueues \cup InHands \cup InSweep
  /\ UNCHANGED <<service, follows, clock, row, states, parked, old, handled>>

CallStep(t) ==
  Evaluate(t) \/ ReadFollowers(t) \/ NextWaiter(t) \/ FinishFrame(t)

ConsumerStep(c) ==
  \/ StartRecording(c) \/ Record(c)
  \/ StartEvaluation(c) \/ Park(c) \/ CallStep(c) \/ EndEvaluation(c)

Next ==
  \/ \E e \in Events : Emit(e)
  \/ \E c \in Consumers : Idle(c) \/ ConsumerStep(c) \/ RecordFails(c)
  \/ Sweep \/ CallStep(Sweeper)
  \/ \E t \in Tasks : EvaluationFails(t)
  \/ \E id \in Copy : GrowOld(id)
  \/ Restart

Spec == Init /\ [][Next]_vars

\* The tasks and the sweep are scheduled for as long as the server runs; time passes.
FairSpec ==
  /\ Spec
  /\ \A c \in Consumers : WF_vars(ConsumerStep(c))
  /\ WF_vars(Sweep \/ CallStep(Sweeper))
  /\ WF_vars(\E id \in Copy : GrowOld(id))

-----------------------------------------------------------------------------
(* Properties.                                                             *)

\* The types of the variables, which EventServicesProofs keeps along with its invariants.
TypeOK ==
  /\ MessagingTypeOK
  /\ row \in [event : Events \cup {None}, timestamp : Nat]
  /\ states \subseteq Events /\ seen \subseteq Events /\ lost \subseteq Events
  /\ parked \subseteq Copy /\ old \subseteq Copy
  /\ \A c \in Consumers : Len(stack[c]) <= MaxDepth + 1
  /\ handled \in [Events -> Nat]

\* The row of a task run shows the last of the states that were recorded, in whatever
\* order their events were sent, taken and retried (set_state, record_task_run_event).
RowIsLatest ==
  IF states = {} THEN row.event = None
  ELSE row.event \in states /\ \A e \in states : e <= row.event

\* Every event that was accepted is in a queue, with a task, in a table or evaluated,
\* but for what a stopping server or a failing sweep had in its hands.
NothingForgotten ==
  \A e \in Events : sends[e] > 0 =>
    \/ e \in states \/ handled[e] > 0 \/ e \in dead \cup lost
    \/ e \in InQueues \cup InHands \cup InSweep
    \/ \E p \in parked : p.event = e

\* The events that are too old to wait, and those that follow them, directly or through
\* others.
Overdue ==
  {e \in Events :
     \A S \in SUBSET Events :
       /\ \A id \in old : id.event \in S
       /\ \A d \in DOMAIN follows : follows[d] \in S => d \in S
       => e \in S}

\* As long as no event is sent twice, no handler raises and the server goes on, an
\* event is evaluated once, unless it or one before it is too old to wait: then the
\* sweep may handle it while the event it follows does, and each of the two handles
\* what follows it (message_handler, preceding_event_confirmed, get_lost_followers).
HandledOnce == calm => \A e \in Events : handled[e] > 1 => e \in Overdue

\* No event is evaluated before the event it follows, unless it is too old to wait.
CausallyOrdered ==
  [][\A e \in Events :
       handled'[e] > handled[e] /\ follows[e] # None =>
         \/ handled[follows[e]] > 0
         \/ \E t \in Tasks : /\ At(t, "evaluating") /\ Top(t).id.event = e
                             /\ Top(t).id \in old]_vars

\* Every event is recorded or evaluated in the end, or given up where it can be seen:
\* there is always a later moment at which this holds of all that were accepted.
EventsSettle ==
  []<>\A e \in Events :
    sends[e] > 0 => e \in states \/ handled[e] > 0 \/ e \in dead \cup lost

=============================================================================
