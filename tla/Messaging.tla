-------------------------------- MODULE Messaging --------------------------------
(***************************************************************************)
(* The topic of events in the server's memory, as one subscription and the *)
(* tasks of its consumer see it.  Messages are taken from two queues, and  *)
(* come back a few times if their handler fails.                           *)
(***************************************************************************)
EXTENDS Integers, Sequences, FiniteSets

CONSTANTS
  Events,       \* events, numbered in the order in which they occurred
  Consumers,    \* the tasks of the consumer, two in the code
  MaxSends,     \* a bound on the times an event is published
  MaxRetries,   \* max_retries of the subscription, 3 in the code
  None

ASSUME MessagingAssumption ==
  /\ Events \subseteq Nat \ {0} /\ IsFiniteSet(Events) /\ None \notin Events
  /\ MaxSends \in Nat \ {0} /\ MaxRetries \in Nat

Copy == [event : Events, copy : 1..MaxSends]
Message == [event : Events, copy : 1..MaxSends, retry_count : 0..MaxRetries]

VARIABLES
  sends,    \* how often each event was published
  queue,    \* the queue of new messages
  retries,  \* the queue of messages to be retried
  dead,     \* the dead letter queue
  place,    \* where each task is in its loop
  message   \* the message each task handles

messagingVars == <<sends, queue, retries, dead, place, message>>

MessagingInit ==
  /\ sends = [e \in Events |-> 0]
  /\ queue = <<>> /\ retries = <<>> /\ dead = {}
  /\ place = [c \in Consumers |-> "looking"]
  /\ message = [c \in Consumers |-> None]

\* publish_data: the cache of recent ids stops an event that is sent again, unless five
\* minutes have passed or the server was restarted.
Publish(e) ==
  /\ sends[e] < MaxSends
  /\ sends' = [sends EXCEPT ![e] = @ + 1]
  /\ \/ queue' = Append(queue, [event |-> e, copy |-> sends[e] + 1, retry_count |-> 0])
     \/ sends[e] > 0 /\ queue' = queue
  /\ UNCHANGED <<retries, dead, place, message>>

Handle(c, m) ==
  /\ place' = [place EXCEPT ![c] = "handling"]
  /\ message' = [message EXCEPT ![c] = m]

\* A variant that looks at the queue of new messages first, for EventsSettle.
BlockMutant(c) ==
  /\ place[c] = "looking" /\ queue = <<>>
  /\ place' = [place EXCEPT ![c] = "blocked"]
  /\ UNCHANGED <<sends, queue, retries, dead, message>>

\* Subscription.get looks at the queue of retries before it waits for a new message,
\* and not again until one comes.
TakeRetry(c) ==
  /\ place[c] = "looking" /\ retries # <<>>
  /\ Handle(c, Head(retries))
  /\ retries' = Tail(retries)
  /\ UNCHANGED <<sends, queue, dead>>

Block(c) ==
  /\ place[c] = "looking" /\ retries = <<>> /\ queue = <<>>
  /\ place' = [place EXCEPT ![c] = "blocked"]
  /\ UNCHANGED <<sends, queue, retries, dead, message>>

TakeNew(c) ==
  /\ place[c] = "blocked" \/ (place[c] = "looking" /\ retries = <<>>)
  /\ queue # <<>>
  /\ Handle(c, Head(queue))
  /\ queue' = Tail(queue)
  /\ UNCHANGED <<sends, retries, dead>>

Take(c) == TakeRetry(c) \/ TakeNew(c)

Return(c) ==
  /\ place' = [place EXCEPT ![c] = "looking"]
  /\ message' = [message EXCEPT ![c] = None]

\* The handler returned.
Ack(c) == Return(c) /\ UNCHANGED <<sends, queue, retries, dead>>

\* A variant without the dead letter queue, for NothingForgotten.
RetryMutant(c) ==
  /\ Return(c)
  /\ LET m == message[c]
     IN  retries' = IF m.retry_count = MaxRetries THEN retries
                    ELSE Append(retries, [m EXCEPT !.retry_count = @ + 1])
  /\ UNCHANGED <<sends, queue, dead>>

\* The handler raised: Subscription.retry.
Retry(c) ==
  /\ Return(c)
  /\ LET m == message[c]
     IN  IF m.retry_count = MaxRetries
           THEN dead' = dead \cup {m.event} /\ UNCHANGED retries
           ELSE /\ retries' = Append(retries, [m EXCEPT !.retry_count = @ + 1])
                /\ UNCHANGED dead
  /\ UNCHANGED <<sends, queue>>

\* The queues are in the server's memory, dead letters on its disk.
RestartMessaging ==
  /\ queue' = <<>> /\ retries' = <<>>
  /\ place' = [c \in Consumers |-> "looking"]
  /\ message' = [c \in Consumers |-> None]
  /\ UNCHANGED <<sends, dead>>

\* The types of the variables of this module, a part of those of EventServices.
MessagingTypeOK ==
  /\ sends \in [Events -> 0..MaxSends]
  /\ queue \in Seq(Message) /\ retries \in Seq(Message)
  /\ dead \subseteq Events
  /\ place \in [Consumers -> {"looking", "blocked", "handling"}]
  /\ message \in [Consumers -> Message \cup {None}]

=============================================================================
