------------------------------ MODULE EventBus ------------------------------
(***************************************************************************)
(* RabbitMQ as MassTransit sets it up: each event type is an exchange, and *)
(* the Worker binds one durable queue to each when it starts for the first *)
(* time.  A message that is published while no queue is bound is dropped.  *)
(* A queue is a bag: concurrent deliveries and redeliveries give it no     *)
(* order that the consumers could rely on.                                 *)
(***************************************************************************)
EXTENDS OrderTables

CONSTANT QueuesDeclared  \* did a Worker declare its queues in an earlier run?

ASSUME QueuesDeclaredAssumption == QueuesDeclared \in BOOLEAN

VARIABLES bound,         \* are the Worker's queues bound to the exchanges?
          queue,         \* messages ready for delivery
          errorQueue,    \* messages moved to the _error queues
          acked          \* messages acknowledged after their handler returned

busVars == <<bound, queue, errorQueue, acked>>

Messages == [type : EventTypes, order : Orders]

OrderCreatedEvent(o)   == [type |-> "OrderCreated",   order |-> o]
OrderCompletedEvent(o) == [type |-> "OrderCompleted", order |-> o]
OrderExpiredEvent(o)   == [type |-> "OrderExpired",   order |-> o]

BusTypeOK ==
  /\ bound \in BOOLEAN
  /\ queue \in [Messages -> Nat]
  /\ errorQueue \in [Messages -> Nat]
  /\ acked \in [Messages -> Nat]

BusInit ==
  /\ bound = QueuesDeclared
  /\ queue = [m \in Messages |-> 0]
  /\ errorQueue = [m \in Messages |-> 0]
  /\ acked = [m \in Messages |-> 0]

-----------------------------------------------------------------------------

DeclareQueues ==
  /\ ~bound
  /\ bound' = TRUE
  /\ UNCHANGED <<queue, errorQueue, acked>>

Publish(m) ==
  /\ queue' = IF bound THEN [queue EXCEPT ![m] = @ + 1] ELSE queue
  /\ UNCHANGED <<bound, errorQueue, acked>>

Deliver(m) ==
  /\ queue[m] > 0
  /\ queue' = [queue EXCEPT ![m] = @ - 1]
  /\ UNCHANGED <<bound, errorQueue, acked>>

Acknowledge(m) ==
  /\ acked' = [acked EXCEPT ![m] = @ + 1]
  /\ UNCHANGED <<bound, queue, errorQueue>>

\* No retry policy is configured: the first exception moves the message.
MoveToErrorQueue(m) ==
  /\ errorQueue' = [errorQueue EXCEPT ![m] = @ + 1]
  /\ UNCHANGED <<bound, queue, acked>>

\* Mutant of Requeue: what was delivered counts as done (auto-acknowledge).
ForgetUnacked(unacked) == UNCHANGED busVars

\* The broker takes back what a lost consumer had not acknowledged.
Requeue(unacked) ==
  /\ queue' = [m \in Messages |-> queue[m] + unacked[m]]
  /\ UNCHANGED <<bound, errorQueue, acked>>

=============================================================================
