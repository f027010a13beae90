------------------------------- MODULE Worker -------------------------------
(***************************************************************************)
(* The Worker service: three MassTransit consumers, each of which may run  *)
(* for several messages at once.  A handler is one running Consume call;   *)
(* its pc is the await that it is at.                                      *)
(*                                                                         *)
(*   OrderCreatedConsumer    loaded -> paying -> paid -> announcing        *)
(*   OrderCompletedConsumer  notifying                                     *)
(*   OrderExpiredConsumer    notifying                                     *)
(*                                                                         *)
(* A handler that returns goes to `acking': MassTransit acknowledges the   *)
(* message only then.  A handler whose connection to the broker was lost   *)
(* runs on, but what it acknowledges no longer counts (live = FALSE): the  *)
(* broker has given the message to a queue again.                          *)
(***************************************************************************)
EXTENDS EventBus, FiniteSets

CONSTANTS Handlers,      \* the Consume calls that may run at a time
          NoMessage      \* what an idle handler works on

ASSUME HandlersAssumption == IsFiniteSet(Handlers)
ASSUME NoMessageAssumption == NoMessage \notin Messages

VARIABLES handler,       \* the state of each Consume call
          charges,       \* history: payments taken for an order
          emails         \* history: completion emails sent for an order

workerVars == <<handler, charges, emails>>

HandlerPCs ==
  {"idle", "loaded", "paying", "paid", "announcing", "notifying", "acking"}

Idle == [pc |-> "idle", msg |-> NoMessage, tracked |-> "unused", live |-> TRUE]

HandlerStates ==
  [pc : HandlerPCs, msg : Messages \cup {NoMessage},
   tracked : RowStates, live : BOOLEAN]

WorkerTypeOK ==
  /\ handler \in [Handlers -> HandlerStates]
  /\ \A h \in Handlers :
       handler[h].pc = "idle" <=> handler[h].msg = NoMessage
  /\ charges \in [Orders -> Nat]
  /\ emails \in [Orders -> Nat]

WorkerInit ==
  /\ handler = [h \in Handlers |-> Idle]
  /\ charges = [o \in Orders |-> 0]
  /\ emails = [o \in Orders |-> 0]

Busy(h) == handler[h].pc # "idle"

\* The broker still holds m as delivered to h and not acknowledged.
Holds(h, m) == handler[h].msg = m /\ handler[h].live

-----------------------------------------------------------------------------
(* Steps that every handler shares.                                        *)

\* A free handler is given message m and comes to its first await.
Take(h, m, pc, tracked) ==
  /\ ~Busy(h)
  /\ Deliver(m)
  /\ handler' = [handler EXCEPT ![h] =
       [pc |-> pc, msg |-> m, tracked |-> tracked, live |-> TRUE]]

Goto(h, pc) == handler' = [handler EXCEPT ![h].pc = pc]

\* Consume returns and its scope, with the tracked order, is disposed of.
Finish(h) ==
  handler' = [handler EXCEPT ![h].pc = "acking", ![h].tracked = "unused"]

\* MassTransit acknowledges the message of a Consume that returned.
Ack(h) ==
  /\ handler[h].pc = "acking"
  /\ IF handler[h].live THEN Acknowledge(handler[h].msg)
                        ELSE UNCHANGED busVars
  /\ handler' = [handler EXCEPT ![h] = Idle]
  /\ UNCHANGED <<tableVars, charges, emails>>

\* Mutant of GiveUp: the exception is caught and the message acknowledged.
SwallowException(h) ==
  /\ Finish(h)
  /\ UNCHANGED <<tableVars, busVars, charges, emails>>

\* Mutant of GiveUp: the message goes back to its queue.
RetryAtOnce(h) ==
  /\ queue' = [queue EXCEPT ![handler[h].msg] = @ + 1]
  /\ handler' = [handler EXCEPT ![h] = Idle]
  /\ UNCHANGED <<bound, errorQueue, acked, tableVars, charges, emails>>

\* Consume threw; MassTransit gives up on the message.
GiveUp(h) ==
  /\ IF handler[h].live THEN MoveToErrorQueue(handler[h].msg)
                        ELSE UNCHANGED busVars
  /\ handler' = [handler EXCEPT ![h] = Idle]
  /\ UNCHANGED <<tableVars, charges, emails>>

-----------------------------------------------------------------------------
(* OrderCreatedConsumer.                                                   *)

\* Mutant of ReceiveOrderCreated: the status is not saved before the payment.
PayAtOnce(h, o) ==
  /\ Take(h, OrderCreatedEvent(o), "paying", "processing")
  /\ UNCHANGED <<tableVars, charges, emails>>

\* Load the order; one that was deleted meanwhile is skipped.
ReceiveOrderCreated(h, o) ==
  /\ IF Exists(o) THEN Take(h, OrderCreatedEvent(o), "loaded", status[o])
                  ELSE Take(h, OrderCreatedEvent(o), "acking", "unused")
  /\ UNCHANGED <<tableVars, charges, emails>>

MarkProcessing(h) ==
  LET o == handler[h].msg.order IN
  /\ handler[h].pc = "loaded"
  /\ UpdateOrder(o, handler[h].tracked, "processing")
  /\ handler' = [handler EXCEPT ![h].pc = "paying",
                                ![h].tracked = "processing"]
  /\ UNCHANGED <<busVars, charges, emails>>

\* The simulated payment goes through.
PaymentSucceeds(h) ==
  /\ handler[h].pc = "paying"
  /\ charges' = [charges EXCEPT ![handler[h].msg.order] = @ + 1]
  /\ Goto(h, "paid")
  /\ UNCHANGED <<tableVars, busVars, emails>>

\* Mutant of PaymentFails: the result is not looked at.
PaymentIgnored(h) ==
  /\ handler[h].pc = "paying"
  /\ Goto(h, "paid")
  /\ UNCHANGED <<tableVars, busVars, charges, emails>>

\* Mutant of PaymentFails: the failure is saved, in a status that the CHECK of
\* the orders table does not have.
PaymentFailureSaved(h) ==
  /\ handler[h].pc = "paying"
  /\ UpdateOrder(handler[h].msg.order, handler[h].tracked, "failed")
  /\ Finish(h)
  /\ UNCHANGED <<busVars, charges, emails>>

\* The simulated payment fails; the order is left in processing.
PaymentFails(h) ==
  /\ handler[h].pc = "paying"
  /\ Finish(h)
  /\ UNCHANGED <<tableVars, busVars, charges, emails>>

\* Mutant of CompleteOrder: the consumer returns without the event.
CompleteSilently(h) ==
  /\ handler[h].pc = "paid"
  /\ UpdateOrder(handler[h].msg.order, handler[h].tracked, "completed")
  /\ Finish(h)
  /\ UNCHANGED <<busVars, charges, emails>>

\* The payment went through: the order is saved as completed.
CompleteOrder(h) ==
  LET o == handler[h].msg.order IN
  /\ handler[h].pc = "paid"
  /\ UpdateOrder(o, handler[h].tracked, "completed")
  /\ handler' = [handler EXCEPT ![h].pc = "announcing",
                                ![h].tracked = "completed"]
  /\ UNCHANGED <<busVars, charges, emails>>

AnnounceCompleted(h) ==
  /\ handler[h].pc = "announcing"
  /\ Publish(OrderCompletedEvent(handler[h].msg.order))
  /\ Finish(h)
  /\ UNCHANGED <<tableVars, charges, emails>>

-----------------------------------------------------------------------------
(* OrderCompletedConsumer and OrderExpiredConsumer.                        *)

\* The email goes out before the notification row is written.
ReceiveOrderCompleted(h, o) ==
  /\ Take(h, OrderCompletedEvent(o), "notifying", "unused")
  /\ emails' = [emails EXCEPT ![o] = @ + 1]
  /\ UNCHANGED <<tableVars, charges>>

ReceiveOrderExpired(h, o) ==
  /\ Take(h, OrderExpiredEvent(o), "notifying", "unused")
  /\ UNCHANGED <<tableVars, charges, emails>>

SaveNotification(h) ==
  LET m == handler[h].msg IN
  /\ handler[h].pc = "notifying"
  /\ InsertNotification(m.order, m.type)
  /\ Finish(h)
  /\ UNCHANGED <<busVars, charges, emails>>

\* Mutant of SaveFindsNoOrder: an order that changed is refused as well.
SaveFindsChange(h) ==
  LET o == handler[h].msg.order IN
  /\ \/ handler[h].pc \in {"loaded", "paid", "notifying"} /\ ~Exists(o)
     \/ handler[h].pc \in {"loaded", "paid"} /\ status[o] # handler[h].tracked
  /\ GiveUp(h)

\* The save that a handler is about to make finds that the order is gone.
SaveFindsNoOrder(h) ==
  /\ handler[h].pc \in {"loaded", "paid", "notifying"}
  /\ ~Exists(handler[h].msg.order)
  /\ GiveUp(h)

-----------------------------------------------------------------------------
(* The process: its first start, and what can go wrong with it.            *)

WorkerStart == DeclareQueues /\ UNCHANGED <<tableVars, workerVars>>

\* A database or broker call throws although the order is there; what the call
\* was to save may have been committed all the same.
ConsumerThrows(h) == Busy(h) /\ GiveUp(h)

\* As above, for a publish that reached the broker before it threw.
AnnounceThrows(h) ==
  LET m == handler[h].msg IN
  /\ handler[h].pc = "announcing" /\ bound
  /\ queue' = [queue EXCEPT ![OrderCompletedEvent(m.order)] = @ + 1]
  /\ errorQueue' = IF handler[h].live
                     THEN [errorQueue EXCEPT ![m] = @ + 1] ELSE errorQueue
  /\ handler' = [handler EXCEPT ![h] = Idle]
  /\ UNCHANGED <<bound, acked, tableVars, charges, emails>>

UnackedDeliveries ==
  [m \in Messages |-> Cardinality({h \in Handlers : Holds(h, m)})]

\* The process dies and is restarted (restart: unless-stopped).
WorkerCrash ==
  /\ \E h \in Handlers : Busy(h)
  /\ Requeue(UnackedDeliveries)
  /\ handler' = [h \in Handlers |-> Idle]
  /\ UNCHANGED <<tableVars, charges, emails>>

\* The connection drops and recovers; the running handlers go on.
ConnectionLost ==
  /\ \E h \in Handlers : Busy(h) /\ handler[h].live
  /\ Requeue(UnackedDeliveries)
  /\ handler' = [h \in Handlers |->
       IF Busy(h) THEN [handler[h] EXCEPT !.live = FALSE] ELSE handler[h]]
  /\ UNCHANGED <<tableVars, charges, emails>>

-----------------------------------------------------------------------------

HandlerStep(h) ==
  \/ MarkProcessing(h)
  \/ PaymentSucceeds(h)
  \/ PaymentFails(h)
  \/ CompleteOrder(h)
  \/ AnnounceCompleted(h)
  \/ SaveNotification(h)
  \/ SaveFindsNoOrder(h)
  \/ Ack(h)

Receive(o) == \E h \in Handlers :
  \/ ReceiveOrderCreated(h, o)
  \/ ReceiveOrderCompleted(h, o)
  \/ ReceiveOrderExpired(h, o)

HandlerThrows == \E h \in Handlers : ConsumerThrows(h) \/ AnnounceThrows(h)

\* The broker delivers again what was not acknowledged.
Redelivery == WorkerCrash \/ ConnectionLost

=============================================================================
