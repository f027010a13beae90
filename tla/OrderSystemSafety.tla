-------------------------- MODULE OrderSystemSafety --------------------------
(***************************************************************************)
(* Type correctness and safety of OrderSystem for any number of orders,    *)
(* handlers, requests, sweeps, edits, errors and redeliveries.  The typing *)
(* of what each database and broker operation writes is stated once, as a  *)
(* lemma.                                                                  *)
(***************************************************************************)
EXTENDS OrderSystem, FiniteSetTheorems, TLAPS

-----------------------------------------------------------------------------
(* The tables.                                                             *)

LEMMA InsertOrderType ==
  ASSUME TablesTypeOK, NEW o \in Orders, InsertOrder(o)
  PROVE  TablesTypeOK'
BY DEF TablesTypeOK, InsertOrder, RowStates, OrderStatuses

LEMMA UpdateOrderType ==
  ASSUME TablesTypeOK, NEW o \in Orders, NEW s, NEW new \in RowStates,
         UpdateOrder(o, s, new)
  PROVE  TablesTypeOK'
BY DEF TablesTypeOK, UpdateOrder, Overwritten

LEMMA UpdateOrdersType ==
  ASSUME TablesTypeOK, NEW batch, NEW new \in RowStates,
         UpdateOrders(batch, new)
  PROVE  TablesTypeOK'
BY DEF TablesTypeOK, UpdateOrders

LEMMA NoNotificationsType == NoNotifications \in [EventTypes -> Nat]
BY DEF NoNotifications

LEMMA DeleteOrdersType ==
  ASSUME TablesTypeOK, NEW gone \in SUBSET Orders, DeleteOrders(gone)
  PROVE  TablesTypeOK'
BY NoNotificationsType DEF TablesTypeOK, DeleteOrders, RowStates

LEMMA InsertNotificationType ==
  ASSUME TablesTypeOK, NEW o \in Orders, NEW e \in EventTypes,
         InsertNotification(o, e)
  PROVE  TablesTypeOK'
<1> DEFINE rows == [notifications[o] EXCEPT ![e] = @ + 1]
<1>1. rows \in [EventTypes -> Nat]
  BY DEF TablesTypeOK
<1>2. notifications' = [notifications EXCEPT ![o] = rows]
  BY DEF InsertNotification
<1>3. notifications' \in [Orders -> [EventTypes -> Nat]]
  <2> HIDE DEF rows
  <2> QED
    BY <1>1, <1>2 DEF TablesTypeOK
<1> QED
  BY <1>3 DEF TablesTypeOK, InsertNotification

LEMMA BecomeStaleType ==
  ASSUME TablesTypeOK, NEW o \in Orders, BecomeStale(o)
  PROVE  TablesTypeOK'
BY DEF TablesTypeOK, BecomeStale

LEMMA TablesUnchangedType ==
  ASSUME TablesTypeOK, UNCHANGED tableVars
  PROVE  TablesTypeOK'
BY DEF TablesTypeOK, tableVars

-----------------------------------------------------------------------------
(* The bus.                                                                *)

LEMMA EventsAreMessages ==
  ASSUME NEW o \in Orders
  PROVE  /\ OrderCreatedEvent(o) \in Messages
         /\ OrderCompletedEvent(o) \in Messages
         /\ OrderExpiredEvent(o) \in Messages
BY DEF Messages, EventTypes, OrderCreatedEvent, OrderCompletedEvent,
       OrderExpiredEvent

LEMMA MessageFields ==
  ASSUME NEW m \in Messages
  PROVE  m.order \in Orders /\ m.type \in EventTypes
BY DEF Messages

LEMMA PublishType ==
  ASSUME BusTypeOK, NEW m \in Messages, Publish(m)
  PROVE  BusTypeOK'
BY DEF BusTypeOK, Publish

LEMMA DeliverType ==
  ASSUME BusTypeOK, NEW m \in Messages, Deliver(m)
  PROVE  BusTypeOK'
<1>1. queue[m] - 1 \in Nat
  BY DEF BusTypeOK, Deliver
<1> QED
  BY <1>1 DEF BusTypeOK, Deliver

LEMMA AcknowledgeType ==
  ASSUME BusTypeOK, NEW m \in Messages, Acknowledge(m)
  PROVE  BusTypeOK'
BY DEF BusTypeOK, Acknowledge

LEMMA MoveToErrorQueueType ==
  ASSUME BusTypeOK, NEW m \in Messages, MoveToErrorQueue(m)
  PROVE  BusTypeOK'
BY DEF BusTypeOK, MoveToErrorQueue

LEMMA RequeueType ==
  ASSUME BusTypeOK, NEW unacked \in [Messages -> Nat], Requeue(unacked)
  PROVE  BusTypeOK'
BY DEF BusTypeOK, Requeue

LEMMA BusUnchangedType ==
  ASSUME BusTypeOK, UNCHANGED busVars
  PROVE  BusTypeOK'
BY DEF BusTypeOK, busVars

LEMMA UnackedDeliveriesType == UnackedDeliveries \in [Messages -> Nat]
<1> SUFFICES ASSUME NEW m \in Messages
             PROVE  Cardinality({h \in Handlers : Holds(h, m)}) \in Nat
  BY DEF UnackedDeliveries
<1>1. IsFiniteSet({h \in Handlers : Holds(h, m)})
  BY HandlersAssumption, FS_Subset
<1> QED
  BY <1>1, FS_CardinalityType

-----------------------------------------------------------------------------
(* WebApi.                                                                 *)

LEMMA ApiUnchangedType ==
  ASSUME ApiTypeOK, UNCHANGED apiVars
  PROVE  ApiTypeOK'
BY DEF ApiTypeOK, apiVars

LEMMA BeginType ==
  ASSUME ApiTypeOK, NEW r \in Requests, NEW o \in Orders,
         NEW pc \in {"publishing", "updating", "deleting"},
         NEW s \in RowStates, NEW t \in RowStates,
         Begin(r, pc, o, s, t), accepted' \in SUBSET Orders
  PROVE  ApiTypeOK'
BY NoOrderAssumption DEF ApiTypeOK, Begin, RequestStates

LEMMA RespondType ==
  ASSUME ApiTypeOK, NEW r \in Requests, Respond(r),
         accepted' \in SUBSET Orders
  PROVE  ApiTypeOK'
BY DEF ApiTypeOK, Respond, Free, RequestStates, RowStates

LEMMA ServingOrder ==
  ASSUME ApiTypeOK, NEW r \in Requests, Serving(r)
  PROVE  request[r].order \in Orders
BY DEF ApiTypeOK, Serving, RequestStates

LEMMA CreateOrderType ==
  ASSUME TypeOK, NEW r \in Requests, NEW o \in Orders, CreateOrder(r, o)
  PROVE  TablesTypeOK' /\ BusTypeOK' /\ ApiTypeOK'
<1>1. TablesTypeOK'
  BY InsertOrderType DEF TypeOK, CreateOrder
<1>2. BusTypeOK'
  BY BusUnchangedType DEF TypeOK, CreateOrder
<1>3. ApiTypeOK'
  BY BeginType DEF TypeOK, CreateOrder, RowStates, OrderStatuses, ApiTypeOK
<1> QED
  BY <1>1, <1>2, <1>3

LEMMA LoadType ==
  ASSUME TypeOK, NEW r \in Requests, NEW o \in Orders,
         \/ \E new \in ClientEdits \cap OrderStatuses : LoadForUpdate(r, o, new)
         \/ LoadForDelete(r, o)
  PROVE  TablesTypeOK' /\ BusTypeOK' /\ ApiTypeOK'
<1>1. TablesTypeOK' /\ BusTypeOK' /\ accepted' \in SUBSET Orders
  BY TablesUnchangedType, BusUnchangedType
     DEF TypeOK, LoadForUpdate, LoadForDelete, ApiTypeOK
<1>2. ApiTypeOK
  BY DEF TypeOK
<1>3. status[o] \in RowStates
  BY DEF TypeOK, TablesTypeOK
<1>4. CASE \E new \in ClientEdits \cap OrderStatuses : LoadForUpdate(r, o, new)
  <2>1. PICK new \in ClientEdits \cap OrderStatuses : LoadForUpdate(r, o, new)
    BY <1>4
  <2>2. new \in RowStates
    BY ClientEditsAssumption DEF RowStates
  <2> QED
    BY <1>1, <1>2, <1>3, <2>1, <2>2, BeginType DEF LoadForUpdate
<1>5. CASE LoadForDelete(r, o)
  <2>1. "unused" \in RowStates
    BY DEF RowStates
  <2> QED
    BY <1>1, <1>2, <1>5, <2>1, BeginType DEF LoadForDelete
<1> QED
  BY <1>4, <1>5

LEMMA RequestStepType ==
  ASSUME TypeOK, NEW r \in Requests, RequestStep(r) \/ RequestAborts(r)
  PROVE  TablesTypeOK' /\ BusTypeOK' /\ ApiTypeOK'
<1> DEFINE o == request[r].order
<1>1. Serving(r)
  BY DEF RequestStep, AnnounceCreated, NoteCreated, ReturnCreated, SaveUpdate,
         SaveDelete, RequestFindsNoOrder, RequestAborts, Serving
<1>2. o \in Orders /\ request[r].target \in RowStates
  BY <1>1, ServingOrder DEF TypeOK, ApiTypeOK, RequestStates
<1>3. OrderCreatedEvent(o) \in Messages
  BY <1>2, EventsAreMessages
<1>4. TablesTypeOK /\ BusTypeOK /\ ApiTypeOK /\ accepted \in SUBSET Orders
  BY DEF TypeOK, ApiTypeOK
<1>5. CASE AnnounceCreated(r)
  <2>1. TablesTypeOK' /\ BusTypeOK'
    BY <1>3, <1>4, <1>5, TablesUnchangedType, PublishType DEF AnnounceCreated
  <2>2. ApiTypeOK'
    BY <1>2, <1>4, <1>5, NoOrderAssumption
       DEF AnnounceCreated, ApiTypeOK, RequestStates
  <2> QED
    BY <2>1, <2>2
<1>6. CASE NoteCreated(r)
  <2>1. "OrderCreated" \in EventTypes
    BY DEF EventTypes
  <2>2. TablesTypeOK' /\ BusTypeOK'
    BY <1>2, <1>4, <1>6, <2>1, InsertNotificationType, BusUnchangedType
       DEF NoteCreated
  <2>3. ApiTypeOK'
    BY <1>4, <1>6 DEF NoteCreated, ApiTypeOK, RequestStates
  <2> QED
    BY <2>2, <2>3
<1>7. CASE SaveUpdate(r)
  BY <1>2, <1>4, <1>7, UpdateOrderType, BusUnchangedType, RespondType
     DEF SaveUpdate
<1>8. CASE SaveDelete(r)
  BY <1>2, <1>4, <1>8, DeleteOrdersType, BusUnchangedType, RespondType
     DEF SaveDelete
<1>9. CASE RequestFindsNoOrder(r)
  BY <1>4, <1>9, TablesUnchangedType, BusUnchangedType, RespondType
     DEF RequestFindsNoOrder
<1>10. CASE RequestAborts(r)
  <2>1. BusTypeOK'
    BY <1>3, <1>4, <1>10, BusUnchangedType, PublishType DEF RequestAborts
  <2> QED
    BY <1>4, <1>10, <2>1, TablesUnchangedType, RespondType DEF RequestAborts
<1>11. CASE ReturnCreated(r)
  BY <1>2, <1>4, <1>11, TablesUnchangedType, BusUnchangedType, RespondType
     DEF ReturnCreated
<1> QED
  BY <1>5, <1>6, <1>7, <1>8, <1>9, <1>10, <1>11 DEF RequestStep

LEMMA CascadeType ==
  ASSUME TypeOK, CascadeToOrders
  PROVE  TablesTypeOK' /\ BusTypeOK' /\ ApiTypeOK'
<1>1. PICK owned \in SUBSET Orders : DeleteOrders(owned)
  BY DEF CascadeToOrders
<1> QED
  BY <1>1, DeleteOrdersType, BusUnchangedType, ApiUnchangedType
     DEF TypeOK, CascadeToOrders

-----------------------------------------------------------------------------
(* Worker.                                                                 *)

LEMMA WorkerUnchangedType ==
  ASSUME WorkerTypeOK, UNCHANGED workerVars
  PROVE  WorkerTypeOK'
BY DEF WorkerTypeOK, workerVars

LEMMA IdleType == Idle \in HandlerStates
BY DEF Idle, HandlerStates, HandlerPCs, RowStates

LEMMA BusyMessage ==
  ASSUME WorkerTypeOK, NEW h \in Handlers, Busy(h)
  PROVE  /\ handler[h].msg \in Messages
         /\ handler[h].msg.order \in Orders
         /\ handler[h].msg.type \in EventTypes
<1>1. handler[h].msg \in Messages
  BY DEF WorkerTypeOK, Busy, HandlerStates
<1> QED
  BY <1>1, MessageFields

LEMMA HandlerIdleType ==
  ASSUME WorkerTypeOK, NEW h \in Handlers,
         handler' = [handler EXCEPT ![h] = Idle], UNCHANGED <<charges, emails>>
  PROVE  WorkerTypeOK'
<1>1. handler' \in [Handlers -> HandlerStates]
  BY IdleType DEF WorkerTypeOK
<1>2. ASSUME NEW g \in Handlers
      PROVE  handler'[g].pc = "idle" <=> handler'[g].msg = NoMessage
  BY DEF WorkerTypeOK, Idle
<1> QED
  BY <1>1, <1>2 DEF WorkerTypeOK

LEMMA TakeType ==
  ASSUME WorkerTypeOK, BusTypeOK, NEW h \in Handlers, NEW m \in Messages,
         NEW pc \in HandlerPCs \ {"idle"}, NEW s \in RowStates,
         Take(h, m, pc, s),
         charges' \in [Orders -> Nat], emails' \in [Orders -> Nat]
  PROVE  WorkerTypeOK' /\ BusTypeOK'
<1> DEFINE new == [pc |-> pc, msg |-> m, tracked |-> s, live |-> TRUE]
<1>1. new \in HandlerStates /\ new.pc # "idle" /\ new.msg # NoMessage
  BY NoMessageAssumption DEF HandlerStates
<1>2. handler' = [handler EXCEPT ![h] = new]
  BY DEF Take
<1>3. WorkerTypeOK'
  <2> HIDE DEF new
  <2> QED
    BY <1>1, <1>2 DEF WorkerTypeOK
<1>4. BusTypeOK'
  BY DeliverType DEF Take
<1> QED
  BY <1>3, <1>4

\* A busy handler that goes on to another await keeps its message.
LEMMA HandlerMovesType ==
  ASSUME WorkerTypeOK, NEW h \in Handlers, Busy(h),
         NEW pc \in HandlerPCs \ {"idle"}, NEW s \in RowStates,
         \/ handler' = [handler EXCEPT ![h].pc = pc]
         \/ handler' = [handler EXCEPT ![h].pc = pc, ![h].tracked = s],
         charges' \in [Orders -> Nat], emails' \in [Orders -> Nat]
  PROVE  WorkerTypeOK'
<1>1. handler' \in [Handlers -> HandlerStates]
  BY DEF WorkerTypeOK, HandlerStates
<1>2. ASSUME NEW g \in Handlers
      PROVE  handler'[g].pc = "idle" <=> handler'[g].msg = NoMessage
  BY DEF WorkerTypeOK, Busy, HandlerStates
<1> QED
  BY <1>1, <1>2 DEF WorkerTypeOK

LEMMA ReceiveType ==
  ASSUME TypeOK, NEW o \in Orders, Receive(o)
  PROVE  TablesTypeOK' /\ BusTypeOK' /\ WorkerTypeOK'
<1>1. PICK h \in Handlers : \/ ReceiveOrderCreated(h, o)
                           \/ ReceiveOrderCompleted(h, o)
                           \/ ReceiveOrderExpired(h, o)
  BY DEF Receive
<1>2. /\ TablesTypeOK /\ BusTypeOK /\ WorkerTypeOK
      /\ charges \in [Orders -> Nat] /\ emails \in [Orders -> Nat]
      /\ status[o] \in RowStates /\ "unused" \in RowStates
      /\ {"loaded", "acking", "notifying"} \subseteq HandlerPCs \ {"idle"}
  BY DEF TypeOK, WorkerTypeOK, TablesTypeOK, RowStates, HandlerPCs
<1>3. CASE ReceiveOrderCreated(h, o)
  BY <1>2, <1>3, EventsAreMessages, TakeType, TablesUnchangedType
     DEF ReceiveOrderCreated
<1>4. CASE ReceiveOrderCompleted(h, o)
  <2>1. emails' \in [Orders -> Nat]
    BY <1>2, <1>4 DEF ReceiveOrderCompleted
  <2> QED
    BY <1>2, <1>4, <2>1, EventsAreMessages, TakeType, TablesUnchangedType
       DEF ReceiveOrderCompleted
<1>5. CASE ReceiveOrderExpired(h, o)
  BY <1>2, <1>5, EventsAreMessages, TakeType, TablesUnchangedType
     DEF ReceiveOrderExpired
<1> QED
  BY <1>1, <1>3, <1>4, <1>5

LEMMA GiveUpType ==
  ASSUME TypeOK, NEW h \in Handlers, Busy(h), GiveUp(h)
  PROVE  TablesTypeOK' /\ BusTypeOK' /\ WorkerTypeOK'
<1>1. TablesTypeOK /\ BusTypeOK /\ WorkerTypeOK /\ handler[h].msg \in Messages
  BY BusyMessage DEF TypeOK
<1>2. BusTypeOK'
  BY <1>1, MoveToErrorQueueType, BusUnchangedType DEF GiveUp
<1>3. WorkerTypeOK'
  BY <1>1, HandlerIdleType DEF GiveUp
<1> QED
  BY <1>1, <1>2, <1>3, TablesUnchangedType DEF GiveUp

LEMMA HandlerStepType ==
  ASSUME TypeOK, NEW h \in Handlers, HandlerStep(h)
  PROVE  TablesTypeOK' /\ BusTypeOK' /\ WorkerTypeOK'
<1> DEFINE m == handler[h].msg
<1>1. Busy(h)
  BY DEF HandlerStep, MarkProcessing, PaymentSucceeds, PaymentFails,
         CompleteOrder, AnnounceCompleted, SaveNotification, SaveFindsNoOrder,
         Ack, Busy
<1>2. /\ TablesTypeOK /\ BusTypeOK /\ WorkerTypeOK
      /\ charges \in [Orders -> Nat] /\ emails \in [Orders -> Nat]
      /\ {"processing", "completed", "unused"} \subseteq RowStates
      /\ {"paying", "paid", "announcing", "acking"} \subseteq HandlerPCs \ {"idle"}
  BY DEF TypeOK, WorkerTypeOK, RowStates, OrderStatuses, HandlerPCs
<1>3. m \in Messages /\ m.order \in Orders /\ m.type \in EventTypes
  BY <1>1, <1>2, BusyMessage
<1>4. CASE MarkProcessing(h)
  BY <1>1, <1>2, <1>3, <1>4, UpdateOrderType, BusUnchangedType,
     HandlerMovesType DEF MarkProcessing
<1>5. CASE PaymentSucceeds(h)
  <2>1. charges' \in [Orders -> Nat]
    BY <1>2, <1>3, <1>5 DEF PaymentSucceeds
  <2> QED
    BY <1>1, <1>2, <1>5, <2>1, TablesUnchangedType, BusUnchangedType,
       HandlerMovesType DEF PaymentSucceeds, Goto
<1>6. CASE PaymentFails(h)
  BY <1>1, <1>2, <1>6, TablesUnchangedType, BusUnchangedType,
     HandlerMovesType DEF PaymentFails, Finish
<1>7. CASE CompleteOrder(h)
  BY <1>1, <1>2, <1>3, <1>7, UpdateOrderType, BusUnchangedType,
     HandlerMovesType DEF CompleteOrder
<1>8. CASE AnnounceCompleted(h)
  BY <1>1, <1>2, <1>3, <1>8, EventsAreMessages, TablesUnchangedType,
     PublishType, HandlerMovesType DEF AnnounceCompleted, Finish
<1>9. CASE SaveNotification(h)
  BY <1>1, <1>2, <1>3, <1>9, InsertNotificationType, BusUnchangedType,
     HandlerMovesType DEF SaveNotification, Finish
<1>10. CASE SaveFindsNoOrder(h)
  BY <1>1, <1>10, GiveUpType DEF SaveFindsNoOrder
<1>11. CASE Ack(h)
  <2>1. BusTypeOK'
    BY <1>2, <1>3, <1>11, AcknowledgeType, BusUnchangedType DEF Ack
  <2>2. WorkerTypeOK'
    BY <1>2, <1>11, HandlerIdleType DEF Ack
  <2> QED
    BY <1>2, <1>11, <2>1, <2>2, TablesUnchangedType DEF Ack
<1> QED
  BY <1>4, <1>5, <1>6, <1>7, <1>8, <1>9, <1>10, <1>11 DEF HandlerStep

LEMMA HandlerThrowsType ==
  ASSUME TypeOK, HandlerThrows
  PROVE  TablesTypeOK' /\ BusTypeOK' /\ WorkerTypeOK'
<1>1. PICK h \in Handlers : ConsumerThrows(h) \/ AnnounceThrows(h)
  BY DEF HandlerThrows
<1>2. CASE ConsumerThrows(h)
  BY <1>2, GiveUpType DEF ConsumerThrows
<1>3. CASE AnnounceThrows(h)
  <2>1. TablesTypeOK /\ BusTypeOK /\ WorkerTypeOK /\ Busy(h)
    BY <1>3 DEF TypeOK, AnnounceThrows, Busy
  <2>2. handler[h].msg \in Messages /\ handler[h].msg.order \in Orders
    BY <2>1, BusyMessage
  <2>3. BusTypeOK'
    BY <1>3, <2>1, <2>2, EventsAreMessages DEF AnnounceThrows, BusTypeOK
  <2>4. WorkerTypeOK'
    BY <1>3, <2>1, HandlerIdleType DEF AnnounceThrows
  <2> QED
    BY <1>3, <2>1, <2>3, <2>4, TablesUnchangedType DEF AnnounceThrows
<1> QED
  BY <1>1, <1>2, <1>3

LEMMA RedeliveryType ==
  ASSUME TypeOK, Redelivery
  PROVE  TablesTypeOK' /\ BusTypeOK' /\ WorkerTypeOK'
<1>1. TablesTypeOK' /\ BusTypeOK'
  BY UnackedDeliveriesType, RequeueType, TablesUnchangedType
     DEF TypeOK, Redelivery, WorkerCrash, ConnectionLost
<1>2. CASE WorkerCrash
  BY <1>1, <1>2, IdleType DEF TypeOK, WorkerTypeOK, WorkerCrash, Idle
<1>3. CASE ConnectionLost
  <2>1. handler' \in [Handlers -> HandlerStates]
    BY <1>3 DEF TypeOK, WorkerTypeOK, ConnectionLost, HandlerStates
  <2>2. ASSUME NEW h \in Handlers
        PROVE  handler'[h].pc = "idle" <=> handler'[h].msg = NoMessage
    BY <1>3 DEF TypeOK, WorkerTypeOK, ConnectionLost, HandlerStates
  <2> QED
    BY <1>1, <1>3, <2>1, <2>2 DEF TypeOK, WorkerTypeOK, ConnectionLost
<1> QED
  BY <1>2, <1>3 DEF Redelivery

-----------------------------------------------------------------------------
(* CronJob.                                                                *)

LEMMA CronUnchangedType ==
  ASSUME CronTypeOK, UNCHANGED cronVars
  PROVE  CronTypeOK'
BY DEF CronTypeOK, cronVars

LEMMA SweepType ==
  ASSUME TypeOK, NEW c \in CronJobs, SweepStep(c) \/ SweepAborts(c)
  PROVE  TablesTypeOK' /\ BusTypeOK' /\ CronTypeOK'
<1>1. /\ TablesTypeOK /\ BusTypeOK /\ CronTypeOK
      /\ sweep \in [CronJobs -> SweepStates] /\ sweep[c].batch \subseteq Orders
      /\ "expired" \in RowStates
  BY DEF TypeOK, CronTypeOK, SweepStates, RowStates, OrderStatuses
<1>2. Waiting \in SweepStates
  BY DEF Waiting, SweepStates
<1>3. CASE FindOverdue(c)
  <2>1. Overdue \subseteq Orders
    BY DEF TypeOK, TablesTypeOK, Overdue
  <2>2. CronTypeOK'
    BY <1>1, <1>3, <2>1 DEF FindOverdue, CronTypeOK, SweepStates
  <2> QED
    BY <1>1, <1>3, <2>2, TablesUnchangedType, BusUnchangedType DEF FindOverdue
<1>4. CASE ExpireOrders(c)
  <2>1. CronTypeOK'
    BY <1>1, <1>4 DEF ExpireOrders, CronTypeOK, SweepStates
  <2> QED
    BY <1>1, <1>4, <2>1, UpdateOrdersType, BusUnchangedType DEF ExpireOrders
<1>5. CASE ExpireConflicts(c)
  BY <1>1, <1>2, <1>5, TablesUnchangedType, BusUnchangedType
     DEF ExpireConflicts, CronTypeOK
<1>6. CASE \E o \in Orders : AnnounceExpired(c, o)
  <2>1. PICK o \in Orders : AnnounceExpired(c, o)
    BY <1>6
  <2>2. Without(c, o) \in SweepStates
    BY <1>1, <1>2 DEF Without, SweepStates
  <2> QED
    BY <1>1, <2>1, <2>2, EventsAreMessages, PublishType, TablesUnchangedType
       DEF AnnounceExpired, CronTypeOK
<1>7. CASE SweepAborts(c)
  <2>1. BusTypeOK'
    BY <1>1, <1>7, EventsAreMessages, PublishType, BusUnchangedType
       DEF SweepAborts
  <2> QED
    BY <1>1, <1>2, <1>7, <2>1, TablesUnchangedType DEF SweepAborts, CronTypeOK
<1> QED
  BY <1>3, <1>4, <1>5, <1>6, <1>7 DEF SweepStep

-----------------------------------------------------------------------------
(* The composed system.                                                    *)

LEMMA TypeOKInit == Init => TypeOK
<1> SUFFICES ASSUME Init PROVE TypeOK
  OBVIOUS
<1>1. TablesTypeOK
  BY NoNotificationsType DEF Init, TablesInit, TablesTypeOK, RowStates
<1>2. BusTypeOK
  BY QueuesDeclaredAssumption DEF Init, BusInit, BusTypeOK
<1>3. ApiTypeOK
  BY DEF Init, ApiInit, ApiTypeOK, Free, RequestStates, RowStates
<1>4. WorkerTypeOK
  BY IdleType DEF Init, WorkerInit, WorkerTypeOK, Idle
<1>5. CronTypeOK
  BY DEF Init, CronInit, CronTypeOK, Waiting, SweepStates
<1> QED
  BY <1>1, <1>2, <1>3, <1>4, <1>5, BoundsAssumption DEF Init, TypeOK

LEMMA CountersUnchanged ==
  ASSUME TypeOK, UNCHANGED counters
  PROVE  /\ edits' \in 0..MaxEdits /\ errors' \in 0..MaxErrors
         /\ redeliveries' \in 0..MaxRedeliveries
BY DEF TypeOK, counters

LEMMA TypeOKNext == TypeOK /\ [Next]_vars => TypeOK'
<1> SUFFICES ASSUME TypeOK, [Next]_vars PROVE TypeOK'
  OBVIOUS
<1> USE CountersUnchanged, ApiUnchangedType, WorkerUnchangedType,
        CronUnchangedType
<1>1. CASE ClientPosts
  BY <1>1, CreateOrderType DEF ClientPosts, TypeOK
<1>2. CASE ClientEdit
  <2>1. edits' \in 0..MaxEdits
    BY <1>2, BoundsAssumption DEF ClientEdit, TypeOK
  <2>2. PICK r \in Requests, o \in Orders :
          \/ \E new \in ClientEdits \cap OrderStatuses : LoadForUpdate(r, o, new)
          \/ LoadForDelete(r, o)
    BY <1>2 DEF ClientEdit
  <2>3. TablesTypeOK' /\ BusTypeOK' /\ ApiTypeOK'
    BY <2>2, LoadType
  <2> QED
    BY <1>2, <2>1, <2>3 DEF ClientEdit, TypeOK
<1>3. CASE TimePasses
  BY <1>3, BecomeStaleType, BusUnchangedType DEF TimePasses, TypeOK
<1>4. CASE \E r \in Requests : ApiStep(r)
  BY <1>4, RequestStepType DEF ApiStep, TypeOK
<1>5. CASE WorkerStarts
  BY <1>5, TablesUnchangedType
     DEF WorkerStarts, WorkerStart, DeclareQueues, TypeOK, BusTypeOK
<1>6. CASE \E o \in Orders : WorkerReceives(o)
  BY <1>6, ReceiveType DEF WorkerReceives, TypeOK
<1>7. CASE \E h \in Handlers : WorkerHandles(h)
  BY <1>7, HandlerStepType DEF WorkerHandles, TypeOK
<1>8. CASE \E c \in CronJobs : CronStep(c)
  BY <1>8, SweepType DEF CronStep, TypeOK
<1>9. CASE Error
  <2>1. /\ edits' \in 0..MaxEdits /\ errors' \in 0..MaxErrors
        /\ redeliveries' \in 0..MaxRedeliveries
    BY <1>9, BoundsAssumption DEF Error, TypeOK
  <2>2. CASE (\E r \in Requests : RequestAborts(r)) /\ UNCHANGED <<workerVars, cronVars>>
    BY <2>1, <2>2, RequestStepType DEF TypeOK
  <2>3. CASE HandlerThrows /\ UNCHANGED <<apiVars, cronVars>>
    BY <2>1, <2>3, HandlerThrowsType DEF TypeOK
  <2>4. CASE (\E c \in CronJobs : SweepAborts(c)) /\ UNCHANGED <<apiVars, workerVars>>
    BY <2>1, <2>4, SweepType DEF TypeOK
  <2> QED
    BY <1>9, <2>2, <2>3, <2>4 DEF Error
<1>10. CASE WorkerLost
  <2>1. /\ edits' \in 0..MaxEdits /\ errors' \in 0..MaxErrors
        /\ redeliveries' \in 0..MaxRedeliveries
    BY <1>10, BoundsAssumption DEF WorkerLost, TypeOK
  <2> QED
    BY <1>10, <2>1, RedeliveryType DEF WorkerLost, TypeOK
<1>11. CASE UNCHANGED vars
  BY <1>11, TablesUnchangedType, BusUnchangedType DEF vars, TypeOK
<1>12. CASE ClientDeletesUser
  <2>1. edits' \in 0..MaxEdits
    BY <1>12, BoundsAssumption DEF ClientDeletesUser, TypeOK
  <2> QED
    BY <1>12, <2>1, CascadeType DEF ClientDeletesUser, TypeOK
<1> QED
  BY <1>1, <1>2, <1>3, <1>4, <1>5, <1>6, <1>7, <1>8, <1>9, <1>10, <1>11, <1>12
     DEF Next

\* Every variable keeps its type: whatever the services do concurrently, the
\* status column stays within its CHECK constraint, no queue is taken from
\* that is empty, and a handler or request is idle exactly when it has nothing
\* to work on.
THEOREM TypeCorrect == Spec => []TypeOK
<1>1. Init => TypeOK
  BY TypeOKInit
<1>2. TypeOK /\ [Next]_vars => TypeOK'
  BY TypeOKNext
<1> QED
  BY <1>1, <1>2, PTL DEF Spec

-----------------------------------------------------------------------------
(* No event is lost.  What the broker once took stays accounted for in     *)
(* every step; the invariant adds the time between the publish and the 201 *)
(* response, and that the queues stay bound.                               *)

\* A POST that has published its event and is not answered yet.
Unanswered(r) == request[r].pc \in {"noting", "reloading"}

EventInv ==
  QueuesDeclared =>
    /\ bound
    /\ \A o \in accepted : Accounted(OrderCreatedEvent(o))
    /\ \A r \in Requests :
         Unanswered(r) => Accounted(OrderCreatedEvent(request[r].order))

LEMMA PublishKeepsAccounted ==
  ASSUME TypeOK, NEW m \in Messages, Accounted(m),
         NEW n \in Messages, Publish(n), UNCHANGED handler
  PROVE  Accounted(m)'
BY DEF TypeOK, BusTypeOK, Accounted, Queued, Held, Holds, Failed, Acked, Publish

LEMMA BusUnchangedKeepsAccounted ==
  ASSUME NEW m \in Messages, Accounted(m), UNCHANGED busVars,
         \A h \in Handlers : Holds(h, m) => Holds(h, m)'
  PROVE  Accounted(m)'
BY DEF Accounted, Queued, Held, Failed, Acked, busVars

\* The handler that is given a message holds it from then on.
LEMMA ReceiveKeepsAccounted ==
  ASSUME TypeOK, NEW m \in Messages, Accounted(m),
         NEW o \in Orders, Receive(o)
  PROVE  Accounted(m)'
<1>1. PICK h \in Handlers, n \in Messages, pc \in HandlerPCs,
           s \in RowStates : Take(h, n, pc, s)
  BY EventsAreMessages
     DEF Receive, ReceiveOrderCreated, ReceiveOrderCompleted,
         ReceiveOrderExpired, HandlerPCs, TypeOK, TablesTypeOK, RowStates
<1>2. handler[h].msg # m
  BY <1>1, NoMessageAssumption DEF Take, TypeOK, WorkerTypeOK, Busy
<1>3. Holds(h, n)'
  BY <1>1 DEF Take, Holds, TypeOK, WorkerTypeOK
<1>4. ASSUME NEW g \in Handlers, Holds(g, m)
      PROVE  Holds(g, m)'
  BY <1>1, <1>2, <1>4 DEF Take, Holds, TypeOK, WorkerTypeOK
<1>5. CASE n = m
  BY <1>3, <1>5 DEF Accounted, Held
<1>6. CASE n # m
  <2>1. queue'[m] = queue[m] /\ UNCHANGED <<errorQueue, acked>>
    BY <1>1, <1>6 DEF Take, Deliver, TypeOK, BusTypeOK
  <2> QED
    BY <1>4, <2>1 DEF Accounted, Queued, Held, Failed, Acked
<1> QED
  BY <1>5, <1>6

\* A handler that comes to its end leaves its message acknowledged or in the
\* error queue, unless the broker has taken it back before.
LEMMA LeaveKeepsAccounted ==
  ASSUME TypeOK, NEW m \in Messages, Accounted(m),
         NEW h \in Handlers, Busy(h), Ack(h) \/ GiveUp(h)
  PROVE  Accounted(m)'
<1>1. handler[h].msg \in Messages
  BY BusyMessage DEF TypeOK
<1>2. ASSUME NEW g \in Handlers, g # h, Holds(g, m)
      PROVE  Holds(g, m)'
  BY <1>2 DEF Ack, GiveUp, Holds, TypeOK, WorkerTypeOK
<1>3. CASE Holds(h, m)
  <2>1. acked'[m] > 0 \/ errorQueue'[m] > 0
    BY <1>1, <1>3 DEF Ack, GiveUp, Acknowledge, MoveToErrorQueue, Holds,
                      TypeOK, BusTypeOK
  <2> QED
    BY <2>1 DEF Accounted, Failed, Acked
<1>4. CASE ~Holds(h, m)
  <2>1. Held(m) => Held(m)'
    BY <1>2, <1>4 DEF Held
  <2>2. Queued(m) => Queued(m)'
    BY DEF Ack, GiveUp, Acknowledge, MoveToErrorQueue, busVars, Queued
  <2>3. Failed(m) => Failed(m)'
    BY <1>1 DEF Ack, GiveUp, Acknowledge, MoveToErrorQueue, busVars, Failed,
                TypeOK, BusTypeOK
  <2>4. Acked(m) => Acked(m)'
    BY <1>1 DEF Ack, GiveUp, Acknowledge, MoveToErrorQueue, busVars, Acked,
                TypeOK, BusTypeOK
  <2> QED
    BY <2>1, <2>2, <2>3, <2>4 DEF Accounted
<1> QED
  BY <1>3, <1>4

LEMMA HandlerStepKeepsAccounted ==
  ASSUME TypeOK, NEW m \in Messages, Accounted(m),
         NEW h \in Handlers, HandlerStep(h)
  PROVE  Accounted(m)'
<1>1. CASE \/ MarkProcessing(h) \/ PaymentSucceeds(h) \/ PaymentFails(h)
           \/ CompleteOrder(h) \/ SaveNotification(h)
  <2>1. ASSUME NEW g \in Handlers, Holds(g, m)
        PROVE  Holds(g, m)'
    BY <1>1, <2>1
       DEF MarkProcessing, PaymentSucceeds, PaymentFails, CompleteOrder,
           SaveNotification, Goto, Finish, Holds, TypeOK, WorkerTypeOK,
           HandlerStates
  <2>2. UNCHANGED busVars
    BY <1>1 DEF MarkProcessing, PaymentSucceeds, PaymentFails, CompleteOrder,
                SaveNotification
  <2> QED
    BY <2>1, <2>2, BusUnchangedKeepsAccounted
<1>2. CASE AnnounceCompleted(h)
  <2>1. ASSUME NEW g \in Handlers, Holds(g, m)
        PROVE  Holds(g, m)'
    BY <1>2, <2>1 DEF AnnounceCompleted, Finish, Holds, TypeOK, WorkerTypeOK,
                      HandlerStates
  <2>2. Busy(h)
    BY <1>2 DEF AnnounceCompleted, Busy
  <2>3. PICK n \in Messages : Publish(n)
    BY <1>2, <2>2, BusyMessage, EventsAreMessages DEF AnnounceCompleted, TypeOK
  <2>4. queue'[m] \in {queue[m], queue[m] + 1} /\ UNCHANGED <<errorQueue, acked>>
    BY <2>3 DEF Publish, TypeOK, BusTypeOK
  <2>5. queue[m] \in Nat
    BY DEF TypeOK, BusTypeOK
  <2> QED
    BY <2>1, <2>4, <2>5 DEF Accounted, Queued, Held, Failed, Acked
<1>3. CASE Ack(h) \/ SaveFindsNoOrder(h)
  BY <1>3, LeaveKeepsAccounted DEF Ack, SaveFindsNoOrder, Busy
<1> QED
  BY <1>1, <1>2, <1>3 DEF HandlerStep

LEMMA HandlerThrowsKeepsAccounted ==
  ASSUME TypeOK, NEW m \in Messages, Accounted(m), HandlerThrows
  PROVE  Accounted(m)'
<1>1. PICK h \in Handlers : ConsumerThrows(h) \/ AnnounceThrows(h)
  BY DEF HandlerThrows
<1>2. CASE ConsumerThrows(h)
  BY <1>2, LeaveKeepsAccounted DEF ConsumerThrows
<1>3. CASE AnnounceThrows(h)
  <2>1. handler[h].msg \in Messages /\ handler[h].msg.order \in Orders
    BY <1>3, BusyMessage DEF AnnounceThrows, Busy, TypeOK
  <2>2. OrderCompletedEvent(handler[h].msg.order) \in Messages
    BY <2>1, EventsAreMessages
  <2>3. queue'[m] >= queue[m] /\ errorQueue'[m] >= errorQueue[m] /\ acked' = acked
    BY <1>3, <2>1, <2>2 DEF AnnounceThrows, TypeOK, BusTypeOK
  <2>4. Holds(h, m) => errorQueue'[m] > 0
    BY <1>3, <2>1 DEF AnnounceThrows, Holds, TypeOK, BusTypeOK
  <2>5. ASSUME NEW g \in Handlers, g # h, Holds(g, m)
        PROVE  Holds(g, m)'
    BY <1>3, <2>5 DEF AnnounceThrows, Holds, TypeOK, WorkerTypeOK
  <2>6. queue[m] \in Nat /\ queue'[m] \in Nat
        /\ errorQueue[m] \in Nat /\ errorQueue'[m] \in Nat
    BY HandlerThrowsType DEF TypeOK, BusTypeOK
  <2> QED
    BY <2>3, <2>4, <2>5, <2>6 DEF Accounted, Queued, Held, Failed, Acked
<1> QED
  BY <1>1, <1>2, <1>3

\* The broker takes back each message that a live handler held.
LEMMA RedeliveryKeepsAccounted ==
  ASSUME TypeOK, NEW m \in Messages, Accounted(m), Redelivery
  PROVE  Accounted(m)'
<1> DEFINE holders == {h \in Handlers : Holds(h, m)}
<1>1. /\ queue'[m] = queue[m] + Cardinality(holders)
      /\ UNCHANGED <<errorQueue, acked>>
  BY DEF Redelivery, WorkerCrash, ConnectionLost, Requeue, UnackedDeliveries
<1>2. IsFiniteSet(holders)
  BY HandlersAssumption, FS_Subset
<1>3. Cardinality(holders) \in Nat /\ queue[m] \in Nat
  BY <1>2, FS_CardinalityType DEF TypeOK, BusTypeOK
<1>4. Held(m) => Cardinality(holders) > 0
  BY <1>2, <1>3, FS_EmptySet DEF Held
<1> QED
  BY <1>1, <1>3, <1>4 DEF Accounted, Queued, Failed, Acked

LEMMA StepKeepsAccounted ==
  ASSUME TypeOK, [Next]_vars, NEW m \in Messages, Accounted(m)
  PROVE  Accounted(m)'
<1>1. CASE UNCHANGED <<busVars, workerVars>>
  BY <1>1, BusUnchangedKeepsAccounted DEF Holds, workerVars
<1>2. ASSUME NEW n \in Messages, Publish(n), UNCHANGED workerVars
      PROVE  Accounted(m)'
  BY <1>2, PublishKeepsAccounted DEF workerVars
<1>3. ASSUME NEW r \in Requests, RequestStep(r) \/ RequestAborts(r),
             UNCHANGED workerVars
      PROVE  Accounted(m)'
  <2>1. UNCHANGED busVars \/ (Serving(r) /\ Publish(OrderCreatedEvent(request[r].order)))
    BY <1>3
       DEF RequestStep, RequestAborts, AnnounceCreated, NoteCreated,
           ReturnCreated, SaveUpdate, SaveDelete, RequestFindsNoOrder, Serving
  <2> QED
    BY <1>1, <1>2, <1>3, <2>1, ServingOrder, EventsAreMessages DEF TypeOK
<1>4. ASSUME NEW c \in CronJobs, SweepStep(c) \/ SweepAborts(c),
             UNCHANGED workerVars
      PROVE  Accounted(m)'
  <2>1. \/ UNCHANGED busVars
        \/ \E o \in Orders : Publish(OrderExpiredEvent(o))
        \/ \E o \in sweep[c].batch : Publish(OrderExpiredEvent(o))
    BY <1>4 DEF SweepStep, SweepAborts, FindOverdue, ExpireOrders,
                ExpireConflicts, AnnounceExpired
  <2>2. sweep[c].batch \subseteq Orders
    BY DEF TypeOK, CronTypeOK, SweepStates
  <2> QED
    BY <1>1, <1>2, <1>4, <2>1, <2>2, EventsAreMessages
<1>5. CASE ClientPosts \/ ClientEdit \/ ClientDeletesUser \/ TimePasses
  BY <1>1, <1>5
     DEF ClientPosts, ClientEdit, ClientDeletesUser, CascadeToOrders, TimePasses,
         CreateOrder, LoadForUpdate, LoadForDelete
<1>6. CASE \E r \in Requests : ApiStep(r)
  BY <1>3, <1>6 DEF ApiStep
<1>7. CASE WorkerStarts
  BY <1>7 DEF WorkerStarts, WorkerStart, DeclareQueues, workerVars, Accounted,
              Queued, Held, Holds, Failed, Acked
<1>8. CASE \E o \in Orders : WorkerReceives(o)
  BY <1>8, ReceiveKeepsAccounted DEF WorkerReceives
<1>9. CASE \E h \in Handlers : WorkerHandles(h)
  BY <1>9, HandlerStepKeepsAccounted DEF WorkerHandles
<1>10. CASE \E c \in CronJobs : CronStep(c)
  BY <1>4, <1>10 DEF CronStep
<1>11. CASE Error
  BY <1>3, <1>4, <1>11, HandlerThrowsKeepsAccounted DEF Error
<1>12. CASE WorkerLost
  BY <1>12, RedeliveryKeepsAccounted DEF WorkerLost
<1>13. CASE UNCHANGED vars
  BY <1>1, <1>13 DEF vars
<1> QED
  BY <1>5, <1>6, <1>7, <1>8, <1>9, <1>10, <1>11, <1>12, <1>13 DEF Next

\* Once bound, the queues stay bound.
LEMMA StepKeepsBound ==
  ASSUME [Next]_vars, bound
  PROVE  bound'
<1> USE DEF busVars, workerVars, Publish, Deliver, Acknowledge, MoveToErrorQueue,
            Requeue
<1>1. CASE ClientPosts \/ ClientEdit \/ ClientDeletesUser \/ TimePasses
  BY <1>1
     DEF ClientPosts, ClientEdit, ClientDeletesUser, CascadeToOrders, TimePasses,
         CreateOrder, LoadForUpdate, LoadForDelete
<1>2. ASSUME NEW r \in Requests, RequestStep(r) \/ RequestAborts(r)
      PROVE  bound'
  BY <1>2
     DEF RequestStep, RequestAborts, AnnounceCreated, NoteCreated, ReturnCreated,
         SaveUpdate, SaveDelete, RequestFindsNoOrder
<1>3. ASSUME NEW c \in CronJobs, SweepStep(c) \/ SweepAborts(c)
      PROVE  bound'
  BY <1>3 DEF SweepStep, SweepAborts, FindOverdue, ExpireOrders,
              ExpireConflicts, AnnounceExpired
<1>4. ASSUME NEW o \in Orders, Receive(o)
      PROVE  bound'
  BY <1>4 DEF Receive, ReceiveOrderCreated, ReceiveOrderCompleted,
              ReceiveOrderExpired, Take
<1>5. ASSUME NEW h \in Handlers, HandlerStep(h)
      PROVE  bound'
  BY <1>5 DEF HandlerStep, MarkProcessing, PaymentSucceeds, PaymentFails,
              CompleteOrder, AnnounceCompleted, SaveNotification,
              SaveFindsNoOrder, Ack, GiveUp
<1>6. CASE HandlerThrows
  BY <1>6 DEF HandlerThrows, ConsumerThrows, AnnounceThrows, GiveUp
<1>7. CASE Redelivery
  BY <1>7 DEF Redelivery, WorkerCrash, ConnectionLost
<1>8. CASE WorkerStarts
  BY <1>8 DEF WorkerStarts, WorkerStart, DeclareQueues
<1> QED
  BY <1>1, <1>2, <1>3, <1>4, <1>5, <1>6, <1>7, <1>8
     DEF Next, ApiStep, WorkerReceives, WorkerHandles, CronStep, Error,
         WorkerLost, vars

\* A request is unanswered only after its publish, and an order is accepted only
\* by a request that was unanswered for it.
LEMMA AnswerStep ==
  ASSUME TypeOK, [Next]_vars
  PROVE  /\ \A r \in Requests : Unanswered(r)' =>
              \/ Unanswered(r) /\ request'[r].order = request[r].order
              \/ /\ request'[r].order = request[r].order
                 /\ Publish(OrderCreatedEvent(request[r].order))
                 /\ request[r].pc = "publishing"
         /\ \A o \in accepted' :
              \/ o \in accepted
              \/ \E r \in Requests : Unanswered(r) /\ request[r].order = o
<1> USE DEF TypeOK, ApiTypeOK, Unanswered
<1>1. CASE UNCHANGED apiVars
  BY <1>1 DEF apiVars
<1>2. ASSUME NEW r \in Requests, NEW o \in Orders, CreateOrder(r, o)
      PROVE  accepted' = accepted /\ \A q \in Requests :
               Unanswered(q)' => q # r /\ request'[q] = request[q]
  BY <1>2 DEF CreateOrder, Begin
<1>3. ASSUME NEW r \in Requests, NEW o \in Orders, NEW new,
             LoadForUpdate(r, o, new) \/ LoadForDelete(r, o)
      PROVE  accepted' = accepted /\ \A q \in Requests :
               Unanswered(q)' => q # r /\ request'[q] = request[q]
  BY <1>3 DEF LoadForUpdate, LoadForDelete, Begin
<1>4. ASSUME NEW r \in Requests, AnnounceCreated(r)
      PROVE  /\ accepted' = accepted
             /\ \A q \in Requests \ {r} : request'[q] = request[q]
             /\ request'[r].order = request[r].order
             /\ Publish(OrderCreatedEvent(request[r].order))
             /\ request[r].pc = "publishing"
  BY <1>4 DEF AnnounceCreated, RequestStates
<1>5. ASSUME NEW r \in Requests, Respond(r)
      PROVE  \A q \in Requests : Unanswered(q)' => q # r /\ request'[q] = request[q]
  BY <1>5 DEF Respond, Free
<1>6. ASSUME NEW r \in Requests, NoteCreated(r)
      PROVE  /\ accepted' = accepted /\ Unanswered(r)
             /\ \A q \in Requests \ {r} : request'[q] = request[q]
             /\ request'[r].order = request[r].order
  BY <1>6 DEF NoteCreated, RequestStates
<1>7. ASSUME NEW r \in Requests, ApiStep(r), ~AnnounceCreated(r), ~NoteCreated(r)
      PROVE  /\ Respond(r)
             /\ \/ accepted' = accepted
                \/ /\ Unanswered(r)
                   /\ accepted' = accepted \cup {request[r].order}
  BY <1>7 DEF ApiStep, RequestStep, ReturnCreated, SaveUpdate, SaveDelete,
              RequestFindsNoOrder
<1>8. ASSUME NEW r \in Requests, RequestAborts(r)
      PROVE  Respond(r) /\ accepted' = accepted
  BY <1>8 DEF RequestAborts
<1>9. CASE ClientPosts
  BY <1>2, <1>9 DEF ClientPosts
<1>10. CASE ClientEdit
  BY <1>3, <1>10 DEF ClientEdit
<1>11. CASE \E r \in Requests : ApiStep(r)
  <2>1. PICK r \in Requests : ApiStep(r)
    BY <1>11
  <2>2. CASE AnnounceCreated(r)
    BY <1>4, <2>2
  <2>3. CASE NoteCreated(r)
    BY <1>6, <2>3
  <2>4. CASE ~AnnounceCreated(r) /\ ~NoteCreated(r)
    BY <1>5, <1>7, <2>1, <2>4
  <2> QED
    BY <2>2, <2>3, <2>4
<1>12. CASE Error
  BY <1>1, <1>5, <1>8, <1>12 DEF Error, apiVars
<1> QED
  BY <1>1, <1>9, <1>10, <1>11, <1>12
     DEF Next, ClientDeletesUser, CascadeToOrders, TimePasses, WorkerStarts,
         WorkerReceives, WorkerHandles, CronStep, WorkerLost, vars

LEMMA EventInvInit == Init => EventInv
BY DEF Init, BusInit, ApiInit, EventInv, Unanswered, Free

LEMMA EventInvNext == TypeOK /\ EventInv /\ [Next]_vars => EventInv'
<1> SUFFICES ASSUME TypeOK, EventInv, [Next]_vars, QueuesDeclared
             PROVE  EventInv'
  BY DEF EventInv
<1>1. bound /\ bound'
  BY StepKeepsBound DEF EventInv
<1>2. ASSUME NEW r \in Requests, NEW o \in Orders,
             Unanswered(r), request[r].order = o
      PROVE  Accounted(OrderCreatedEvent(o))'
  BY <1>2, StepKeepsAccounted, EventsAreMessages DEF EventInv
<1>3. ASSUME NEW r \in Requests, Unanswered(r)'
      PROVE  \E o \in Orders : /\ request'[r].order = o
                              /\ Accounted(OrderCreatedEvent(o))'
  <2>1. Serving(r) /\ request'[r].order = request[r].order
    BY <1>3, AnswerStep DEF Serving, Unanswered
  <2>2. PICK o \in Orders : o = request[r].order
    BY <2>1, ServingOrder DEF TypeOK
  <2>3. CASE Unanswered(r)
    BY <1>2, <2>1, <2>2, <2>3
  <2>4. CASE Publish(OrderCreatedEvent(o))
    <3>1. queue'[OrderCreatedEvent(o)] > 0
      BY <1>1, <2>4, EventsAreMessages DEF Publish, TypeOK, BusTypeOK
    <3> QED
      BY <2>1, <2>2, <3>1 DEF Accounted, Queued
  <2> QED
    BY <1>3, <2>2, <2>3, <2>4, AnswerStep
<1>4. ASSUME NEW o \in Orders, o \in accepted'
      PROVE  Accounted(OrderCreatedEvent(o))'
  <2>1. CASE o \in accepted
    BY <2>1, StepKeepsAccounted, EventsAreMessages DEF EventInv
  <2>2. CASE \E r \in Requests : Unanswered(r) /\ request[r].order = o
    BY <1>2, <2>2
  <2> QED
    BY <1>4, <2>1, <2>2, AnswerStep
<1>5. accepted' \subseteq Orders
  BY TypeOKNext DEF TypeOK, ApiTypeOK
<1>6. \A r \in Requests : Unanswered(r)' => Accounted(OrderCreatedEvent(request[r].order))'
  BY <1>3
<1> QED
  BY <1>1, <1>4, <1>5, <1>6 DEF EventInv

\* The event of an accepted order waits in its queue, is with a live handler,
\* was acknowledged or is in the error queue, through any number of crashes,
\* lost connections, failed calls and concurrent requests.
THEOREM EventsAreNotLost == Spec => []NoEventLost
<1>1. Init => TypeOK /\ EventInv
  BY TypeOKInit, EventInvInit
<1>2. TypeOK /\ EventInv /\ [Next]_vars => (TypeOK /\ EventInv)'
  BY TypeOKNext, EventInvNext
<1>3. EventInv => NoEventLost
  BY DEF EventInv, NoEventLost
<1> QED
  BY <1>1, <1>2, <1>3, PTL DEF Spec

-----------------------------------------------------------------------------
(* Completed orders are paid for.  The invariant adds the handlers between *)
(* the payment and the end, and that no update asks for `completed'.       *)

PaidInv ==
  /\ \A h \in Handlers :
       handler[h].pc \in {"paid", "announcing"} => charges[handler[h].msg.order] > 0
  /\ "completed" \notin ClientEdits =>
       /\ \A o \in Orders : status[o] = "completed" => charges[o] > 0
       /\ \A r \in Requests : request[r].target # "completed"

\* How the parts of the state that PaidInv reads change in a step.
LEMMA ChargesGrow ==
  ASSUME TypeOK, [Next]_vars, NEW o \in Orders, charges[o] > 0
  PROVE  charges'[o] > 0
<1>1. UNCHANGED charges \/ \E h \in Handlers : PaymentSucceeds(h)
  BY DEF Next, ClientPosts, ClientEdit, ClientDeletesUser, CascadeToOrders,
         TimePasses, ApiStep, WorkerStarts, WorkerStart, WorkerReceives, Receive,
         ReceiveOrderCreated, ReceiveOrderCompleted, ReceiveOrderExpired,
         WorkerHandles, HandlerStep, MarkProcessing, PaymentFails, CompleteOrder,
         AnnounceCompleted, SaveNotification, SaveFindsNoOrder, Ack, GiveUp,
         CronStep, Error, HandlerThrows, ConsumerThrows, AnnounceThrows,
         WorkerLost, Redelivery, WorkerCrash, ConnectionLost, vars, workerVars
<1>2. ASSUME NEW h \in Handlers, PaymentSucceeds(h)
      PROVE  charges'[o] >= charges[o]
  BY <1>2 DEF PaymentSucceeds, TypeOK, WorkerTypeOK
<1>3. charges[o] \in Nat /\ charges'[o] \in Nat
  BY TypeOKNext DEF TypeOK, WorkerTypeOK
<1> QED
  BY <1>1, <1>2, <1>3

LEMMA PaidHandlerStep ==
  ASSUME TypeOK, PaidInv, [Next]_vars, NEW h \in Handlers, NEW o \in Orders,
         handler'[h].pc \in {"paid", "announcing"}, handler'[h].msg.order = o
  PROVE  charges'[o] > 0
<1> USE DEF TypeOK, WorkerTypeOK, HandlerStates
<1>1. CASE handler'[h] = handler[h]
  BY <1>1, ChargesGrow DEF PaidInv
<1>2. ASSUME NEW g \in Handlers, HandlerStep(g)
      PROVE  charges'[o] > 0
  <2>1. CASE PaymentSucceeds(g)
    BY <1>1, <2>1 DEF PaymentSucceeds, Goto
  <2>2. CASE CompleteOrder(g)
    <3>1. handler[h].msg = handler'[h].msg
      BY <2>2 DEF CompleteOrder
    <3>2. handler[h].pc \in {"paid", "announcing"}
      BY <2>2 DEF CompleteOrder
    <3> QED
      BY <3>1, <3>2, ChargesGrow DEF PaidInv
  <2>3. CASE ~PaymentSucceeds(g) /\ ~CompleteOrder(g)
    <3>1. handler'[h] = handler[h]
      BY <1>2, <2>3
         DEF HandlerStep, MarkProcessing, PaymentFails, AnnounceCompleted,
             SaveNotification, SaveFindsNoOrder, Ack, GiveUp, Finish, Idle
    <3> QED
      BY <1>1, <3>1
  <2> QED
    BY <2>1, <2>2, <2>3
<1>3. ASSUME NEW p \in Orders, Receive(p)
      PROVE  charges'[o] > 0
  <2>1. handler'[h] = handler[h]
    BY <1>3 DEF Receive, ReceiveOrderCreated, ReceiveOrderCompleted,
                ReceiveOrderExpired, Take
  <2> QED
    BY <1>1, <2>1
<1>4. CASE HandlerThrows
  <2>1. handler'[h] = handler[h]
    BY <1>4 DEF HandlerThrows, ConsumerThrows, AnnounceThrows, GiveUp, Idle
  <2> QED
    BY <1>1, <2>1
<1>5. CASE Redelivery
  <2>1. /\ handler[h].pc \in {"paid", "announcing"}
        /\ handler[h].msg = handler'[h].msg
    BY <1>5 DEF Redelivery, WorkerCrash, ConnectionLost, Idle
  <2> QED
    BY <2>1, ChargesGrow DEF PaidInv
<1>6. CASE UNCHANGED handler
  BY <1>1, <1>6
<1> QED
  BY <1>2, <1>3, <1>4, <1>5, <1>6
     DEF Next, ClientPosts, ClientEdit, ClientDeletesUser, CascadeToOrders,
         TimePasses, ApiStep, WorkerStarts, WorkerStart, WorkerReceives,
         WorkerHandles, CronStep, Error, WorkerLost, vars, workerVars

\* Only the Worker and a PUT that asks for it set the status to completed.
LEMMA CompletedStep ==
  ASSUME TypeOK, [Next]_vars, NEW o \in Orders,
         status'[o] = "completed", status[o] # "completed"
  PROVE  \/ \E h \in Handlers : CompleteOrder(h) /\ handler[h].msg.order = o
         \/ \E r \in Requests : SaveUpdate(r) /\ request[r].target = "completed"
<1> USE DEF TypeOK, TablesTypeOK, UpdateOrder, Overwritten
<1>1. CASE UNCHANGED status
  BY <1>1
<1>2. ASSUME NEW r \in Requests, RequestStep(r) \/ RequestAborts(r)
      PROVE  SaveUpdate(r) /\ request[r].target = "completed"
  <2>1. CASE SaveUpdate(r)
    BY <1>1, <2>1 DEF SaveUpdate
  <2>2. CASE SaveDelete(r)
    BY <2>2 DEF SaveDelete, DeleteOrders
  <2> QED
    BY <1>1, <1>2, <2>1, <2>2
       DEF RequestStep, RequestAborts, AnnounceCreated, NoteCreated, ReturnCreated,
           InsertNotification, RequestFindsNoOrder, tableVars
<1>3. ASSUME NEW h \in Handlers, HandlerStep(h)
      PROVE  CompleteOrder(h) /\ handler[h].msg.order = o
  <2>1. CASE CompleteOrder(h)
    <3>1. handler[h].msg.order \in Orders
      BY <2>1, BusyMessage DEF CompleteOrder, Busy
    <3> QED
      BY <2>1, <3>1 DEF CompleteOrder
  <2>2. CASE MarkProcessing(h)
    <3>1. handler[h].msg.order \in Orders
      BY <2>2, BusyMessage DEF MarkProcessing, Busy
    <3> QED
      BY <2>2, <3>1 DEF MarkProcessing
  <2> QED
    BY <1>1, <1>3, <2>1, <2>2
       DEF HandlerStep, PaymentSucceeds, PaymentFails, AnnounceCompleted,
           SaveNotification, InsertNotification, SaveFindsNoOrder, Ack, GiveUp,
           tableVars
<1>4. ASSUME NEW c \in CronJobs, SweepStep(c) \/ SweepAborts(c)
      PROVE  FALSE
  BY <1>1, <1>4 DEF SweepStep, SweepAborts, FindOverdue, ExpireOrders,
     UpdateOrders, ExpireConflicts, AnnounceExpired, tableVars
<1>5. CASE ClientPosts
  BY <1>5 DEF ClientPosts, CreateOrder, InsertOrder
<1>6. CASE ClientEdit \/ TimePasses
  BY <1>1, <1>6 DEF ClientEdit, LoadForUpdate, LoadForDelete, TimePasses,
                    BecomeStale, tableVars
<1>8. CASE ClientDeletesUser
  BY <1>8 DEF ClientDeletesUser, CascadeToOrders, DeleteOrders
<1>7. CASE \/ \E p \in Orders : Receive(p)
           \/ HandlerThrows \/ Redelivery \/ WorkerStart
  BY <1>1, <1>7
     DEF Receive, ReceiveOrderCreated, ReceiveOrderCompleted,
         ReceiveOrderExpired, HandlerThrows, ConsumerThrows, AnnounceThrows,
         GiveUp, Redelivery, WorkerCrash, ConnectionLost, WorkerStart, tableVars
<1> QED
  BY <1>1, <1>2, <1>3, <1>4, <1>5, <1>6, <1>7, <1>8
     DEF Next, ApiStep, WorkerStarts, WorkerReceives, WorkerHandles, CronStep,
         Error, WorkerLost, vars, tableVars

\* No request writes a status that clients may not ask for.
LEMMA TargetStep ==
  ASSUME TypeOK, [Next]_vars, NEW s \in OrderStatuses, s \notin ClientEdits,
         \A q \in Requests : request[q].target # s,
         NEW r \in Requests
  PROVE  request'[r].target # s
<1> USE DEF TypeOK, ApiTypeOK, RequestStates, OrderStatuses
<1>1. CASE ClientPosts
  BY <1>1 DEF ClientPosts, CreateOrder, Begin
<1>2. CASE ClientEdit
  BY <1>2 DEF ClientEdit, LoadForUpdate, LoadForDelete, Begin
<1>3. ASSUME NEW q \in Requests, RequestStep(q) \/ RequestAborts(q)
      PROVE  request'[r].target # s
  BY <1>3
     DEF RequestStep, RequestAborts, AnnounceCreated, NoteCreated, ReturnCreated,
         SaveUpdate, SaveDelete, RequestFindsNoOrder, Respond, Free
<1>4. CASE UNCHANGED request
  BY <1>4
<1> QED
  BY <1>1, <1>2, <1>3, <1>4
     DEF Next, ClientDeletesUser, CascadeToOrders, TimePasses, ApiStep, WorkerStarts,
         WorkerReceives, WorkerHandles, CronStep, Error, WorkerLost, vars, apiVars

LEMMA PaidInvNext == TypeOK /\ PaidInv /\ [Next]_vars => PaidInv'
<1> SUFFICES ASSUME TypeOK, PaidInv, [Next]_vars PROVE PaidInv'
  OBVIOUS
<1>1. ASSUME NEW h \in Handlers, handler'[h].pc \in {"paid", "announcing"}
      PROVE  charges'[handler'[h].msg.order] > 0
  <2>1. Busy(h)' /\ WorkerTypeOK'
    BY <1>1, TypeOKNext DEF TypeOK, Busy
  <2>2. handler'[h].msg \in Messages
    BY <2>1 DEF WorkerTypeOK, Busy, HandlerStates
  <2> QED
    BY <1>1, <2>2, MessageFields, PaidHandlerStep
<1>2. ASSUME NEW o \in Orders, "completed" \notin ClientEdits,
             status'[o] = "completed"
      PROVE  charges'[o] > 0
  <2>1. CASE status[o] = "completed"
    BY <1>2, <2>1, ChargesGrow DEF PaidInv
  <2>2. CASE status[o] # "completed"
    <3>1. PICK h \in Handlers : CompleteOrder(h) /\ handler[h].msg.order = o
      BY <1>2, <2>2, CompletedStep DEF PaidInv
    <3> QED
      BY <3>1, ChargesGrow DEF PaidInv, CompleteOrder
  <2> QED
    BY <2>1, <2>2
<1>3. "completed" \notin ClientEdits =>
        \A r \in Requests : request'[r].target # "completed"
  BY TargetStep DEF PaidInv, OrderStatuses
<1> QED
  BY <1>1, <1>2, <1>3 DEF PaidInv

\* Unless clients may set the status by hand, an order is completed only after
\* a payment was taken for it: no interleaving, redelivery or late save of the
\* Worker or the CronJob completes an unpaid order.
THEOREM CompletedOrdersArePaid == Spec => []CompletedIsPaid
<1>1. Init => TypeOK /\ PaidInv
  BY TypeOKInit
     DEF Init, TablesInit, ApiInit, WorkerInit, PaidInv, Idle, Free
<1>2. TypeOK /\ PaidInv /\ [Next]_vars => (TypeOK /\ PaidInv)'
  BY TypeOKNext, PaidInvNext
<1>3. PaidInv => CompletedIsPaid
  BY DEF PaidInv, CompletedIsPaid
<1> QED
  BY <1>1, <1>2, <1>3, PTL DEF Spec

=============================================================================
