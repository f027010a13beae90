-------------------------- MODULE OrderSystemTruth --------------------------
(***************************************************************************)
(* What the services say of an order is true, for any number of orders,    *)
(* handlers, requests, sweeps, edits, errors and redeliveries.  The module *)
(* begins with lemmas that sum up what any step of the system may do to    *)
(* one variable; the proofs here, of the counts and of the refinement cite *)
(* them instead of going through Next again.                               *)
(***************************************************************************)
EXTENDS OrderSystemSafety

-----------------------------------------------------------------------------
(* What a step may do to the tables.                                       *)

\* The status of an order changes only by one of these saves.
LEMMA StatusStep ==
  ASSUME TypeOK, [Next]_vars, NEW o \in Orders
  PROVE  \/ status'[o] = status[o]
         \/ /\ status[o] = "unused" /\ status'[o] = "pending"
            /\ \E r \in Requests : CreateOrder(r, o)
         \/ /\ Exists(o)
            /\ \/ \E r \in Requests :
                    /\ request[r].pc = "updating" /\ request[r].order = o
                    /\ status'[o] = request[r].target
               \/ status'[o] = "deleted"
               \/ \E h \in Handlers :
                    /\ MarkProcessing(h) /\ handler[h].msg.order = o
                    /\ status'[o] = "processing"
               \/ \E h \in Handlers :
                    /\ CompleteOrder(h) /\ handler[h].msg.order = o
                    /\ status'[o] = "completed"
               \/ \E c \in CronJobs :
                    /\ ExpireOrders(c) /\ o \in sweep[c].batch
                    /\ status'[o] = "expired"
<1> USE DEF TypeOK, TablesTypeOK
<1>1. CASE UNCHANGED status
  BY <1>1
<1>2. CASE ClientPosts
  BY <1>2 DEF ClientPosts, CreateOrder, InsertOrder
<1>3. ASSUME NEW r \in Requests, RequestStep(r) \/ RequestAborts(r), ~UNCHANGED status
      PROVE  \/ status'[o] = status[o]
             \/ /\ Exists(o) /\ request[r].pc = "updating" /\ request[r].order = o
                /\ status'[o] = request[r].target
             \/ Exists(o) /\ status'[o] = "deleted"
  <2>1. CASE SaveUpdate(r)
    BY <2>1 DEF SaveUpdate, UpdateOrder, Overwritten
  <2>2. CASE SaveDelete(r)
    BY <2>2 DEF SaveDelete, DeleteOrders
  <2> QED
    BY <1>3, <2>1, <2>2
       DEF RequestStep, RequestAborts, AnnounceCreated, NoteCreated, ReturnCreated,
           InsertNotification, RequestFindsNoOrder, tableVars
<1>4. ASSUME NEW h \in Handlers, HandlerStep(h), ~UNCHANGED status
      PROVE  \/ status'[o] = status[o]
             \/ /\ Exists(o) /\ MarkProcessing(h) /\ handler[h].msg.order = o
                /\ status'[o] = "processing"
             \/ /\ Exists(o) /\ CompleteOrder(h) /\ handler[h].msg.order = o
                /\ status'[o] = "completed"
  <2>1. CASE MarkProcessing(h)
    BY <2>1 DEF MarkProcessing, UpdateOrder, Overwritten
  <2>2. CASE CompleteOrder(h)
    BY <2>2 DEF CompleteOrder, UpdateOrder, Overwritten
  <2> QED
    BY <1>4, <2>1, <2>2
       DEF HandlerStep, PaymentSucceeds, PaymentFails, AnnounceCompleted,
           SaveNotification, InsertNotification, SaveFindsNoOrder, Ack, GiveUp,
           tableVars
<1>5. ASSUME NEW c \in CronJobs, SweepStep(c) \/ SweepAborts(c), ~UNCHANGED status
      PROVE  \/ status'[o] = status[o]
             \/ /\ Exists(o) /\ ExpireOrders(c) /\ o \in sweep[c].batch
                /\ status'[o] = "expired"
  <2>1. CASE ExpireOrders(c)
    BY <2>1 DEF ExpireOrders, UpdateOrders
  <2> QED
    BY <1>5, <2>1 DEF SweepStep, SweepAborts, FindOverdue, ExpireConflicts,
                      AnnounceExpired, tableVars
<1>6. CASE ClientEdit \/ TimePasses
  BY <1>1, <1>6 DEF ClientEdit, LoadForUpdate, LoadForDelete, TimePasses,
                    BecomeStale, tableVars
<1>8. CASE ClientDeletesUser
  BY <1>8 DEF ClientDeletesUser, CascadeToOrders, DeleteOrders
<1>7. CASE \/ \E p \in Orders : Receive(p)
           \/ HandlerThrows \/ Redelivery \/ WorkerStart
  BY <1>1, <1>7
     DEF Receive, ReceiveOrderCreated, ReceiveOrderCompleted,
         ReceiveOrderExpired, HandlerThrows, ConsumerThrows, AnnounceThrows,
         GiveUp, Redelivery, WorkerCrash, ConnectionLost, WorkerStart, tableVars
<1> QED
  BY <1>1, <1>2, <1>3, <1>4, <1>5, <1>6, <1>7, <1>8
     DEF Next, ApiStep, WorkerStarts, WorkerReceives, WorkerHandles, CronStep,
         Error, WorkerLost, vars, tableVars

\* Rows are inserted one at a time and deleted with their orders.
LEMMA NotificationsStep ==
  ASSUME [Next]_vars
  PROVE  \/ UNCHANGED notifications
         \/ \E r \in Requests : NoteCreated(r) \/ SaveDelete(r)
         \/ CascadeToOrders
         \/ \E h \in Handlers : SaveNotification(h)
BY DEF Next, ClientPosts, CreateOrder, InsertOrder, ClientEdit, ClientDeletesUser,
       LoadForUpdate, LoadForDelete, TimePasses, BecomeStale, ApiStep,
       RequestStep, SaveUpdate, UpdateOrder, ReturnCreated, AnnounceCreated,
       RequestFindsNoOrder, RequestAborts, WorkerStarts, WorkerStart,
       WorkerReceives, Receive, ReceiveOrderCreated, ReceiveOrderCompleted,
       ReceiveOrderExpired, WorkerHandles, HandlerStep, MarkProcessing,
       PaymentSucceeds, PaymentFails, CompleteOrder, AnnounceCompleted,
       SaveFindsNoOrder, Ack, GiveUp, CronStep, SweepStep, SweepAborts,
       FindOverdue, ExpireOrders, UpdateOrders, ExpireConflicts, AnnounceExpired,
       Error, HandlerThrows, ConsumerThrows, AnnounceThrows, WorkerLost,
       Redelivery, WorkerCrash, ConnectionLost, vars, tableVars

-----------------------------------------------------------------------------
(* What a step may do to the histories.                                    *)

LEMMA ChargesStep ==
  ASSUME [Next]_vars
  PROVE  UNCHANGED charges \/ \E h \in Handlers : PaymentSucceeds(h)
BY DEF Next, ClientPosts, ClientEdit, ClientDeletesUser, CascadeToOrders,
       TimePasses, ApiStep, WorkerStarts, WorkerStart, WorkerReceives, Receive,
       ReceiveOrderCreated, ReceiveOrderCompleted, ReceiveOrderExpired,
       WorkerHandles, HandlerStep, MarkProcessing, PaymentFails, CompleteOrder,
       AnnounceCompleted, SaveNotification, SaveFindsNoOrder, Ack, GiveUp,
       CronStep, Error, HandlerThrows, ConsumerThrows, AnnounceThrows, WorkerLost,
       Redelivery, WorkerCrash, ConnectionLost, vars, workerVars

LEMMA EmailsStep ==
  ASSUME [Next]_vars
  PROVE  \/ UNCHANGED emails
         \/ \E h \in Handlers, o \in Orders : ReceiveOrderCompleted(h, o)
BY DEF Next, ClientPosts, ClientEdit, ClientDeletesUser, CascadeToOrders,
       TimePasses, ApiStep, WorkerStarts, WorkerStart, WorkerReceives, Receive,
       ReceiveOrderCreated, ReceiveOrderExpired, WorkerHandles, HandlerStep,
       MarkProcessing, PaymentSucceeds, PaymentFails, CompleteOrder,
       AnnounceCompleted, SaveNotification, SaveFindsNoOrder, Ack, GiveUp,
       CronStep, Error, HandlerThrows, ConsumerThrows, AnnounceThrows, WorkerLost,
       Redelivery, WorkerCrash, ConnectionLost, vars, workerVars

LEMMA ExpiriesStep ==
  ASSUME [Next]_vars
  PROVE  UNCHANGED expiries \/ \E c \in CronJobs : ExpireOrders(c)
BY DEF Next, ClientPosts, ClientEdit, ClientDeletesUser, CascadeToOrders,
       TimePasses, ApiStep, WorkerStarts, WorkerReceives, WorkerHandles, CronStep,
       SweepStep, SweepAborts, FindOverdue, ExpireConflicts, AnnounceExpired,
       Error, WorkerLost, vars, cronVars

LEMMA ExpiriesGrow ==
  ASSUME TypeOK, [Next]_vars, NEW o \in Orders, expiries[o] > 0
  PROVE  expiries'[o] > 0
<1>1. ASSUME NEW c \in CronJobs, ExpireOrders(c)
      PROVE  expiries'[o] >= expiries[o]
  BY <1>1 DEF ExpireOrders, TypeOK, CronTypeOK
<1>2. expiries[o] \in Nat /\ expiries'[o] \in Nat
  BY TypeOKNext DEF TypeOK, CronTypeOK
<1> QED
  BY <1>1, <1>2, ExpiriesStep

-----------------------------------------------------------------------------
(* What a step may do to the messages.                                     *)

Known(m) == Queued(m) \/ Worked(m) \/ Acked(m) \/ Failed(m)

\* Who is about to publish m.
RequestAnnounces(m) ==
  \E r \in Requests :
    request[r].pc = "publishing" /\ m = OrderCreatedEvent(request[r].order)
HandlerAnnounces(m) ==
  \E h \in Handlers :
    handler[h].pc = "announcing" /\ m = OrderCompletedEvent(handler[h].msg.order)
SweepAnnounces(m) ==
  \E c \in CronJobs : \E o \in sweep[c].batch :
    sweep[c].pc = "publishing" /\ m = OrderExpiredEvent(o)

\* Messages come from nowhere else than from a publish: a step that leaves the
\* Worker alone adds to a queue only what is announced.
LEMMA PublishStep ==
  ASSUME TypeOK, NEW m \in Messages, NEW n \in Messages, Publish(n),
         UNCHANGED handler, Known(m)', m # n
  PROVE  Known(m)
BY DEF TypeOK, BusTypeOK, Known, Queued, Worked, Acked, Failed, Publish

LEMMA RequestMessages ==
  ASSUME TypeOK, NEW m \in Messages, Known(m)', UNCHANGED handler,
         NEW r \in Requests, RequestStep(r) \/ RequestAborts(r)
  PROVE  Known(m) \/ RequestAnnounces(m)
<1>1. CASE UNCHANGED busVars
  BY <1>1 DEF busVars, Known, Queued, Worked, Acked, Failed
<1>2. CASE /\ request[r].pc = "publishing"
           /\ Publish(OrderCreatedEvent(request[r].order))
  <2>1. OrderCreatedEvent(request[r].order) \in Messages
    BY <1>2, ServingOrder, EventsAreMessages DEF Serving, TypeOK
  <2> QED
    BY <1>2, <2>1, PublishStep DEF RequestAnnounces
<1> QED
  BY <1>1, <1>2
     DEF RequestStep, RequestAborts, AnnounceCreated, NoteCreated, ReturnCreated,
         SaveUpdate, SaveDelete, RequestFindsNoOrder

LEMMA SweepMessages ==
  ASSUME TypeOK, NEW m \in Messages, Known(m)', UNCHANGED handler,
         NEW c \in CronJobs, SweepStep(c) \/ SweepAborts(c)
  PROVE  Known(m) \/ SweepAnnounces(m)
<1>1. CASE UNCHANGED busVars
  BY <1>1 DEF busVars, Known, Queued, Worked, Acked, Failed
<1>2. ASSUME NEW o \in sweep[c].batch, sweep[c].pc = "publishing",
             Publish(OrderExpiredEvent(o))
      PROVE  Known(m) \/ SweepAnnounces(m)
  <2>1. OrderExpiredEvent(o) \in Messages
    BY EventsAreMessages DEF TypeOK, CronTypeOK, SweepStates
  <2> QED
    BY <1>2, <2>1, PublishStep DEF SweepAnnounces
<1> QED
  BY <1>1, <1>2 DEF SweepStep, SweepAborts, FindOverdue, ExpireOrders,
                    ExpireConflicts, AnnounceExpired

\* The three ways in which a handler comes to another message or to none.
LEMMA ReceiveMessages ==
  ASSUME TypeOK, NEW m \in Messages, Known(m)', NEW o \in Orders, Receive(o)
  PROVE  Known(m)
<1>1. PICK h \in Handlers, n \in Messages, pc \in HandlerPCs,
           s \in RowStates : Take(h, n, pc, s)
  BY EventsAreMessages
     DEF Receive, ReceiveOrderCreated, ReceiveOrderCompleted,
         ReceiveOrderExpired, HandlerPCs, TypeOK, TablesTypeOK, RowStates
<1>2. queue[n] > 0 /\ (m # n => queue'[m] = queue[m])
  BY <1>1 DEF Take, Deliver, TypeOK, BusTypeOK
<1>3. acked' = acked /\ errorQueue' = errorQueue
  BY <1>1 DEF Take, Deliver
<1>4. Worked(m)' => Worked(m) \/ m = n
  BY <1>1 DEF Take, Worked, TypeOK, WorkerTypeOK
<1> QED
  BY <1>2, <1>3, <1>4 DEF Known, Queued, Acked, Failed

LEMMA LeaveMessages ==
  ASSUME TypeOK, NEW m \in Messages, Known(m)',
         NEW h \in Handlers, Busy(h), Ack(h) \/ GiveUp(h)
  PROVE  Known(m)
<1>1. handler[h].msg \in Messages
  BY BusyMessage DEF TypeOK
<1>2. Worked(m)' => Worked(m)
  BY NoMessageAssumption
     DEF Ack, GiveUp, Worked, Idle, TypeOK, WorkerTypeOK
<1>3. queue' = queue
  BY DEF Ack, GiveUp, Acknowledge, MoveToErrorQueue, busVars
<1>4. \/ acked'[m] = acked[m] /\ errorQueue'[m] = errorQueue[m]
      \/ m = handler[h].msg
  BY <1>1 DEF Ack, GiveUp, Acknowledge, MoveToErrorQueue, busVars, TypeOK,
              BusTypeOK
<1> QED
  BY <1>2, <1>3, <1>4 DEF Known, Queued, Worked, Acked, Failed

LEMMA HandlerMessages ==
  ASSUME TypeOK, NEW m \in Messages, Known(m)',
         NEW h \in Handlers, HandlerStep(h)
  PROVE  Known(m) \/ HandlerAnnounces(m)
<1>1. CASE Ack(h) \/ SaveFindsNoOrder(h)
  BY <1>1, LeaveMessages DEF Ack, SaveFindsNoOrder, Busy
<1>2. CASE ~Ack(h) /\ ~SaveFindsNoOrder(h)
  <2>1. ASSUME NEW g \in Handlers
        PROVE  handler'[g].msg = handler[g].msg
    BY <1>2 DEF HandlerStep, MarkProcessing, PaymentSucceeds, PaymentFails,
                CompleteOrder, AnnounceCompleted, SaveNotification, Goto,
                Finish, TypeOK, WorkerTypeOK, HandlerStates
  <2>2. Worked(m)' => Worked(m)
    BY <2>1 DEF Worked
  <2>3. CASE AnnounceCompleted(h)
    <3>1. OrderCompletedEvent(handler[h].msg.order) \in Messages
      BY <2>3, BusyMessage, EventsAreMessages DEF AnnounceCompleted, Busy, TypeOK
    <3>2. \/ queue'[m] = queue[m]
          \/ m = OrderCompletedEvent(handler[h].msg.order)
      BY <2>3, <3>1 DEF AnnounceCompleted, Publish, TypeOK, BusTypeOK
    <3>3. acked' = acked /\ errorQueue' = errorQueue
      BY <2>3 DEF AnnounceCompleted, Publish
    <3> QED
      BY <2>2, <2>3, <3>2, <3>3
         DEF AnnounceCompleted, HandlerAnnounces, Known, Queued, Acked, Failed
  <2>4. CASE ~AnnounceCompleted(h)
    <3>1. UNCHANGED busVars
      BY <1>2, <2>4 DEF HandlerStep, MarkProcessing, PaymentSucceeds,
                        PaymentFails, CompleteOrder, SaveNotification
    <3> QED
      BY <2>2, <3>1 DEF busVars, Known, Queued, Acked, Failed
  <2> QED
    BY <2>3, <2>4
<1> QED
  BY <1>1, <1>2

LEMMA HandlerThrowsMessages ==
  ASSUME TypeOK, NEW m \in Messages, Known(m)', HandlerThrows
  PROVE  Known(m) \/ HandlerAnnounces(m)
<1>1. PICK h \in Handlers : ConsumerThrows(h) \/ AnnounceThrows(h)
  BY DEF HandlerThrows
<1>2. CASE ConsumerThrows(h)
  BY <1>2, LeaveMessages DEF ConsumerThrows
<1>3. CASE AnnounceThrows(h)
  <2>1. handler[h].msg \in Messages /\ handler[h].msg.order \in Orders
    BY <1>3, BusyMessage DEF AnnounceThrows, Busy, TypeOK
  <2>2. OrderCompletedEvent(handler[h].msg.order) \in Messages
    BY <2>1, EventsAreMessages
  <2>3. queue'[m] = queue[m] \/ m = OrderCompletedEvent(handler[h].msg.order)
    BY <1>3, <2>2 DEF AnnounceThrows, TypeOK, BusTypeOK
  <2>4. errorQueue'[m] = errorQueue[m] \/ m = handler[h].msg
    BY <1>3, <2>1 DEF AnnounceThrows, TypeOK, BusTypeOK
  <2>5. Worked(m)' => Worked(m)
    BY <1>3, NoMessageAssumption
       DEF AnnounceThrows, Worked, Idle, TypeOK, WorkerTypeOK
  <2>6. acked' = acked /\ handler[h].pc = "announcing"
    BY <1>3 DEF AnnounceThrows
  <2> QED
    BY <2>3, <2>4, <2>5, <2>6
       DEF HandlerAnnounces, Known, Queued, Worked, Acked, Failed
<1> QED
  BY <1>1, <1>2, <1>3

LEMMA RedeliveryMessages ==
  ASSUME TypeOK, NEW m \in Messages, Known(m)', Redelivery
  PROVE  Known(m)
<1> DEFINE holders == {h \in Handlers : Holds(h, m)}
<1>1. /\ queue'[m] = queue[m] + Cardinality(holders)
      /\ UNCHANGED <<errorQueue, acked>>
  BY DEF Redelivery, WorkerCrash, ConnectionLost, Requeue, UnackedDeliveries
<1>2. holders = {} => Cardinality(holders) = 0
  BY FS_EmptySet
<1>3. queue[m] \in Nat
  BY DEF TypeOK, BusTypeOK
<1>4. holders # {} => Worked(m)
  BY DEF Holds, Worked
<1>5. Worked(m)' => Worked(m)
  BY NoMessageAssumption
     DEF Redelivery, WorkerCrash, ConnectionLost, Worked, Idle, TypeOK,
         WorkerTypeOK, HandlerStates
<1> QED
  BY <1>1, <1>2, <1>3, <1>4, <1>5 DEF Known, Queued, Acked, Failed

LEMMA MessageStep ==
  ASSUME TypeOK, [Next]_vars, NEW m \in Messages, Known(m)'
  PROVE  Known(m) \/ RequestAnnounces(m) \/ HandlerAnnounces(m) \/ SweepAnnounces(m)
<1>1. CASE UNCHANGED <<busVars, workerVars>>
  BY <1>1 DEF busVars, workerVars, Known, Queued, Worked, Acked, Failed
<1>2. CASE ClientPosts \/ ClientEdit \/ ClientDeletesUser \/ TimePasses
  BY <1>1, <1>2
     DEF ClientPosts, ClientEdit, ClientDeletesUser, CascadeToOrders, TimePasses,
         CreateOrder, LoadForUpdate, LoadForDelete
<1>3. CASE \E r \in Requests : ApiStep(r)
  BY <1>3, RequestMessages DEF ApiStep, workerVars
<1>4. CASE WorkerStarts
  BY <1>4 DEF WorkerStarts, WorkerStart, DeclareQueues, workerVars, Known,
              Queued, Worked, Acked, Failed
<1>5. CASE \E o \in Orders : WorkerReceives(o)
  BY <1>5, ReceiveMessages DEF WorkerReceives
<1>6. CASE \E h \in Handlers : WorkerHandles(h)
  BY <1>6, HandlerMessages DEF WorkerHandles
<1>7. CASE \E c \in CronJobs : CronStep(c)
  BY <1>7, SweepMessages DEF CronStep, workerVars
<1>8. CASE Error
  BY <1>8, RequestMessages, HandlerThrowsMessages, SweepMessages
     DEF Error, workerVars
<1>9. CASE WorkerLost
  BY <1>9, RedeliveryMessages DEF WorkerLost
<1>10. CASE UNCHANGED vars
  BY <1>1, <1>10 DEF vars
<1> QED
  BY <1>2, <1>3, <1>4, <1>5, <1>6, <1>7, <1>8, <1>9, <1>10 DEF Next

-----------------------------------------------------------------------------
(* Nothing is about an order that was never placed, and a message is never *)
(* ahead of what it says: the invariant relates every message that is      *)
(* somewhere, and every actor that is about to publish or save one, to the *)
(* rows and to what has happened.                                          *)

Earned(m) ==
  /\ status[m.order] # "unused"
  /\ m.type = "OrderCompleted" => charges[m.order] > 0
  /\ m.type = "OrderExpired" => expiries[m.order] > 0

OriginInv ==
  /\ \A m \in Messages : Known(m) => Earned(m)
  /\ \A r \in Requests :
       /\ Serving(r) => status[request[r].order] # "unused"
       /\ request[r].pc = "updating" =>
            edits > 0 /\ request[r].target \in ClientEdits \cap OrderStatuses
  /\ \A c \in CronJobs : \A o \in sweep[c].batch :
       /\ status[o] # "unused"
       /\ sweep[c].pc = "publishing" => expiries[o] > 0
  /\ \A o \in Orders : charges[o] > 0 => status[o] # "unused"

TruthInv == TypeOK /\ PaidInv /\ OriginInv

\* An update never asks for a status that is none, so an order that was placed
\* never becomes one that was not, and one that is deleted stays so.
LEMMA UpdatesStayInside ==
  ASSUME TruthInv, NEW r \in Requests, request[r].pc = "updating"
  PROVE  request[r].target \in OrderStatuses /\ request[r].order \in Orders
BY ServingOrder, ClientEditsAssumption DEF TruthInv, OriginInv, TypeOK, Serving

LEMMA PlacedStays ==
  ASSUME TruthInv, [Next]_vars, NEW o \in Orders
  PROVE  /\ status[o] # "unused" => status'[o] # "unused"
         /\ status[o] = "deleted" => status'[o] = "deleted"
         /\ ~Exists(o) /\ Exists(o)' =>
              /\ status[o] = "unused" /\ status'[o] = "pending"
              /\ \E r \in Requests : CreateOrder(r, o)
<1>1. TypeOK
  BY DEF TruthInv
<1> QED
  BY <1>1, StatusStep, UpdatesStayInside DEF Exists, OrderStatuses

LEMMA EarnedStays ==
  ASSUME TruthInv, [Next]_vars, NEW m \in Messages, Earned(m)
  PROVE  Earned(m)'
<1>1. m.order \in Orders
  BY MessageFields
<1> QED
  BY <1>1, PlacedStays, ChargesGrow, ExpiriesGrow DEF Earned, TruthInv

\* What is announced is earned already.
LEMMA AnnouncedIsEarned ==
  ASSUME TruthInv, NEW m \in Messages,
         RequestAnnounces(m) \/ HandlerAnnounces(m) \/ SweepAnnounces(m)
  PROVE  Earned(m)
<1> USE DEF Earned, TruthInv, OriginInv, OrderCreatedEvent, OrderCompletedEvent,
            OrderExpiredEvent
<1>1. CASE RequestAnnounces(m)
  BY <1>1 DEF RequestAnnounces, Serving
<1>2. CASE HandlerAnnounces(m)
  <2>1. PICK h \in Handlers :
          handler[h].pc = "announcing" /\ m = OrderCompletedEvent(handler[h].msg.order)
    BY <1>2 DEF HandlerAnnounces
  <2>2. handler[h].msg \in Messages
    BY <2>1, BusyMessage DEF Busy, TypeOK
  <2>3. Known(handler[h].msg)
    BY DEF Known, Worked
  <2> QED
    BY <2>1, <2>2, <2>3 DEF PaidInv
<1>3. CASE SweepAnnounces(m)
  BY <1>3 DEF SweepAnnounces
<1> QED
  BY <1>1, <1>2, <1>3

\* A request that serves an order has inserted or found its row.
LEMMA RequestsArePlaced ==
  ASSUME TruthInv, [Next]_vars, NEW r \in Requests
  PROVE  /\ Serving(r)' => status'[request'[r].order] # "unused"
         /\ request'[r].pc = "updating" =>
              edits' > 0 /\ request'[r].target \in ClientEdits \cap OrderStatuses
<1> USE DEF TruthInv, OriginInv, TypeOK, ApiTypeOK
<1>1. edits \in Nat /\ edits' \in {edits, edits + 1}
  BY BoundsAssumption
     DEF Next, ClientPosts, ClientEdit, ClientDeletesUser, CascadeToOrders,
         TimePasses, ApiStep, WorkerStarts, WorkerReceives, WorkerHandles,
         CronStep, Error, WorkerLost, vars, counters
<1>2. CASE request'[r] = request[r]
  <2>1. Serving(r) => request[r].order \in Orders
    BY ServingOrder
  <2> QED
    BY <1>1, <1>2, <2>1, PlacedStays DEF Serving
<1>3. ASSUME NEW q \in Requests, NEW o \in Orders, CreateOrder(q, o)
      PROVE  request'[r] # request[r] =>
               /\ request'[r].order = o /\ request'[r].pc = "publishing"
               /\ status'[o] = "pending"
  BY <1>3 DEF CreateOrder, Begin, InsertOrder, TablesTypeOK
<1>4. ASSUME NEW q \in Requests, NEW o \in Orders, LoadForDelete(q, o)
      PROVE  request'[r] # request[r] =>
               /\ request'[r].order = o /\ request'[r].pc = "deleting"
               /\ status'[o] \in OrderStatuses
  BY <1>4 DEF LoadForDelete, Begin, Exists, tableVars
<1>5. ASSUME NEW q \in Requests, NEW o \in Orders, NEW new \in ClientEdits \cap OrderStatuses,
             LoadForUpdate(q, o, new)
      PROVE  request'[r] # request[r] =>
               /\ request'[r].order = o /\ request'[r].pc = "updating"
               /\ request'[r].target = new /\ status'[o] \in OrderStatuses
  BY <1>5 DEF LoadForUpdate, Begin, Exists, tableVars
<1>6. CASE ClientPosts
  BY <1>2, <1>3, <1>6 DEF ClientPosts
<1>7. CASE ClientEdit
  <2>1. edits' > 0
    BY <1>1, <1>7 DEF ClientEdit
  <2> QED
    BY <1>2, <1>4, <1>5, <1>7, <2>1 DEF ClientEdit, OrderStatuses
<1>8. ASSUME NEW q \in Requests, RequestStep(q) \/ RequestAborts(q)
      PROVE  \/ request'[r] = request[r]
             \/ request'[r] = Free
             \/ /\ Serving(r) /\ request'[r].order = request[r].order
                /\ request'[r].pc \in {"noting", "reloading"}
  BY <1>8
     DEF RequestStep, RequestAborts, AnnounceCreated, NoteCreated, ReturnCreated,
         SaveUpdate, SaveDelete, RequestFindsNoOrder, Respond, Serving,
         RequestStates
<1>9. ASSUME NEW q \in Requests, RequestStep(q) \/ RequestAborts(q)
      PROVE  /\ Serving(r)' => status'[request'[r].order] # "unused"
             /\ request'[r].pc = "updating" =>
                  edits' > 0 /\ request'[r].target \in ClientEdits \cap OrderStatuses
  <2>1. CASE request'[r] = Free
    BY <2>1 DEF Serving, Free
  <2>2. CASE /\ Serving(r) /\ request'[r].order = request[r].order
             /\ request'[r].pc \in {"noting", "reloading"}
    BY <2>2, ServingOrder, PlacedStays
  <2> QED
    BY <1>2, <1>8, <1>9, <2>1, <2>2
<1>10. CASE UNCHANGED request
  BY <1>2, <1>10
<1> QED
  BY <1>6, <1>7, <1>9, <1>10
     DEF Next, ClientDeletesUser, CascadeToOrders, TimePasses, ApiStep, WorkerStarts,
         WorkerReceives, WorkerHandles, CronStep, Error, WorkerLost, vars, apiVars

\* A sweep works on rows that it found, and announces what it has expired.
LEMMA SweepsArePlaced ==
  ASSUME TruthInv, [Next]_vars, NEW c \in CronJobs, NEW o \in sweep'[c].batch
  PROVE  /\ status'[o] # "unused"
         /\ sweep'[c].pc = "publishing" => expiries'[o] > 0
<1> USE DEF TruthInv, OriginInv, TypeOK, CronTypeOK, SweepStates
<1>1. o \in Orders
  BY TypeOKNext
<1>2. CASE /\ o \in sweep[c].batch
           /\ sweep'[c].pc = "publishing" => sweep[c].pc = "publishing"
  BY <1>1, <1>2, PlacedStays, ExpiriesGrow
<1>3. ASSUME NEW d \in CronJobs, FindOverdue(d), c = d
      PROVE  status'[o] # "unused" /\ sweep'[c].pc = "saving"
  BY <1>3 DEF FindOverdue, Overdue, tableVars
<1>4. ASSUME NEW d \in CronJobs, ExpireOrders(d), c = d
      PROVE  status'[o] # "unused" /\ expiries'[o] > 0
  <2>1. o \in sweep[d].batch
    BY <1>4 DEF ExpireOrders
  <2> QED
    BY <1>1, <1>4, <2>1 DEF ExpireOrders, UpdateOrders
<1>5. ASSUME NEW d \in CronJobs, SweepStep(d) \/ SweepAborts(d)
      PROVE  \/ FindOverdue(d) /\ c = d
             \/ ExpireOrders(d) /\ c = d
             \/ /\ o \in sweep[c].batch
                /\ sweep'[c].pc = "publishing" => sweep[c].pc = "publishing"
  BY <1>5 DEF SweepStep, SweepAborts, FindOverdue, ExpireOrders,
              ExpireConflicts, AnnounceExpired, Without, Waiting
<1>6. CASE UNCHANGED sweep
  BY <1>2, <1>6
<1> QED
  BY <1>2, <1>3, <1>4, <1>5, <1>6
     DEF Next, ClientPosts, ClientEdit, ClientDeletesUser, CascadeToOrders,
         TimePasses, ApiStep, WorkerStarts, WorkerReceives, WorkerHandles,
         CronStep, Error, WorkerLost, vars, cronVars

LEMMA OriginInvNext == TruthInv /\ [Next]_vars => OriginInv'
<1> SUFFICES ASSUME TruthInv, [Next]_vars PROVE OriginInv'
  OBVIOUS
<1>1. ASSUME NEW m \in Messages, Known(m)'
      PROVE  Earned(m)'
  <2>1. Earned(m)
    BY <1>1, MessageStep, AnnouncedIsEarned DEF TruthInv, OriginInv
  <2> QED
    BY <2>1, EarnedStays
<1>2. ASSUME NEW o \in Orders, charges'[o] > 0
      PROVE  status'[o] # "unused"
  <2>1. CASE charges[o] > 0
    BY <2>1, PlacedStays DEF TruthInv, OriginInv
  <2>2. CASE ~(charges[o] > 0)
    <3>1. PICK h \in Handlers : PaymentSucceeds(h)
      BY <1>2, <2>2, ChargesStep
    <3>2. handler[h].msg \in Messages
      BY <3>1, BusyMessage DEF PaymentSucceeds, Busy, TruthInv, TypeOK
    <3>3. status[handler[h].msg.order] # "unused"
      BY <3>2 DEF TruthInv, OriginInv, Known, Worked, Earned
    <3>4. o = handler[h].msg.order
      BY <1>2, <2>2, <3>1 DEF PaymentSucceeds, TruthInv, TypeOK, WorkerTypeOK
    <3> QED
      BY <3>3, <3>4, PlacedStays
  <2> QED
    BY <2>1, <2>2
<1> QED
  BY <1>1, <1>2, RequestsArePlaced, SweepsArePlaced DEF OriginInv

LEMMA TruthInvInit == Init => TruthInv
<1> SUFFICES ASSUME Init PROVE TruthInv
  OBVIOUS
<1>1. TypeOK
  BY TypeOKInit
<1>2. PaidInv
  BY DEF Init, TablesInit, ApiInit, WorkerInit, PaidInv, Idle, Free
<1>3. ASSUME NEW m \in Messages
      PROVE  ~Known(m)
  BY NoMessageAssumption
     DEF Init, BusInit, WorkerInit, Known, Queued, Worked, Acked, Failed, Idle
<1>4. OriginInv
  BY <1>3 DEF Init, OriginInv, ApiInit, CronInit, WorkerInit, Serving, Free, Waiting
<1> QED
  BY <1>1, <1>2, <1>4 DEF TruthInv

LEMMA TruthInvNext == TruthInv /\ [Next]_vars => TruthInv'
BY TypeOKNext, PaidInvNext, OriginInvNext DEF TruthInv

LEMMA TruthInvHolds == Spec => []TruthInv
<1> QED
  BY TruthInvInit, TruthInvNext, PTL DEF Spec

-----------------------------------------------------------------------------
(* What a step may do to the handlers.                                     *)

\* Handler g alone moves.
Moves(g) ==
  /\ \A h \in Handlers \ {g} : handler'[h] = handler[h]
  /\ \/ HandlerStep(g)
     \/ ConsumerThrows(g)
     \/ AnnounceThrows(g)
     \/ \E o \in Orders : \/ ReceiveOrderCreated(g, o)
                          \/ ReceiveOrderCompleted(g, o)
                          \/ ReceiveOrderExpired(g, o)

LEMMA OneHandlerMoves ==
  ASSUME TypeOK, NEW g \in Handlers,
         \/ HandlerStep(g)
         \/ ConsumerThrows(g)
         \/ AnnounceThrows(g)
         \/ \E o \in Orders : \/ ReceiveOrderCreated(g, o)
                              \/ ReceiveOrderCompleted(g, o)
                              \/ ReceiveOrderExpired(g, o)
  PROVE  Moves(g)
<1> USE DEF TypeOK, WorkerTypeOK
<1>1. CASE HandlerStep(g) \/ ConsumerThrows(g) \/ AnnounceThrows(g)
  <2>1. \A h \in Handlers \ {g} : handler'[h] = handler[h]
    BY <1>1 DEF HandlerStep, MarkProcessing, PaymentSucceeds, PaymentFails,
                CompleteOrder, AnnounceCompleted, SaveNotification,
                SaveFindsNoOrder, Ack, GiveUp, Goto, Finish, ConsumerThrows,
                AnnounceThrows
  <2> QED
    BY <1>1, <2>1 DEF Moves
<1>2. ASSUME NEW o \in Orders,
             \/ ReceiveOrderCreated(g, o)
             \/ ReceiveOrderCompleted(g, o)
             \/ ReceiveOrderExpired(g, o)
      PROVE  Moves(g)
  <2>1. \A h \in Handlers \ {g} : handler'[h] = handler[h]
    BY <1>2 DEF ReceiveOrderCreated, ReceiveOrderCompleted, ReceiveOrderExpired,
                Take
  <2> QED
    BY <1>2, <2>1 DEF Moves
<1> QED
  BY <1>1, <1>2

LEMMA HandlersStep ==
  ASSUME TypeOK, [Next]_vars
  PROVE  \/ UNCHANGED handler
         \/ \E g \in Handlers : Moves(g)
         \/ WorkerLost /\ (WorkerCrash \/ ConnectionLost)
BY OneHandlerMoves
   DEF Next, ClientPosts, ClientEdit, ClientDeletesUser, CascadeToOrders,
       TimePasses, ApiStep, WorkerStarts, WorkerStart, WorkerReceives, Receive,
       WorkerHandles, CronStep, Error, HandlerThrows, WorkerLost, Redelivery,
       vars, workerVars

-----------------------------------------------------------------------------
(* Notifications.  The email goes out when a handler takes the event, the  *)
(* row is written one step later: an email that has no row yet belongs to  *)
(* a handler that is about to write it, or that did not get to it.         *)

Notifying(o) ==
  {h \in Handlers :
     handler[h].pc = "notifying" /\ handler[h].msg = OrderCompletedEvent(o)}

RowsInv ==
  \A o \in Orders :
    /\ notifications[o]["OrderCompleted"] + Cardinality(Notifying(o)) <= emails[o]
    /\ emails[o] > 0 => charges[o] > 0
    /\ notifications[o]["OrderExpired"] > 0 => expiries[o] > 0

LEMMA NotifyingIsFinite ==
  ASSUME NEW o
  PROVE  IsFiniteSet(Notifying(o)) /\ Cardinality(Notifying(o)) \in Nat
BY HandlersAssumption, FS_Subset, FS_CardinalityType DEF Notifying

LEMMA NotifyingStep ==
  ASSUME TypeOK, [Next]_vars, NEW o \in Orders
  PROVE  \/ Notifying(o)' \subseteq Notifying(o)
         \/ \E h \in Handlers : ReceiveOrderCompleted(h, o)
<1> USE DEF TypeOK, WorkerTypeOK, HandlerStates
<1>1. ASSUME NEW g \in Handlers, Moves(g), g \in Notifying(o)', g \notin Notifying(o)
      PROVE  ReceiveOrderCompleted(g, o)
  <2>1. \A p \in Orders : ~ReceiveOrderCreated(g, p) /\ ~ReceiveOrderExpired(g, p)
    BY <1>1 DEF Notifying, ReceiveOrderCreated, ReceiveOrderExpired, Take,
                OrderCompletedEvent, OrderExpiredEvent
  <2>2. ~HandlerStep(g) /\ ~ConsumerThrows(g) /\ ~AnnounceThrows(g)
    BY <1>1 DEF Notifying, HandlerStep, MarkProcessing, PaymentSucceeds,
                PaymentFails, CompleteOrder, AnnounceCompleted,
                SaveNotification, SaveFindsNoOrder, Ack, GiveUp, Goto, Finish,
                Idle, ConsumerThrows, AnnounceThrows
  <2>3. PICK p \in Orders : ReceiveOrderCompleted(g, p)
    BY <1>1, <2>1, <2>2 DEF Moves
  <2>4. handler'[g].msg = OrderCompletedEvent(p)
    BY <2>3 DEF ReceiveOrderCompleted, Take
  <2>5. p = o
    BY <1>1, <2>4 DEF Notifying, OrderCompletedEvent
  <2> QED
    BY <2>3, <2>5
<1>2. CASE UNCHANGED handler
  BY <1>2 DEF Notifying
<1>3. CASE \E g \in Handlers : Moves(g)
  BY <1>1, <1>3 DEF Moves, Notifying
<1>4. CASE WorkerCrash \/ ConnectionLost
  BY <1>4 DEF WorkerCrash, ConnectionLost, Notifying, Idle
<1> QED
  BY <1>2, <1>3, <1>4, HandlersStep

LEMMA RowsStep ==
  ASSUME TypeOK, [Next]_vars, NEW o \in Orders, NEW e \in EventTypes
  PROVE  \/ notifications'[o][e] = notifications[o][e]
         \/ notifications'[o][e] = 0 /\ status'[o] = "deleted"
         \/ e = "OrderCreated"
         \/ /\ notifications'[o][e] = notifications[o][e] + 1
            /\ \E h \in Handlers :
                 /\ SaveNotification(h)
                 /\ handler[h].msg.order = o /\ handler[h].msg.type = e
<1> USE DEF TypeOK, TablesTypeOK
<1>1. ASSUME NEW r \in Requests, NoteCreated(r), e # "OrderCreated"
      PROVE  notifications'[o][e] = notifications[o][e]
  BY <1>1, ServingOrder DEF NoteCreated, InsertNotification, Serving, EventTypes
<1>2. ASSUME CascadeToOrders \/ \E r \in Requests : SaveDelete(r)
      PROVE  \/ notifications'[o][e] = notifications[o][e]
             \/ notifications'[o][e] = 0 /\ status'[o] = "deleted"
  <2>1. PICK gone : DeleteOrders(gone)
    BY <1>2 DEF CascadeToOrders, SaveDelete
  <2> QED
    BY <2>1 DEF DeleteOrders, NoNotifications
<1>3. ASSUME NEW h \in Handlers, SaveNotification(h)
      PROVE  \/ notifications'[o][e] = notifications[o][e]
             \/ /\ notifications'[o][e] = notifications[o][e] + 1
                /\ handler[h].msg.order = o /\ handler[h].msg.type = e
  <2>1. handler[h].msg.order \in Orders /\ handler[h].msg.type \in EventTypes
    BY <1>3, BusyMessage DEF SaveNotification, Busy
  <2> QED
    BY <1>3, <2>1 DEF SaveNotification, InsertNotification
<1> QED
  BY <1>1, <1>2, <1>3, NotificationsStep

LEMMA RowsInvNext == TruthInv /\ RowsInv /\ [Next]_vars => RowsInv'
<1> SUFFICES ASSUME TruthInv, RowsInv, [Next]_vars, NEW o \in Orders
             PROVE  /\ (notifications[o]["OrderCompleted"]
                          + Cardinality(Notifying(o)) <= emails[o])'
                    /\ (emails[o] > 0 => charges[o] > 0)'
                    /\ (notifications[o]["OrderExpired"] > 0 => expiries[o] > 0)'
  BY DEF RowsInv
<1> DEFINE rows(e) == notifications[o][e]
<1>1. TypeOK /\ TypeOK'
  BY TypeOKNext DEF TruthInv
<1>2. /\ rows("OrderCompleted") \in Nat /\ rows("OrderCompleted")' \in Nat
      /\ rows("OrderExpired") \in Nat /\ rows("OrderExpired")' \in Nat
      /\ emails[o] \in Nat /\ emails'[o] \in Nat
  BY <1>1 DEF TypeOK, TablesTypeOK, WorkerTypeOK, EventTypes
<1>3. /\ IsFiniteSet(Notifying(o)) /\ Cardinality(Notifying(o)) \in Nat
      /\ Cardinality(Notifying(o)') \in Nat
  BY NotifyingIsFinite, HandlersAssumption, FS_Subset, FS_CardinalityType
     DEF Notifying
<1>4. \/ emails'[o] = emails[o]
      \/ emails'[o] = emails[o] + 1 /\ \E h \in Handlers : ReceiveOrderCompleted(h, o)
  BY <1>1, EmailsStep DEF ReceiveOrderCompleted, TypeOK, WorkerTypeOK
<1>5. (notifications[o]["OrderCompleted"] + Cardinality(Notifying(o)) <= emails[o])'
  <2>1. CASE \E h \in Handlers : ReceiveOrderCompleted(h, o)
    <3>1. PICK h \in Handlers : ReceiveOrderCompleted(h, o)
      BY <2>1
    <3>2. Notifying(o)' = Notifying(o) \cup {h} /\ h \notin Notifying(o)
      BY <1>1, <3>1 DEF ReceiveOrderCompleted, Take, Busy, Notifying, TypeOK,
                        WorkerTypeOK
    <3>3. Cardinality(Notifying(o)') = Cardinality(Notifying(o)) + 1
      BY <1>3, <3>2, FS_AddElement
    <3>4. rows("OrderCompleted")' = rows("OrderCompleted") /\ emails'[o] = emails[o] + 1
      BY <1>1, <3>1 DEF ReceiveOrderCompleted, tableVars, TypeOK, WorkerTypeOK
    <3> QED
      BY <1>2, <1>3, <3>3, <3>4 DEF RowsInv
  <2>2. ASSUME NEW h \in Handlers, SaveNotification(h), h \in Notifying(o)
        PROVE  (notifications[o]["OrderCompleted"] + Cardinality(Notifying(o)) <= emails[o])'
    <3>1. Notifying(o)' = Notifying(o) \ {h}
      BY <1>1, <2>2 DEF SaveNotification, Finish, Notifying, TypeOK, WorkerTypeOK
    <3>2. Cardinality(Notifying(o)') = Cardinality(Notifying(o)) - 1
      BY <1>3, <2>2, <3>1, FS_RemoveElement
    <3>3. rows("OrderCompleted")' = rows("OrderCompleted") + 1 /\ emails'[o] = emails[o]
      BY <1>1, <2>2 DEF SaveNotification, InsertNotification, Notifying,
                        OrderCompletedEvent, TypeOK, TablesTypeOK, EventTypes
    <3> QED
      BY <1>2, <1>3, <3>2, <3>3 DEF RowsInv
  <2>3. CASE /\ ~\E h \in Handlers : ReceiveOrderCompleted(h, o)
             /\ ~\E h \in Handlers : SaveNotification(h) /\ h \in Notifying(o)
    <3>1. Notifying(o)' \subseteq Notifying(o)
      BY <1>1, <2>3, NotifyingStep
    <3>2. Cardinality(Notifying(o)') <= Cardinality(Notifying(o))
      BY <1>3, <3>1, FS_Subset
    <3>3. ASSUME NEW h \in Handlers, SaveNotification(h), handler[h].msg.order = o,
                 handler[h].msg.type = "OrderCompleted"
          PROVE  h \in Notifying(o)
      <4>1. handler[h].msg \in Messages
        BY <1>1, <3>3, BusyMessage DEF SaveNotification, Busy, TypeOK
      <4> QED
        BY <3>3, <4>1 DEF SaveNotification, Notifying, Messages, OrderCompletedEvent
    <3>4. rows("OrderCompleted")' <= rows("OrderCompleted")
      BY <1>1, <1>2, <2>3, <3>3, RowsStep DEF EventTypes
    <3> QED
      BY <1>2, <1>3, <1>4, <2>3, <3>2, <3>4 DEF RowsInv
  <2> QED
    BY <2>1, <2>2, <2>3
<1>6. (emails[o] > 0 => charges[o] > 0)'
  <2>1. CASE emails'[o] = emails[o]
    BY <1>1, <2>1, ChargesGrow DEF RowsInv
  <2>2. ASSUME NEW h \in Handlers, ReceiveOrderCompleted(h, o)
        PROVE  charges'[o] > 0
    <3>1. Earned(OrderCompletedEvent(o))
      BY <2>2, EventsAreMessages
         DEF ReceiveOrderCompleted, Take, Deliver, TruthInv, OriginInv, Known,
             Queued
    <3>2. charges[o] > 0
      BY <3>1 DEF Earned, OrderCompletedEvent
    <3> QED
      BY <1>1, <3>2, ChargesGrow
  <2> QED
    BY <1>4, <2>1, <2>2
<1>7. (notifications[o]["OrderExpired"] > 0 => expiries[o] > 0)'
  <2>1. ASSUME NEW h \in Handlers, SaveNotification(h), handler[h].msg.order = o,
               handler[h].msg.type = "OrderExpired"
        PROVE  expiries[o] > 0
    <3>1. handler[h].msg \in Messages
      BY <1>1, <2>1, BusyMessage DEF SaveNotification, Busy, TypeOK
    <3> QED
      BY <2>1, <3>1 DEF TruthInv, OriginInv, Known, Worked, Earned
  <2>2. notifications'[o]["OrderExpired"] > 0 => expiries[o] > 0
    BY <1>1, <1>2, <2>1, RowsStep DEF RowsInv, EventTypes
  <2> QED
    BY <1>1, <2>2, ExpiriesGrow
<1> QED
  BY <1>5, <1>6, <1>7

\* Whatever is redelivered, races or fails: an order has no more completion
\* rows than emails went out for it, no email goes out for an unpaid order, and
\* no expiry is noted of an order that no sweep expired.
THEOREM NoFalseNotification == Spec => []NotificationsAreTrue
<1>1. Init => RowsInv
  <2> SUFFICES ASSUME Init, NEW o \in Orders
               PROVE  /\ notifications[o]["OrderCompleted"]
                           + Cardinality(Notifying(o)) <= emails[o]
                      /\ ~(emails[o] > 0)
                      /\ ~(notifications[o]["OrderExpired"] > 0)
    BY DEF RowsInv
  <2>1. Notifying(o) = {}
    BY DEF Init, WorkerInit, Notifying, Idle
  <2> QED
    BY <2>1, FS_EmptySet
       DEF Init, TablesInit, NoNotifications, EventTypes, WorkerInit
<1>2. TruthInv /\ RowsInv => NotificationsAreTrue
  <2> SUFFICES ASSUME TruthInv, RowsInv, NEW o \in Orders
               PROVE  notifications[o]["OrderCompleted"] <= emails[o]
    BY DEF NotificationsAreTrue, RowsInv
  <2>1. notifications[o]["OrderCompleted"] \in Nat /\ emails[o] \in Nat
    BY DEF TruthInv, TypeOK, TablesTypeOK, WorkerTypeOK, EventTypes
  <2> QED
    BY <2>1, NotifyingIsFinite DEF RowsInv
<1> QED
  BY <1>1, <1>2, TruthInvHolds, RowsInvNext, PTL DEF Spec

-----------------------------------------------------------------------------
(* Failures.                                                               *)

LEMMA ErrorQueueStep ==
  ASSUME [Next]_vars
  PROVE  \/ UNCHANGED errorQueue
         \/ \E h \in Handlers : SaveFindsNoOrder(h)
         \/ errors' = errors + 1
BY DEF Next, ClientPosts, CreateOrder, ClientEdit, ClientDeletesUser,
       CascadeToOrders, LoadForUpdate, LoadForDelete, TimePasses, ApiStep,
       RequestStep, AnnounceCreated, NoteCreated, ReturnCreated, SaveUpdate,
       SaveDelete, RequestFindsNoOrder, WorkerStarts, WorkerStart, DeclareQueues,
       WorkerReceives, Receive, ReceiveOrderCreated, ReceiveOrderCompleted,
       ReceiveOrderExpired, Take, Deliver, WorkerHandles, HandlerStep,
       MarkProcessing, PaymentSucceeds, PaymentFails, CompleteOrder,
       AnnounceCompleted, SaveNotification, Ack, Acknowledge, Publish, CronStep,
       SweepStep, FindOverdue, ExpireOrders, ExpireConflicts, AnnounceExpired,
       Error, WorkerLost, Redelivery, WorkerCrash, ConnectionLost, Requeue, vars,
       busVars

LEMMA ErrorsGrow ==
  ASSUME TypeOK, [Next]_vars
  PROVE  errors \in Nat /\ errors' \in {errors, errors + 1}
BY BoundsAssumption
   DEF Next, ClientPosts, ClientEdit, ClientDeletesUser, CascadeToOrders,
       TimePasses, ApiStep, WorkerStarts, WorkerReceives, WorkerHandles, CronStep,
       Error, WorkerLost, vars, counters, TypeOK

LEMMA OnlyDeletedOrdersFailNext ==
  TruthInv /\ OnlyDeletedOrdersFail /\ [Next]_vars => OnlyDeletedOrdersFail'
<1> SUFFICES ASSUME TruthInv, OnlyDeletedOrdersFail, [Next]_vars, errors' = 0,
                    NEW m \in Messages, Failed(m)'
             PROVE  status'[m.order] = "deleted"
  BY DEF OnlyDeletedOrdersFail
<1>1. TypeOK /\ m.order \in Orders
  BY MessageFields DEF TruthInv
<1>2. errors = 0 /\ errors' # errors + 1
  BY <1>1, ErrorsGrow
<1>3. CASE Failed(m)
  BY <1>1, <1>2, <1>3, PlacedStays DEF OnlyDeletedOrdersFail
<1>4. CASE ~Failed(m)
  <2>1. PICK h \in Handlers : SaveFindsNoOrder(h)
    BY <1>2, <1>4, ErrorQueueStep DEF Failed
  <2>2. handler[h].msg \in Messages
    BY <1>1, <2>1, BusyMessage DEF SaveFindsNoOrder, Busy, TypeOK
  <2>3. m = handler[h].msg
    BY <1>1, <1>4, <2>1, <2>2
       DEF SaveFindsNoOrder, GiveUp, MoveToErrorQueue, busVars, Failed, TypeOK,
           BusTypeOK
  <2>4. status[m.order] # "unused" /\ ~Exists(m.order)
    BY <2>1, <2>2, <2>3
       DEF SaveFindsNoOrder, TruthInv, OriginInv, Known, Worked, Earned
  <2>5. status[m.order] = "deleted"
    BY <1>1, <2>4 DEF Exists, TypeOK, TablesTypeOK, RowStates
  <2> QED
    BY <1>1, <2>5, PlacedStays
<1> QED
  BY <1>3, <1>4

\* As long as no call fails of itself, a message ends in an error queue only
\* when a client deleted its order: no interleaving of the services alone makes
\* a consumer give up.
THEOREM OnlyDeletionsFail == Spec => []OnlyDeletedOrdersFail
<1>1. Init => OnlyDeletedOrdersFail
  BY DEF Init, BusInit, OnlyDeletedOrdersFail, Failed
<1> QED
  BY <1>1, TruthInvHolds, OnlyDeletedOrdersFailNext, PTL DEF Spec

=============================================================================
