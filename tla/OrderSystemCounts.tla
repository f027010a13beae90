------------------------- MODULE OrderSystemCounts -------------------------
(***************************************************************************)
(* How often things happen in OrderSystem, for any number of orders,       *)
(* handlers, requests, sweeps, edits, errors and redeliveries: rows for    *)
(* acknowledged events, payments for an order, edges of its status and     *)
(* expiries.  Where a property counts, so does the inductive invariant:    *)
(* what is in a table or in a queue, plus the handlers that still have it. *)
(***************************************************************************)
EXTENDS OrderSystemTruth

-----------------------------------------------------------------------------
(* What a handler may be doing, and what a Worker that has not started or  *)
(* never lost its connection cannot have.                                  *)

RoleInv ==
  /\ \A h \in Handlers :
       /\ handler[h].pc \in {"loaded", "paying", "paid", "announcing"} =>
            handler[h].msg.type = "OrderCreated"
       /\ handler[h].pc = "notifying" => handler[h].msg.type # "OrderCreated"
  /\ ~bound => \A m \in Messages : ~Queued(m) /\ ~Worked(m)
  /\ redeliveries = 0 => \A h \in Handlers : handler[h].live

LEMMA RedeliveriesGrow ==
  ASSUME TypeOK, [Next]_vars
  PROVE  /\ redeliveries \in Nat
         /\ redeliveries' = redeliveries \/ (WorkerLost /\ redeliveries' = redeliveries + 1)
BY BoundsAssumption
   DEF Next, ClientPosts, ClientEdit, ClientDeletesUser, CascadeToOrders,
       TimePasses, ApiStep, WorkerStarts, WorkerReceives, WorkerHandles, CronStep,
       Error, WorkerLost, vars, counters, TypeOK

LEMMA EditsGrow ==
  ASSUME TypeOK, [Next]_vars
  PROVE  edits \in Nat /\ edits' \in {edits, edits + 1}
BY BoundsAssumption
   DEF Next, ClientPosts, ClientEdit, ClientDeletesUser, CascadeToOrders,
       TimePasses, ApiStep, WorkerStarts, WorkerReceives, WorkerHandles, CronStep,
       Error, WorkerLost, vars, counters, TypeOK

\* No step but a redelivery cuts a handler off, and no handler changes its kind.
LEMMA RoleStep ==
  ASSUME TypeOK, RoleInv, [Next]_vars, NEW h \in Handlers
  PROVE  /\ handler'[h].pc \in {"loaded", "paying", "paid", "announcing"} =>
              handler'[h].msg.type = "OrderCreated"
         /\ handler'[h].pc = "notifying" => handler'[h].msg.type # "OrderCreated"
         /\ handler[h].live => handler'[h].live \/ WorkerLost
<1> USE DEF TypeOK, WorkerTypeOK, HandlerStates, RoleInv
<1>1. CASE UNCHANGED handler
  BY <1>1
<1>2. ASSUME NEW g \in Handlers, Moves(g)
      PROVE  /\ handler'[g].pc \in {"loaded", "paying", "paid", "announcing"} =>
                  handler'[g].msg.type = "OrderCreated"
             /\ handler'[g].pc = "notifying" => handler'[g].msg.type # "OrderCreated"
             /\ handler[g].live => handler'[g].live
  <2>1. CASE HandlerStep(g)
    BY <2>1 DEF HandlerStep, MarkProcessing, PaymentSucceeds, PaymentFails,
                CompleteOrder, AnnounceCompleted, SaveNotification,
                SaveFindsNoOrder, Ack, GiveUp, Goto, Finish, Idle
  <2>2. CASE ConsumerThrows(g) \/ AnnounceThrows(g)
    BY <2>2 DEF ConsumerThrows, AnnounceThrows, GiveUp, Idle
  <2>3. ASSUME NEW o \in Orders, ReceiveOrderCreated(g, o)
        PROVE  /\ handler'[g].msg.type = "OrderCreated" /\ handler'[g].live
               /\ handler'[g].pc \in {"loaded", "acking"}
    BY <2>3 DEF ReceiveOrderCreated, Take, OrderCreatedEvent
  <2>4. ASSUME NEW o \in Orders, ReceiveOrderCompleted(g, o) \/ ReceiveOrderExpired(g, o)
        PROVE  /\ handler'[g].msg.type # "OrderCreated" /\ handler'[g].live
               /\ handler'[g].pc = "notifying"
    BY <2>4 DEF ReceiveOrderCompleted, ReceiveOrderExpired, Take,
                OrderCompletedEvent, OrderExpiredEvent
  <2> QED
    BY <1>2, <2>1, <2>2, <2>3, <2>4 DEF Moves
<1>3. CASE \E g \in Handlers : Moves(g)
  BY <1>2, <1>3 DEF Moves
<1>4. CASE WorkerLost /\ (WorkerCrash \/ ConnectionLost)
  BY <1>4 DEF WorkerCrash, ConnectionLost, Idle
<1> QED
  BY <1>1, <1>3, <1>4, HandlersStep

\* Before its first start the Worker gets nothing and has nothing.
LEMMA UnboundStep ==
  ASSUME TypeOK, RoleInv, [Next]_vars, ~bound'
  PROVE  ~bound /\ UNCHANGED <<queue, handler>>
<1> USE DEF Publish, Deliver, busVars, workerVars
<1>1. ~bound
  BY StepKeepsBound
<1>2. \A m \in Messages : queue[m] = 0
  BY <1>1 DEF RoleInv, Queued, TypeOK, BusTypeOK
<1>3. \A h \in Handlers : ~Busy(h)
  BY <1>1, BusyMessage DEF RoleInv, Worked, TypeOK
<1>4. ASSUME NEW r \in Requests, RequestStep(r) \/ RequestAborts(r)
      PROVE  queue' = queue
  BY <1>1, <1>4
     DEF RequestStep, RequestAborts, AnnounceCreated, NoteCreated, ReturnCreated,
         SaveUpdate, SaveDelete, RequestFindsNoOrder
<1>5. ASSUME NEW c \in CronJobs, SweepStep(c) \/ SweepAborts(c)
      PROVE  queue' = queue
  BY <1>1, <1>5 DEF SweepStep, SweepAborts, FindOverdue, ExpireOrders,
                    ExpireConflicts, AnnounceExpired
<1>6. ASSUME NEW h \in Handlers
      PROVE  ~HandlerStep(h) /\ ~ConsumerThrows(h) /\ ~AnnounceThrows(h)
  BY <1>3 DEF HandlerStep, MarkProcessing, PaymentSucceeds, PaymentFails,
              CompleteOrder, AnnounceCompleted, SaveNotification,
              SaveFindsNoOrder, Ack, ConsumerThrows, AnnounceThrows, Busy
<1>7. ASSUME NEW o \in Orders, Receive(o)
      PROVE  FALSE
  BY <1>2, <1>7, EventsAreMessages
     DEF Receive, ReceiveOrderCreated, ReceiveOrderCompleted,
         ReceiveOrderExpired, Take
<1>8. ~Redelivery
  BY <1>3 DEF Redelivery, WorkerCrash, ConnectionLost
<1>9. ~WorkerStart
  BY DEF WorkerStart, DeclareQueues
<1>10. CASE ClientPosts \/ ClientEdit \/ ClientDeletesUser \/ TimePasses
  BY <1>10
     DEF ClientPosts, CreateOrder, ClientEdit, ClientDeletesUser, CascadeToOrders,
         LoadForUpdate, LoadForDelete, TimePasses
<1> QED
  BY <1>1, <1>4, <1>5, <1>6, <1>7, <1>8, <1>9, <1>10
     DEF Next, ApiStep, WorkerStarts, WorkerReceives, WorkerHandles, CronStep,
         Error, HandlerThrows, WorkerLost, vars

LEMMA RoleInvInit == Init => RoleInv
BY NoMessageAssumption
   DEF Init, BusInit, WorkerInit, RoleInv, Queued, Worked, Idle

LEMMA RoleInvNext == TypeOK /\ RoleInv /\ [Next]_vars => RoleInv'
<1> SUFFICES ASSUME TypeOK, RoleInv, [Next]_vars PROVE RoleInv'
  OBVIOUS
<1>1. ~bound' => \A m \in Messages : ~Queued(m)' /\ ~Worked(m)'
  BY UnboundStep DEF RoleInv, Queued, Worked
<1>2. redeliveries' = 0 => redeliveries = 0 /\ ~WorkerLost
  BY RedeliveriesGrow DEF WorkerLost
<1> QED
  BY <1>1, <1>2, RoleStep DEF RoleInv

-----------------------------------------------------------------------------
(* Acknowledged completion and expiry events.  Between the save and the    *)
(* acknowledgement, a live handler stands for the row that it has written. *)

Acking(m) == {h \in Handlers : handler[h].pc = "acking" /\ Holds(h, m)}

AckInv ==
  \A m \in Messages :
    (m.type # "OrderCreated" /\ Exists(m.order)) =>
      acked[m] + Cardinality(Acking(m)) <= notifications[m.order][m.type]

LEMMA HandlerSetsAreFinite ==
  ASSUME NEW S \in SUBSET Handlers
  PROVE  IsFiniteSet(S) /\ Cardinality(S) \in Nat
BY HandlersAssumption, FS_Subset, FS_CardinalityType

LEMMA SmallerHandlerSet ==
  ASSUME NEW S \in SUBSET Handlers, NEW T \in SUBSET S
  PROVE  Cardinality(T) <= Cardinality(S) /\ Cardinality(T) \in Nat
BY HandlerSetsAreFinite, FS_Subset

LEMMA AckedStep ==
  ASSUME [Next]_vars
  PROVE  \/ UNCHANGED acked
         \/ \E h \in Handlers : Ack(h) /\ handler[h].live
BY DEF Next, ClientPosts, CreateOrder, ClientEdit, ClientDeletesUser,
       CascadeToOrders, LoadForUpdate, LoadForDelete, TimePasses, ApiStep,
       RequestStep, AnnounceCreated, NoteCreated, ReturnCreated, SaveUpdate,
       SaveDelete, RequestFindsNoOrder, RequestAborts, WorkerStarts, WorkerStart,
       DeclareQueues, WorkerReceives, Receive, ReceiveOrderCreated,
       ReceiveOrderCompleted, ReceiveOrderExpired, Take, Deliver, WorkerHandles,
       HandlerStep, MarkProcessing, PaymentSucceeds, PaymentFails, CompleteOrder,
       AnnounceCompleted, SaveNotification, SaveFindsNoOrder, GiveUp,
       MoveToErrorQueue, Ack, Publish, CronStep, SweepStep, SweepAborts,
       FindOverdue, ExpireOrders, ExpireConflicts, AnnounceExpired, Error,
       HandlerThrows, ConsumerThrows, AnnounceThrows, WorkerLost, Redelivery,
       WorkerCrash, ConnectionLost, Requeue, vars, busVars

\* A handler of a completion or an expiry gets to its end through the save.
LEMMA AckingStep ==
  ASSUME TypeOK, RoleInv, [Next]_vars, NEW m \in Messages, m.type # "OrderCreated"
  PROVE  \/ Acking(m)' \subseteq Acking(m)
         \/ \E h \in Handlers : SaveNotification(h) /\ handler[h].msg = m
<1> USE DEF TypeOK, WorkerTypeOK, HandlerStates
<1>1. ASSUME NEW g \in Handlers, Moves(g), g \in Acking(m)', g \notin Acking(m)
      PROVE  SaveNotification(g) /\ handler[g].msg = m
  <2>1. \A o \in Orders : /\ ~ReceiveOrderCreated(g, o)
                          /\ ~ReceiveOrderCompleted(g, o)
                          /\ ~ReceiveOrderExpired(g, o)
    BY <1>1 DEF Acking, Holds, ReceiveOrderCreated, ReceiveOrderCompleted,
                ReceiveOrderExpired, Take, OrderCreatedEvent
  <2>2. ~ConsumerThrows(g) /\ ~AnnounceThrows(g)
    BY <1>1 DEF Acking, ConsumerThrows, AnnounceThrows, GiveUp, Idle
  <2>3. HandlerStep(g)
    BY <1>1, <2>1, <2>2 DEF Moves
  <2>4. CASE PaymentFails(g) \/ AnnounceCompleted(g)
    BY <1>1, <2>4 DEF PaymentFails, AnnounceCompleted, Finish, RoleInv, Acking, Holds
  <2>5. CASE SaveNotification(g)
    BY <1>1, <2>5 DEF SaveNotification, Finish, Acking, Holds
  <2> QED
    BY <1>1, <2>3, <2>4, <2>5
       DEF HandlerStep, MarkProcessing, PaymentSucceeds, CompleteOrder,
           SaveFindsNoOrder, Ack, GiveUp, Goto, Idle, Acking
<1>2. CASE UNCHANGED handler
  BY <1>2 DEF Acking, Holds
<1>3. CASE \E g \in Handlers : Moves(g)
  BY <1>1, <1>3 DEF Moves, Acking, Holds
<1>4. CASE WorkerCrash \/ ConnectionLost
  BY <1>4 DEF WorkerCrash, ConnectionLost, Acking, Holds, Idle
<1> QED
  BY <1>2, <1>3, <1>4, HandlersStep

LEMMA AckInvNext == TruthInv /\ RoleInv /\ AckInv /\ [Next]_vars => AckInv'
<1> SUFFICES ASSUME TruthInv, RoleInv, AckInv, [Next]_vars, NEW m \in Messages,
                    m.type # "OrderCreated", Exists(m.order)'
             PROVE  acked'[m] + Cardinality(Acking(m)')
                      <= notifications'[m.order][m.type]
  BY DEF AckInv
<1> DEFINE rows == notifications[m.order][m.type]
<1>1. /\ TypeOK /\ TypeOK'
      /\ m.order \in Orders /\ m.type \in EventTypes
  BY TypeOKNext, MessageFields DEF TruthInv
<1>2. rows \in Nat /\ rows' \in Nat /\ acked[m] \in Nat /\ acked'[m] \in Nat
  BY <1>1 DEF TypeOK, TablesTypeOK, BusTypeOK
<1>3. /\ Acking(m) \in SUBSET Handlers /\ Acking(m)' \in SUBSET Handlers
      /\ IsFiniteSet(Acking(m))
      /\ Cardinality(Acking(m)) \in Nat /\ Cardinality(Acking(m)') \in Nat
  BY HandlerSetsAreFinite DEF Acking
<1>4. CASE ~Exists(m.order)
  <2>1. PICK r \in Requests : CreateOrder(r, m.order)
    BY <1>1, <1>4, PlacedStays
  <2>2. ~Known(m)
    BY <2>1 DEF CreateOrder, InsertOrder, TruthInv, OriginInv, Earned
  <2>3. acked[m] = 0 /\ Acking(m) = {}
    BY <1>2, <2>2 DEF Known, Acked, Worked, Acking, Holds
  <2>4. acked' = acked
    BY <2>1 DEF CreateOrder, busVars
  <2>5. Acking(m)' = {}
    BY <1>1, <2>2, <2>1, <2>3, AckingStep
       DEF SaveNotification, CreateOrder, InsertOrder, InsertNotification, Exists,
           OrderStatuses, Known, Worked
  <2> QED
    BY <1>2, <2>3, <2>4, <2>5, FS_EmptySet
<1>5. CASE Exists(m.order)
  <2>1. acked[m] + Cardinality(Acking(m)) <= rows
    BY <1>5 DEF AckInv
  <2>2. /\ rows' = rows \/ rows' = rows + 1
        /\ acked'[m] = acked[m] \/ rows' = rows
    BY <1>1, RowsStep, AckedStep DEF Exists, OrderStatuses, Ack, tableVars
  <2>3. ASSUME NEW h \in Handlers, Ack(h), h \in Acking(m)
        PROVE  acked'[m] + Cardinality(Acking(m)') <= rows'
    <3>1. Acking(m)' = Acking(m) \ {h}
      BY <1>1, <2>3 DEF Ack, Idle, Acking, Holds, TypeOK, WorkerTypeOK
    <3>2. Cardinality(Acking(m)') = Cardinality(Acking(m)) - 1
      BY <1>3, <2>3, <3>1, FS_RemoveElement
    <3>3. acked'[m] = acked[m] + 1 /\ rows' = rows
      BY <1>1, <2>3 DEF Ack, Acknowledge, Acking, Holds, tableVars, TypeOK, BusTypeOK
    <3> QED
      BY <1>2, <1>3, <2>1, <3>2, <3>3
  <2>4. ASSUME NEW h \in Handlers, SaveNotification(h), handler[h].msg = m
        PROVE  acked'[m] + Cardinality(Acking(m)') <= rows'
    <3>1. Acking(m)' \subseteq Acking(m) \cup {h} /\ h \notin Acking(m)
      BY <1>1, <2>4 DEF SaveNotification, Finish, Acking, Holds, TypeOK, WorkerTypeOK
    <3>2. /\ Cardinality(Acking(m) \cup {h}) = Cardinality(Acking(m)) + 1
          /\ Cardinality(Acking(m)') <= Cardinality(Acking(m) \cup {h})
      BY <1>3, <3>1, FS_AddElement, SmallerHandlerSet
    <3>3. acked'[m] = acked[m] /\ rows' = rows + 1
      BY <1>1, <2>4 DEF SaveNotification, InsertNotification, busVars, TypeOK,
                        TablesTypeOK
    <3> QED
      BY <1>2, <1>3, <2>1, <3>2, <3>3
  <2>5. CASE /\ ~\E h \in Handlers : Ack(h) /\ h \in Acking(m)
             /\ ~\E h \in Handlers : SaveNotification(h) /\ handler[h].msg = m
    <3>1. Cardinality(Acking(m)') <= Cardinality(Acking(m))
      BY <1>1, <1>3, <2>5, AckingStep, SmallerHandlerSet
    <3>2. ASSUME NEW h \in Handlers, Ack(h), handler[h].live
          PROVE  acked'[m] = acked[m]
      <4>1. handler[h].msg # m
        BY <2>5, <3>2 DEF Ack, Acking, Holds
      <4> QED
        BY <1>1, <3>2, <4>1 DEF Ack, Acknowledge, TypeOK, BusTypeOK
    <3>3. acked'[m] = acked[m]
      BY <3>2, AckedStep
    <3> QED
      BY <1>2, <1>3, <2>1, <2>2, <3>1, <3>3
  <2> QED
    BY <2>3, <2>4, <2>5
<1> QED
  BY <1>4, <1>5

CountInv == TruthInv /\ RoleInv /\ AckInv

LEMMA CountInvHolds == Spec => []CountInv
<1>1. Init => CountInv
  BY TruthInvInit, RoleInvInit
     DEF Init, TablesInit, Exists, OrderStatuses, AckInv, CountInv, Messages
<1>2. CountInv /\ [Next]_vars => CountInv'
  BY TruthInvNext, RoleInvNext, AckInvNext DEF CountInv, TruthInv
<1> QED
  BY <1>1, <1>2, PTL DEF Spec

\* Every completion or expiry event that the Worker acknowledged has left its
\* row with the order, wherever the Worker crashed or lost its connection, and
\* although a redelivered event is handled again.
THEOREM AckedEventsHaveRows == Spec => []AckedEventsAreNoted
<1>1. CountInv => AckedEventsAreNoted
  <2> SUFFICES ASSUME CountInv, NEW m \in Messages,
                      m.type # "OrderCreated", Exists(m.order)
               PROVE  acked[m] <= notifications[m.order][m.type]
    BY DEF AckedEventsAreNoted
  <2>1. Cardinality(Acking(m)) \in Nat
    BY HandlerSetsAreFinite DEF Acking
  <2>2. acked[m] \in Nat /\ notifications[m.order][m.type] \in Nat
    BY MessageFields DEF CountInv, TruthInv, TypeOK, TablesTypeOK, BusTypeOK
  <2> QED
    BY <2>1, <2>2 DEF CountInv, AckInv
<1> QED
  BY <1>1, CountInvHolds, PTL

-----------------------------------------------------------------------------
(* Payments.  The event of an order is published once, so the broker has it *)
(* at most once, in its queue or with a live handler; and each payment that *)
(* was or may still be taken comes from that publish or from a redelivery.  *)

Holders(m) == {h \in Handlers : Holds(h, m)}

\* The handlers, cut off ones too, that have the payment before them.
Unpaid(m) ==
  {h \in Handlers : handler[h].msg = m /\ handler[h].pc \in {"loaded", "paying"}}

Publishing(r, o) == request[r].pc = "publishing" /\ request[r].order = o

OnceInv ==
  \A o \in Orders :
    LET m == OrderCreatedEvent(o) IN
    /\ queue[m] + Cardinality(Holders(m)) <= 1
    /\ charges[o] + queue[m] + Cardinality(Unpaid(m)) <= 1 + redeliveries
    /\ \A r \in Requests : Publishing(r, o) =>
         /\ ~Queued(m) /\ ~Worked(m) /\ charges[o] = 0
         /\ \A q \in Requests : Publishing(q, o) => q = r

\* How the event of an order gets into its queue and out of it.
LEMMA CreatedQueueStep ==
  ASSUME TypeOK, [Next]_vars, NEW o \in Orders, NEW m, m = OrderCreatedEvent(o)
  PROVE  \/ queue'[m] = queue[m]
         \/ \E r \in Requests :
              /\ Publishing(r, o) /\ ~Publishing(r, o)'
              /\ queue'[m] = queue[m] + 1
              /\ UNCHANGED <<handler, charges, redeliveries>>
              /\ \A q \in Requests : Publishing(q, o)' => Publishing(q, o)
         \/ \E h \in Handlers : ReceiveOrderCreated(h, o)
         \/ WorkerLost
<1> USE DEF TypeOK, BusTypeOK
<1>1. m \in Messages
  BY EventsAreMessages
<1>2. ASSUME NEW n \in Messages, n # m, Publish(n)
      PROVE  queue'[m] = queue[m]
  BY <1>1, <1>2 DEF Publish
<1>3. ASSUME NEW r \in Requests, RequestStep(r) \/ RequestAborts(r)
      PROVE  \/ queue'[m] = queue[m]
             \/ /\ Publishing(r, o) /\ ~Publishing(r, o)'
                /\ queue'[m] = queue[m] + 1
                /\ \A q \in Requests : Publishing(q, o)' => Publishing(q, o)
  <2>1. CASE UNCHANGED busVars
    BY <2>1 DEF busVars
  <2>2. CASE request[r].pc = "publishing" /\ Publish(OrderCreatedEvent(request[r].order))
    <3>1. OrderCreatedEvent(request[r].order) \in Messages
      BY <2>2, ServingOrder, EventsAreMessages DEF Serving
    <3>2. CASE request[r].order # o
      BY <1>2, <2>2, <3>1, <3>2 DEF OrderCreatedEvent
    <3>3. CASE request[r].order = o
      <4>1. queue'[m] \in {queue[m], queue[m] + 1} /\ Publishing(r, o)
        BY <1>1, <2>2, <3>3 DEF Publish, Publishing
      <4>2. \/ request' = [request EXCEPT ![r].pc = "noting"]
            \/ request' = [request EXCEPT ![r] = Free]
        BY <1>3, <2>2
           DEF RequestStep, RequestAborts, AnnounceCreated, NoteCreated,
               ReturnCreated, SaveUpdate, SaveDelete, RequestFindsNoOrder, Respond
      <4>3. /\ \A q \in Requests \ {r} : request'[q] = request[q]
            /\ request'[r].pc \in {"noting", "free"}
        BY <4>2 DEF ApiTypeOK, RequestStates, Free
      <4>4. ~Publishing(r, o)'
        BY <4>3 DEF Publishing
      <4>5. \A q \in Requests : Publishing(q, o)' => Publishing(q, o)
        BY <4>3 DEF Publishing
      <4> QED
        BY <4>1, <4>4, <4>5
    <3> QED
      BY <3>2, <3>3
  <2> QED
    BY <1>3, <2>1, <2>2
       DEF RequestStep, RequestAborts, AnnounceCreated, NoteCreated,
           ReturnCreated, SaveUpdate, SaveDelete, RequestFindsNoOrder
<1>4. ASSUME NEW c \in CronJobs, SweepStep(c) \/ SweepAborts(c)
      PROVE  queue'[m] = queue[m]
  <2>1. ASSUME NEW p \in Orders, Publish(OrderExpiredEvent(p))
        PROVE  queue'[m] = queue[m]
    BY <1>2, <2>1, EventsAreMessages DEF OrderCreatedEvent, OrderExpiredEvent
  <2>2. sweep[c].batch \subseteq Orders
    BY DEF CronTypeOK, SweepStates
  <2> QED
    BY <1>4, <2>1, <2>2 DEF SweepStep, SweepAborts, FindOverdue, ExpireOrders,
                            ExpireConflicts, AnnounceExpired, busVars
<1>5. ASSUME NEW h \in Handlers, HandlerStep(h) \/ ConsumerThrows(h) \/ AnnounceThrows(h)
      PROVE  queue'[m] = queue[m]
  <2>1. CASE AnnounceCompleted(h) \/ AnnounceThrows(h)
    <3>1. OrderCompletedEvent(handler[h].msg.order) \in Messages
      BY <2>1, BusyMessage, EventsAreMessages
         DEF AnnounceCompleted, AnnounceThrows, Busy
    <3>2. OrderCompletedEvent(handler[h].msg.order) # m
      BY DEF OrderCreatedEvent, OrderCompletedEvent
    <3> QED
      BY <1>1, <1>2, <2>1, <3>1, <3>2 DEF AnnounceCompleted, AnnounceThrows
  <2> QED
    BY <1>5, <2>1
       DEF HandlerStep, MarkProcessing, PaymentSucceeds, PaymentFails,
           CompleteOrder, SaveNotification, SaveFindsNoOrder, Ack, Acknowledge,
           ConsumerThrows, GiveUp, MoveToErrorQueue, busVars
<1>6. ASSUME NEW p \in Orders, Receive(p)
      PROVE  \/ queue'[m] = queue[m]
             \/ \E h \in Handlers : ReceiveOrderCreated(h, o)
  <2>1. ASSUME NEW h \in Handlers, NEW n \in Messages, n # m, Deliver(n)
        PROVE  queue'[m] = queue[m]
    BY <1>1, <2>1 DEF Deliver
  <2>2. ASSUME NEW h \in Handlers, ReceiveOrderCreated(h, p)
        PROVE  p = o \/ queue'[m] = queue[m]
    BY <2>1, <2>2, EventsAreMessages DEF ReceiveOrderCreated, Take, OrderCreatedEvent
  <2>3. ASSUME NEW h \in Handlers, ReceiveOrderCompleted(h, p) \/ ReceiveOrderExpired(h, p)
        PROVE  queue'[m] = queue[m]
    BY <2>1, <2>3, EventsAreMessages
       DEF ReceiveOrderCompleted, ReceiveOrderExpired, Take, OrderCreatedEvent,
           OrderCompletedEvent, OrderExpiredEvent
  <2> QED
    BY <1>6, <2>2, <2>3 DEF Receive
<1>7. CASE ClientPosts \/ ClientEdit \/ ClientDeletesUser \/ TimePasses \/ UNCHANGED vars
  BY <1>7
     DEF ClientPosts, CreateOrder, ClientEdit, ClientDeletesUser, CascadeToOrders,
         LoadForUpdate, LoadForDelete, TimePasses, vars, busVars
<1>8. CASE WorkerStarts
  BY <1>8 DEF WorkerStarts, WorkerStart, DeclareQueues
<1>9. CASE \E r \in Requests : ApiStep(r)
  BY <1>3, <1>9 DEF ApiStep, workerVars, counters
<1>10. CASE Error
  BY <1>3, <1>4, <1>5, <1>10 DEF Error, HandlerThrows, workerVars
<1> QED
  BY <1>4, <1>5, <1>6, <1>7, <1>8, <1>9, <1>10
     DEF Next, WorkerReceives, WorkerHandles, CronStep

\* Only a delivery puts a handler to work on the event of an order.
LEMMA CreatedHandlersStep ==
  ASSUME TypeOK, [Next]_vars, NEW o \in Orders, NEW m, m = OrderCreatedEvent(o),
         ~\E h \in Handlers : ReceiveOrderCreated(h, o)
  PROVE  /\ Worked(m)' => Worked(m)
         /\ Holders(m)' \subseteq Holders(m)
         /\ Unpaid(m)' \subseteq Unpaid(m)
<1> USE DEF TypeOK, WorkerTypeOK, HandlerStates
<1>1. ASSUME NEW g \in Handlers, Moves(g), handler'[g].msg = m
      PROVE  /\ handler[g].msg = m
             /\ Holds(g, m)' => Holds(g, m)
             /\ handler'[g].pc \in {"loaded", "paying"} =>
                  handler[g].pc \in {"loaded", "paying"}
  <2>1. ASSUME NEW p \in Orders
        PROVE  /\ ~ReceiveOrderCreated(g, p)
               /\ ~ReceiveOrderCompleted(g, p)
               /\ ~ReceiveOrderExpired(g, p)
    BY <1>1 DEF ReceiveOrderCreated, ReceiveOrderCompleted, ReceiveOrderExpired,
                Take, OrderCreatedEvent, OrderCompletedEvent, OrderExpiredEvent
  <2>2. m \in Messages
    BY EventsAreMessages
  <2>3. ~ConsumerThrows(g) /\ ~AnnounceThrows(g) /\ ~Ack(g) /\ ~SaveFindsNoOrder(g)
    BY <1>1, <2>2, NoMessageAssumption
       DEF ConsumerThrows, AnnounceThrows, Ack, SaveFindsNoOrder, GiveUp, Idle
  <2>4. HandlerStep(g)
    BY <1>1, <2>1, <2>3 DEF Moves
  <2> QED
    BY <1>1, <2>3, <2>4
       DEF HandlerStep, MarkProcessing, PaymentSucceeds, PaymentFails,
           CompleteOrder, AnnounceCompleted, SaveNotification, Goto, Finish, Holds
<1>2. CASE UNCHANGED handler
  BY <1>2 DEF Worked, Holders, Holds, Unpaid
<1>3. CASE \E g \in Handlers : Moves(g)
  <2>1. PICK g \in Handlers : Moves(g)
    BY <1>3
  <2>2. \A h \in Handlers \ {g} : handler'[h] = handler[h]
    BY <2>1 DEF Moves
  <2> QED
    BY <1>1, <2>1, <2>2 DEF Worked, Holders, Holds, Unpaid
<1>4. CASE WorkerCrash \/ ConnectionLost
  <2>1. m # NoMessage
    BY EventsAreMessages, NoMessageAssumption
  <2> QED
    BY <1>4, <2>1
       DEF WorkerCrash, ConnectionLost, Worked, Holders, Holds, Unpaid, Idle
<1> QED
  BY <1>2, <1>3, <1>4, HandlersStep

\* A request that is about to publish has just inserted the order, or was about
\* to publish before.
LEMMA PublishingStep ==
  ASSUME TypeOK, [Next]_vars, NEW o \in Orders, NEW r \in Requests,
         Publishing(r, o)', ~Publishing(r, o)
  PROVE  /\ CreateOrder(r, o) /\ UNCHANGED <<queue, handler, charges>>
         /\ \A q \in Requests \ {r} : request'[q] = request[q]
<1> USE DEF TypeOK, ApiTypeOK
<1>1. CASE UNCHANGED request
  BY <1>1 DEF Publishing
<1>2. ASSUME NEW q \in Requests, RequestStep(q) \/ RequestAborts(q)
      PROVE  FALSE
  <2>1. \/ request' = [request EXCEPT ![q].pc = "noting"]
        \/ request' = [request EXCEPT ![q].pc = "reloading"]
        \/ request' = [request EXCEPT ![q] = Free]
    BY <1>2
       DEF RequestStep, RequestAborts, AnnounceCreated, NoteCreated,
           ReturnCreated, SaveUpdate, SaveDelete, RequestFindsNoOrder, Respond
  <2>2. /\ \A p \in Requests \ {q} : request'[p] = request[p]
        /\ request'[q].pc \in {"noting", "reloading", "free"}
    BY <2>1 DEF RequestStates, Free
  <2> QED
    BY <2>2 DEF Publishing
<1>3. CASE ClientEdit
  BY <1>3 DEF ClientEdit, LoadForUpdate, LoadForDelete, Begin, Publishing
<1>4. CASE ClientPosts
  <2>1. PICK q \in Requests, p \in Orders : CreateOrder(q, p)
    BY <1>4 DEF ClientPosts
  <2>2. q = r /\ p = o
    BY <2>1 DEF CreateOrder, Begin, Publishing
  <2> QED
    BY <1>4, <2>1, <2>2 DEF ClientPosts, CreateOrder, Begin, busVars, workerVars
<1> QED
  BY <1>1, <1>2, <1>3, <1>4
     DEF Next, ClientDeletesUser, CascadeToOrders, TimePasses, ApiStep,
         WorkerStarts, WorkerReceives, WorkerHandles, CronStep, Error, WorkerLost,
         vars, apiVars

\* What a redelivery adds to a queue is what live handlers held.
LEMMA RedeliveryQueues ==
  ASSUME NEW m \in Messages, WorkerLost
  PROVE  /\ queue'[m] = queue[m] + Cardinality(Holders(m))
         /\ redeliveries' = redeliveries + 1
         /\ UNCHANGED <<charges, request>>
BY DEF WorkerLost, Redelivery, WorkerCrash, ConnectionLost, Requeue,
       UnackedDeliveries, Holders, apiVars

\* A payment is taken by a handler that had it before it.
LEMMA PaymentStep ==
  ASSUME TypeOK, RoleInv, NEW o \in Orders, NEW m, m = OrderCreatedEvent(o),
         NEW h \in Handlers, PaymentSucceeds(h)
  PROVE  \/ charges'[o] = charges[o]
         \/ /\ h \in Unpaid(m) /\ Unpaid(m)' \subseteq Unpaid(m) \ {h}
            /\ charges'[o] = charges[o] + 1 /\ handler[h].msg = m
<1>1. handler[h].msg \in Messages
  BY BusyMessage DEF PaymentSucceeds, Busy, TypeOK
<1>2. handler[h].msg.order \in Orders
  BY <1>1, MessageFields
<1>3. handler[h].msg.type = "OrderCreated"
  BY DEF PaymentSucceeds, RoleInv
<1>4. CASE handler[h].msg.order # o
  BY <1>2, <1>4 DEF PaymentSucceeds, TypeOK, WorkerTypeOK
<1>5. CASE handler[h].msg.order = o
  <2>1. handler[h].msg = m
    BY <1>1, <1>3, <1>5 DEF OrderCreatedEvent, Messages
  <2>2. charges'[o] = charges[o] + 1
    BY <1>5 DEF PaymentSucceeds, TypeOK, WorkerTypeOK
  <2>3. h \in Unpaid(m) /\ Unpaid(m)' \subseteq Unpaid(m) \ {h}
    BY <2>1 DEF PaymentSucceeds, Goto, Unpaid, TypeOK, WorkerTypeOK
  <2> QED
    BY <2>1, <2>2, <2>3
<1> QED
  BY <1>4, <1>5

LEMMA OnceInvNext == TruthInv /\ RoleInv /\ OnceInv /\ [Next]_vars => OnceInv'
<1> SUFFICES ASSUME TruthInv, RoleInv, OnceInv, [Next]_vars, NEW o \in Orders,
                    NEW m, m = OrderCreatedEvent(o)
             PROVE  /\ queue'[m] + Cardinality(Holders(m)') <= 1
                    /\ charges'[o] + queue'[m] + Cardinality(Unpaid(m)')
                         <= 1 + redeliveries'
                    /\ \A r \in Requests : Publishing(r, o)' =>
                         /\ ~Queued(m)' /\ ~Worked(m)' /\ charges'[o] = 0
                         /\ \A q \in Requests : Publishing(q, o)' => q = r
  BY DEF OnceInv
<1>1. TypeOK /\ TypeOK' /\ m \in Messages
  BY TypeOKNext, EventsAreMessages DEF TruthInv
<1>2. /\ queue[m] \in Nat /\ queue'[m] \in Nat
      /\ charges[o] \in Nat /\ charges'[o] \in Nat
      /\ redeliveries \in Nat /\ redeliveries' \in {redeliveries, redeliveries + 1}
  BY <1>1, RedeliveriesGrow DEF TypeOK, BusTypeOK, WorkerTypeOK
<1>3. /\ Holders(m) \in SUBSET Handlers /\ Unpaid(m) \in SUBSET Handlers
      /\ IsFiniteSet(Holders(m)) /\ IsFiniteSet(Unpaid(m))
      /\ Cardinality(Holders(m)) \in Nat /\ Cardinality(Holders(m)') \in Nat
      /\ Cardinality(Unpaid(m)) \in Nat /\ Cardinality(Unpaid(m)') \in Nat
  BY HandlerSetsAreFinite DEF Holders, Unpaid
<1>4. /\ queue[m] + Cardinality(Holders(m)) <= 1
      /\ charges[o] + queue[m] + Cardinality(Unpaid(m)) <= 1 + redeliveries
      /\ \A r \in Requests : Publishing(r, o) =>
           /\ ~Queued(m) /\ ~Worked(m) /\ charges[o] = 0
           /\ \A q \in Requests : Publishing(q, o) => q = r
  BY DEF OnceInv
<1>5. queue'[m] + Cardinality(Holders(m)') <= 1
  <2>1. ASSUME NEW h \in Handlers, ReceiveOrderCreated(h, o)
        PROVE  queue'[m] + Cardinality(Holders(m)') <= 1
    <3>1. queue[m] > 0 /\ queue'[m] = queue[m] - 1
      BY <1>1, <2>1 DEF ReceiveOrderCreated, Take, Deliver, TypeOK, BusTypeOK
    <3>2. Holders(m)' \subseteq Holders(m) \cup {h} /\ h \notin Holders(m)
      BY <1>1, <2>1, NoMessageAssumption
         DEF ReceiveOrderCreated, Take, Busy, Holders, Holds, TypeOK, WorkerTypeOK
    <3>3. Cardinality(Holders(m) \cup {h}) = Cardinality(Holders(m)) + 1
      BY <1>3, <3>2, FS_AddElement
    <3>4. Holders(m) \cup {h} \in SUBSET Handlers
      BY <1>3
    <3>5. Cardinality(Holders(m)') <= Cardinality(Holders(m) \cup {h})
      BY <3>2, <3>4, SmallerHandlerSet
    <3> QED
      BY <1>2, <1>3, <1>4, <3>1, <3>3, <3>5
  <2>2. CASE /\ ~\E h \in Handlers : ReceiveOrderCreated(h, o)
             /\ ~WorkerLost
    <3>1. Cardinality(Holders(m)') <= Cardinality(Holders(m))
      BY <1>1, <1>3, <2>2, CreatedHandlersStep, SmallerHandlerSet
    <3>2. CASE queue'[m] = queue[m]
      BY <1>2, <1>3, <1>4, <3>1, <3>2
    <3>3. ASSUME NEW r \in Requests, Publishing(r, o), queue'[m] = queue[m] + 1
          PROVE  queue'[m] + Cardinality(Holders(m)') <= 1
      <4>1. queue[m] = 0 /\ Holders(m) = {}
        BY <1>2, <1>4, <3>3 DEF Queued, Worked, Holders, Holds
      <4>2. Cardinality(Holders(m)) = 0
        BY <4>1, FS_EmptySet
      <4> QED
        BY <1>2, <1>3, <3>1, <3>3, <4>1, <4>2
    <3> QED
      BY <1>1, <2>2, <3>2, <3>3, CreatedQueueStep
  <2>3. CASE WorkerLost
    <3>1. Holders(m)' = {}
      BY <1>1, <2>3, NoMessageAssumption, BusyMessage
         DEF WorkerLost, Redelivery, WorkerCrash, ConnectionLost, Holders, Holds,
             Idle, Busy, TypeOK, WorkerTypeOK, HandlerStates
    <3>2. Cardinality(Holders(m)') = 0
      BY <3>1, FS_EmptySet
    <3> QED
      BY <1>1, <1>2, <1>3, <1>4, <2>3, <3>2, RedeliveryQueues
  <2> QED
    BY <2>1, <2>2, <2>3
<1>6. charges'[o] + queue'[m] + Cardinality(Unpaid(m)') <= 1 + redeliveries'
  <2>1. ASSUME NEW h \in Handlers, ReceiveOrderCreated(h, o)
        PROVE  charges'[o] + queue'[m] + Cardinality(Unpaid(m)') <= 1 + redeliveries'
    <3>1. queue[m] > 0 /\ queue'[m] = queue[m] - 1 /\ charges' = charges
      BY <1>1, <2>1 DEF ReceiveOrderCreated, Take, Deliver, TypeOK, BusTypeOK
    <3>2. Unpaid(m)' \subseteq Unpaid(m) \cup {h} /\ h \notin Unpaid(m)
      BY <1>1, <2>1, NoMessageAssumption
         DEF ReceiveOrderCreated, Take, Busy, Unpaid, TypeOK, WorkerTypeOK
    <3>3. Cardinality(Unpaid(m) \cup {h}) = Cardinality(Unpaid(m)) + 1
      BY <1>3, <3>2, FS_AddElement
    <3>4. Unpaid(m) \cup {h} \in SUBSET Handlers
      BY <1>3
    <3>5. Cardinality(Unpaid(m)') <= Cardinality(Unpaid(m) \cup {h})
      BY <3>2, <3>4, SmallerHandlerSet
    <3> QED
      BY <1>2, <1>3, <1>4, <3>1, <3>3, <3>5
  <2>2. ASSUME NEW h \in Handlers, PaymentSucceeds(h)
        PROVE  charges'[o] + queue'[m] + Cardinality(Unpaid(m)') <= 1 + redeliveries'
    <3>1. queue'[m] = queue[m]
      BY <2>2 DEF PaymentSucceeds, busVars
    <3>2. CASE charges'[o] = charges[o]
      <4>1. ~\E g \in Handlers : ReceiveOrderCreated(g, o)
        BY <1>1, <2>2, <3>1 DEF ReceiveOrderCreated, Take, Deliver, TypeOK, BusTypeOK
      <4>2. Cardinality(Unpaid(m)') <= Cardinality(Unpaid(m))
        BY <1>1, <1>3, <4>1, CreatedHandlersStep, SmallerHandlerSet
      <4> QED
        BY <1>2, <1>3, <1>4, <3>1, <3>2, <4>2
    <3>3. CASE /\ h \in Unpaid(m) /\ Unpaid(m)' \subseteq Unpaid(m) \ {h}
               /\ charges'[o] = charges[o] + 1
      <4>1. /\ Cardinality(Unpaid(m) \ {h}) = Cardinality(Unpaid(m)) - 1
            /\ Cardinality(Unpaid(m)') <= Cardinality(Unpaid(m) \ {h})
        BY <1>3, <3>3, FS_RemoveElement, SmallerHandlerSet
      <4> QED
        BY <1>2, <1>3, <1>4, <3>1, <3>3, <4>1
    <3> QED
      BY <1>1, <2>2, <3>2, <3>3, PaymentStep
  <2>3. CASE WorkerLost
    <3>1. /\ queue'[m] = queue[m] + Cardinality(Holders(m))
          /\ redeliveries' = redeliveries + 1 /\ charges' = charges
      BY <1>1, <2>3, RedeliveryQueues
    <3>2. ~\E h \in Handlers : ReceiveOrderCreated(h, o)
      BY <1>1, <1>2, <1>3, <2>3, <3>1
         DEF ReceiveOrderCreated, Take, Deliver, TypeOK, BusTypeOK
    <3>3. Cardinality(Unpaid(m)') <= Cardinality(Unpaid(m))
      BY <1>1, <1>3, <3>2, CreatedHandlersStep, SmallerHandlerSet
    <3> QED
      BY <1>2, <1>3, <1>4, <3>1, <3>3
  <2>4. CASE /\ ~\E h \in Handlers : ReceiveOrderCreated(h, o)
             /\ ~\E h \in Handlers : PaymentSucceeds(h)
             /\ ~WorkerLost
    <3>1. Cardinality(Unpaid(m)') <= Cardinality(Unpaid(m))
      BY <1>1, <1>3, <2>4, CreatedHandlersStep, SmallerHandlerSet
    <3>2. charges' = charges
      BY <2>4, ChargesStep
    <3>3. CASE queue'[m] = queue[m]
      BY <1>2, <1>3, <1>4, <3>1, <3>2, <3>3
    <3>4. ASSUME NEW r \in Requests, Publishing(r, o), queue'[m] = queue[m] + 1
          PROVE  charges'[o] + queue'[m] + Cardinality(Unpaid(m)') <= 1 + redeliveries'
      <4>1. queue[m] = 0 /\ charges[o] = 0 /\ Unpaid(m) = {}
        BY <1>2, <1>4, <3>4 DEF Queued, Worked, Unpaid
      <4>2. Cardinality(Unpaid(m)) = 0
        BY <4>1, FS_EmptySet
      <4> QED
        BY <1>2, <1>3, <3>1, <3>2, <3>4, <4>1, <4>2
    <3> QED
      BY <1>1, <2>4, <3>3, <3>4, CreatedQueueStep
  <2> QED
    BY <2>1, <2>2, <2>3, <2>4
<1>7. ASSUME NEW r \in Requests, Publishing(r, o)'
      PROVE  /\ ~Queued(m)' /\ ~Worked(m)' /\ charges'[o] = 0
             /\ \A q \in Requests : Publishing(q, o)' => q = r
  <2>1. CASE ~Publishing(r, o)
    <3>1. /\ CreateOrder(r, o) /\ UNCHANGED <<queue, handler, charges>>
          /\ \A q \in Requests \ {r} : request'[q] = request[q]
      BY <1>1, <1>7, <2>1, PublishingStep
    <3>2. status[o] = "unused"
      BY <3>1 DEF CreateOrder, InsertOrder
    <3>3. ~Known(m) /\ charges[o] = 0
      BY <1>1, <1>2, <3>2 DEF TruthInv, OriginInv, Earned, OrderCreatedEvent
    <3>4. \A q \in Requests : ~Publishing(q, o)
      BY <3>2 DEF TruthInv, OriginInv, Publishing, Serving
    <3>5. \A q \in Requests : Publishing(q, o)' => q = r
      BY <3>1, <3>4 DEF Publishing
    <3> QED
      BY <3>1, <3>3, <3>5 DEF Known, Queued, Worked
  <2>2. CASE Publishing(r, o)
    <3>1. /\ queue[m] = 0 /\ ~Worked(m) /\ charges[o] = 0
          /\ \A q \in Requests : Publishing(q, o) => q = r
      BY <1>2, <1>4, <2>2 DEF Queued
    <3>2. ~\E h \in Handlers : ReceiveOrderCreated(h, o)
      BY <1>1, <3>1 DEF ReceiveOrderCreated, Take, Deliver
    <3>3. ~Worked(m)'
      BY <1>1, <3>1, <3>2, CreatedHandlersStep
    <3>4. Cardinality(Holders(m)) = 0
      BY <3>1, FS_EmptySet DEF Worked, Holders, Holds
    <3>5. queue'[m] = 0
      BY <1>1, <1>7, <3>1, <3>2, <3>4, CreatedQueueStep, RedeliveryQueues
    <3>6. charges'[o] = 0
      BY <1>1, <3>1, ChargesStep, PaymentStep DEF Worked
    <3>7. ASSUME NEW q \in Requests, Publishing(q, o)'
          PROVE  q = r
      <4>1. CASE ~Publishing(q, o)
        <5>1. status[o] = "unused"
          BY <1>1, <3>7, <4>1, PublishingStep DEF CreateOrder, InsertOrder
        <5> QED
          BY <2>2, <5>1 DEF TruthInv, OriginInv, Publishing, Serving
      <4> QED
        BY <3>1, <4>1
    <3> QED
      BY <3>3, <3>5, <3>6, <3>7 DEF Queued
  <2> QED
    BY <2>1, <2>2
<1> QED
  BY <1>5, <1>6, <1>7

LEMMA OnceInvInit == Init => OnceInv
<1> SUFFICES ASSUME Init, NEW o \in Orders, NEW m, m = OrderCreatedEvent(o)
             PROVE  /\ queue[m] + Cardinality(Holders(m)) <= 1
                    /\ charges[o] + queue[m] + Cardinality(Unpaid(m)) <= 1 + redeliveries
                    /\ \A r \in Requests : ~Publishing(r, o)
  BY DEF OnceInv
<1>1. m \in Messages /\ m # NoMessage
  BY EventsAreMessages, NoMessageAssumption
<1>2. Holders(m) = {} /\ Unpaid(m) = {}
  BY <1>1 DEF Init, WorkerInit, Idle, Holders, Holds, Unpaid
<1>3. Cardinality(Holders(m)) = 0 /\ Cardinality(Unpaid(m)) = 0
  BY <1>2, FS_EmptySet
<1>4. queue[m] = 0 /\ charges[o] = 0 /\ redeliveries = 0
  BY <1>1 DEF Init, BusInit, WorkerInit
<1>5. \A r \in Requests : ~Publishing(r, o)
  BY DEF Init, ApiInit, Free, Publishing
<1> QED
  BY <1>3, <1>4, <1>5

PaymentInv == CountInv /\ OnceInv

LEMMA PaymentInvHolds == Spec => []PaymentInv
<1>1. CountInv /\ OnceInv /\ [Next]_vars => OnceInv'
  BY OnceInvNext DEF CountInv
<1> QED
  BY <1>1, OnceInvInit, CountInvHolds, PTL DEF Spec, PaymentInv

\* However many handlers run, an order is paid at most once, and once more for
\* each time that the broker takes back what was not acknowledged: the races of
\* requests, handlers and sweeps take no second payment.
THEOREM PaymentsAreBounded == Spec => []NotChargedTwice
<1>1. PaymentInv => NotChargedTwice
  <2> SUFFICES ASSUME PaymentInv, NEW o \in Orders
               PROVE  charges[o] <= 1 + redeliveries
    BY DEF NotChargedTwice
  <2> DEFINE m == OrderCreatedEvent(o)
  <2>1. charges[o] + queue[m] + Cardinality(Unpaid(m)) <= 1 + redeliveries
    BY DEF PaymentInv, OnceInv
  <2>2. Cardinality(Unpaid(m)) \in Nat
    BY HandlerSetsAreFinite DEF Unpaid
  <2>3. /\ charges[o] \in Nat /\ queue[m] \in Nat /\ redeliveries \in Nat
    BY EventsAreMessages, BoundsAssumption
       DEF PaymentInv, CountInv, TruthInv, TypeOK, BusTypeOK, WorkerTypeOK
  <2> QED
    BY <2>1, <2>2, <2>3
<1> QED
  BY <1>1, PaymentInvHolds, PTL

-----------------------------------------------------------------------------
(* Paid orders without a redelivery.  The claim passes from the handler     *)
(* that took the payment to the event it publishes, from there to the      *)
(* handler of that event and then to the row; a failed call leaves it with *)
(* an error queue.                                                         *)

\* The handler that took the payment has yet to publish.
Owing(o) ==
  \E h \in Handlers :
    handler[h].msg = OrderCreatedEvent(o) /\ handler[h].pc \in {"paid", "announcing"}

Remembered(o) ==
  \/ notifications[o]["OrderCompleted"] > 0
  \/ Queued(OrderCompletedEvent(o))
  \/ Worked(OrderCompletedEvent(o))
  \/ Failed(OrderCompletedEvent(o))
  \/ Failed(OrderCreatedEvent(o))
  \/ Owing(o)

RememberInv ==
  redeliveries = 0 =>
    \A o \in Orders : (charges[o] > 0 /\ Exists(o)) => Remembered(o)

\* What is queued stays there until it is delivered.
LEMMA QueuedStep ==
  ASSUME TypeOK, [Next]_vars, NEW m \in Messages, Queued(m)
  PROVE  Queued(m)' \/ Worked(m)'
<1> USE DEF TypeOK, BusTypeOK, Queued
<1>1. CASE UNCHANGED queue
  BY <1>1
<1>2. ASSUME NEW n \in Messages, Publish(n)
      PROVE  Queued(m)'
  BY <1>2 DEF Publish
<1>3. ASSUME NEW r \in Requests, RequestStep(r) \/ RequestAborts(r)
      PROVE  Queued(m)'
  <2>1. UNCHANGED busVars \/ (Serving(r) /\ Publish(OrderCreatedEvent(request[r].order)))
    BY <1>3
       DEF RequestStep, RequestAborts, AnnounceCreated, NoteCreated,
           ReturnCreated, SaveUpdate, SaveDelete, RequestFindsNoOrder, Serving
  <2> QED
    BY <1>1, <1>2, <2>1, ServingOrder, EventsAreMessages DEF busVars
<1>4. ASSUME NEW c \in CronJobs, SweepStep(c) \/ SweepAborts(c)
      PROVE  Queued(m)'
  <2>1. \/ UNCHANGED busVars
        \/ \E o \in Orders : Publish(OrderExpiredEvent(o))
        \/ \E o \in sweep[c].batch : Publish(OrderExpiredEvent(o))
    BY <1>4 DEF SweepStep, SweepAborts, FindOverdue, ExpireOrders,
                ExpireConflicts, AnnounceExpired
  <2>2. sweep[c].batch \subseteq Orders
    BY DEF CronTypeOK, SweepStates
  <2> QED
    BY <1>1, <1>2, <2>1, <2>2, EventsAreMessages DEF busVars
<1>5. ASSUME NEW h \in Handlers, HandlerStep(h) \/ ConsumerThrows(h) \/ AnnounceThrows(h)
      PROVE  Queued(m)'
  <2>1. CASE AnnounceCompleted(h) \/ AnnounceThrows(h)
    <3>1. OrderCompletedEvent(handler[h].msg.order) \in Messages
      BY <2>1, BusyMessage, EventsAreMessages
         DEF AnnounceCompleted, AnnounceThrows, Busy
    <3> QED
      BY <1>2, <2>1, <3>1 DEF AnnounceCompleted, AnnounceThrows
  <2> QED
    BY <1>1, <1>5, <2>1
       DEF HandlerStep, MarkProcessing, PaymentSucceeds, PaymentFails,
           CompleteOrder, SaveNotification, SaveFindsNoOrder, Ack, Acknowledge,
           ConsumerThrows, GiveUp, MoveToErrorQueue, busVars
<1>6. ASSUME NEW o \in Orders, Receive(o)
      PROVE  Queued(m)' \/ Worked(m)'
  <2>1. PICK h \in Handlers, n \in Messages, pc \in HandlerPCs,
             s \in RowStates : Take(h, n, pc, s)
    BY <1>6, EventsAreMessages
       DEF Receive, ReceiveOrderCreated, ReceiveOrderCompleted,
           ReceiveOrderExpired, HandlerPCs, TablesTypeOK, RowStates
  <2>2. handler'[h].msg = n
    BY <2>1 DEF Take, WorkerTypeOK
  <2>3. m # n => queue'[m] = queue[m]
    BY <2>1 DEF Take, Deliver
  <2> QED
    BY <2>2, <2>3 DEF Worked
<1>7. CASE WorkerLost
  <2>1. Cardinality(Holders(m)) \in Nat
    BY HandlerSetsAreFinite DEF Holders
  <2> QED
    BY <1>7, <2>1, RedeliveryQueues
<1>8. CASE \/ ClientPosts \/ ClientEdit \/ ClientDeletesUser \/ TimePasses
           \/ WorkerStarts \/ UNCHANGED vars
  BY <1>1, <1>8
     DEF ClientPosts, CreateOrder, ClientEdit, ClientDeletesUser, CascadeToOrders,
         LoadForUpdate, LoadForDelete, TimePasses, WorkerStarts, WorkerStart,
         DeclareQueues, vars, busVars
<1> QED
  BY <1>3, <1>4, <1>5, <1>6, <1>7, <1>8
     DEF Next, ApiStep, WorkerReceives, WorkerHandles, CronStep, Error,
         HandlerThrows

\* Nothing leaves an error queue.
LEMMA FailedStays ==
  ASSUME TypeOK, [Next]_vars, NEW m \in Messages, Failed(m)
  PROVE  Failed(m)'
<1> USE DEF TypeOK, BusTypeOK, Failed
<1>1. CASE UNCHANGED errorQueue
  BY <1>1
<1>2. ASSUME NEW h \in Handlers, GiveUp(h) \/ AnnounceThrows(h), Busy(h)
      PROVE  Failed(m)'
  <2>1. handler[h].msg \in Messages
    BY <1>2, BusyMessage
  <2> QED
    BY <1>2, <2>1 DEF GiveUp, AnnounceThrows, MoveToErrorQueue, busVars
<1>3. ASSUME NEW h \in Handlers, HandlerStep(h)
      PROVE  Failed(m)'
  BY <1>1, <1>2, <1>3
     DEF HandlerStep, MarkProcessing, PaymentSucceeds, PaymentFails,
         CompleteOrder, AnnounceCompleted, SaveNotification, SaveFindsNoOrder,
         Ack, Acknowledge, Publish, Busy, busVars
<1>4. CASE HandlerThrows
  BY <1>2, <1>4 DEF HandlerThrows, ConsumerThrows, AnnounceThrows, Busy
<1>5. ASSUME NEW r \in Requests, RequestStep(r) \/ RequestAborts(r)
      PROVE  Failed(m)'
  BY <1>1, <1>5
     DEF RequestStep, RequestAborts, AnnounceCreated, NoteCreated, ReturnCreated,
         SaveUpdate, SaveDelete, RequestFindsNoOrder, Publish, busVars
<1>6. ASSUME NEW c \in CronJobs, SweepStep(c) \/ SweepAborts(c)
      PROVE  Failed(m)'
  BY <1>1, <1>6 DEF SweepStep, SweepAborts, FindOverdue, ExpireOrders,
                    ExpireConflicts, AnnounceExpired, Publish, busVars
<1>7. CASE \/ ClientPosts \/ ClientEdit \/ ClientDeletesUser \/ TimePasses
           \/ WorkerStarts \/ WorkerLost \/ (\E o \in Orders : Receive(o)) \/ UNCHANGED vars
  BY <1>1, <1>7
     DEF ClientPosts, CreateOrder, ClientEdit, ClientDeletesUser, CascadeToOrders,
         LoadForUpdate, LoadForDelete, TimePasses, WorkerStarts, WorkerStart,
         DeclareQueues, WorkerLost, Redelivery, WorkerCrash, ConnectionLost,
         Requeue, Receive, ReceiveOrderCreated, ReceiveOrderCompleted,
         ReceiveOrderExpired, Take, Deliver, vars, busVars
<1> QED
  BY <1>3, <1>4, <1>5, <1>6, <1>7
     DEF Next, ApiStep, WorkerReceives, WorkerHandles, CronStep, Error

\* A live handler that leaves a message leaves it acknowledged, or failed.
LEMMA LeavingStep ==
  ASSUME TypeOK, [Next]_vars, ~WorkerLost, NEW m \in Messages, NEW h \in Handlers,
         Holds(h, m), handler'[h].msg # m
  PROVE  Failed(m)' \/ (Ack(h) /\ h \in Acking(m))
<1> USE DEF TypeOK, WorkerTypeOK, HandlerStates
<1>1. PICK g \in Handlers : Moves(g)
  BY HandlersStep DEF Holds
<1>2. g = h
  BY <1>1 DEF Moves, Holds
<1>3. Busy(h)
  BY NoMessageAssumption DEF Busy, Holds
<1>4. CASE GiveUp(h) \/ AnnounceThrows(h)
  BY <1>4 DEF GiveUp, AnnounceThrows, MoveToErrorQueue, Holds, Failed, BusTypeOK
<1>5. CASE Ack(h)
  BY <1>5 DEF Ack, Acking, Holds
<1>6. CASE HandlerStep(h)
  BY <1>4, <1>5, <1>6
     DEF HandlerStep, MarkProcessing, PaymentSucceeds, PaymentFails,
         CompleteOrder, AnnounceCompleted, SaveNotification, SaveFindsNoOrder,
         Goto, Finish, Holds
<1>7. ASSUME NEW o \in Orders
      PROVE  /\ ~ReceiveOrderCreated(h, o) /\ ~ReceiveOrderCompleted(h, o)
             /\ ~ReceiveOrderExpired(h, o)
  BY <1>3 DEF ReceiveOrderCreated, ReceiveOrderCompleted, ReceiveOrderExpired, Take
<1> QED
  BY <1>1, <1>2, <1>4, <1>6, <1>7 DEF Moves, ConsumerThrows

\* The handler that took the payment publishes the event or fails.
LEMMA OwingStep ==
  ASSUME TypeOK, RoleInv, [Next]_vars, ~WorkerLost, redeliveries = 0,
         NEW o \in Orders, Owing(o)
  PROVE  Owing(o)' \/ Queued(OrderCompletedEvent(o))' \/ Failed(OrderCreatedEvent(o))'
<1> USE DEF TypeOK, WorkerTypeOK, HandlerStates
<1>1. PICK h \in Handlers : /\ handler[h].msg = OrderCreatedEvent(o)
                            /\ handler[h].pc \in {"paid", "announcing"}
  BY DEF Owing
<1>2. /\ OrderCreatedEvent(o) \in Messages /\ OrderCompletedEvent(o) \in Messages
      /\ handler[h].live /\ handler[h].msg.order = o /\ Worked(OrderCreatedEvent(o))
  BY <1>1, EventsAreMessages DEF RoleInv, OrderCreatedEvent, Worked
<1>3. bound
  BY <1>2 DEF RoleInv
<1>4. CASE handler'[h] = handler[h]
  BY <1>1, <1>4 DEF Owing
<1>5. CASE CompleteOrder(h)
  <2>1. /\ handler'[h].msg = handler[h].msg /\ handler'[h].pc = "announcing"
    BY <1>5 DEF CompleteOrder
  <2> QED
    BY <1>1, <2>1 DEF Owing
<1>6. CASE AnnounceCompleted(h) \/ AnnounceThrows(h)
  <2>1. queue' = [queue EXCEPT ![OrderCompletedEvent(o)] = queue[OrderCompletedEvent(o)] + 1]
    BY <1>2, <1>3, <1>6 DEF AnnounceCompleted, AnnounceThrows, Publish
  <2>2. queue[OrderCompletedEvent(o)] \in Nat /\ queue \in [Messages -> Nat]
    BY <1>2 DEF BusTypeOK
  <2> QED
    BY <1>2, <2>1, <2>2 DEF Queued
<1>7. CASE GiveUp(h)
  BY <1>1, <1>2, <1>7 DEF GiveUp, MoveToErrorQueue, Failed, BusTypeOK
<1>8. CASE Moves(h)
  <2>1. ASSUME NEW p \in Orders
        PROVE  /\ ~ReceiveOrderCreated(h, p) /\ ~ReceiveOrderCompleted(h, p)
               /\ ~ReceiveOrderExpired(h, p)
    BY <1>1 DEF ReceiveOrderCreated, ReceiveOrderCompleted, ReceiveOrderExpired,
                Take, Busy
  <2> QED
    BY <1>1, <1>5, <1>6, <1>7, <1>8, <2>1
       DEF Moves, HandlerStep, MarkProcessing, PaymentSucceeds, PaymentFails,
           SaveNotification, SaveFindsNoOrder, Ack, ConsumerThrows
<1>9. CASE ~Moves(h)
  <2>1. handler'[h] = handler[h]
    BY <1>9, HandlersStep DEF Moves
  <2> QED
    BY <1>4, <2>1
<1> QED
  BY <1>8, <1>9

LEMMA RememberInvNext == PaymentInv /\ RememberInv /\ [Next]_vars => RememberInv'
<1> SUFFICES ASSUME PaymentInv, RememberInv, [Next]_vars, redeliveries' = 0,
                    NEW o \in Orders, charges'[o] > 0, Exists(o)'
             PROVE  Remembered(o)'
  BY DEF RememberInv
<1> DEFINE done == OrderCompletedEvent(o)
           made == OrderCreatedEvent(o)
           rows == notifications[o]["OrderCompleted"]
<1>1. /\ TypeOK /\ TypeOK' /\ TruthInv /\ RoleInv /\ AckInv
      /\ made \in Messages /\ done \in Messages
      /\ done.type = "OrderCompleted" /\ done.order = o
  BY TypeOKNext, EventsAreMessages
     DEF PaymentInv, CountInv, TruthInv, OrderCompletedEvent
<1>2. redeliveries = 0 /\ ~WorkerLost
  BY <1>1, RedeliveriesGrow DEF WorkerLost
<1>3. rows \in Nat /\ rows' \in Nat /\ charges[o] \in Nat /\ charges'[o] \in Nat
  BY <1>1 DEF TypeOK, TablesTypeOK, EventTypes, WorkerTypeOK
<1>4. rows > 0 => rows' > 0
  BY <1>1, <1>3, RowsStep DEF EventTypes, Exists, OrderStatuses
<1>5. CASE charges[o] = 0
  <2>1. PICK h \in Handlers : PaymentSucceeds(h)
    BY <1>5, ChargesStep
  <2>2. handler[h].msg = made
    BY <1>1, <1>5, <2>1, PaymentStep
  <2>3. handler'[h].msg = made /\ handler'[h].pc = "paid"
    BY <1>1, <2>1, <2>2
       DEF PaymentSucceeds, Goto, TypeOK, WorkerTypeOK, HandlerStates
  <2> QED
    BY <2>3 DEF Remembered, Owing
<1>6. CASE charges[o] # 0
  <2>1. Remembered(o)
    <3>1. charges[o] > 0
      BY <1>3, <1>6
    <3>2. status[o] # "unused"
      BY <3>1 DEF PaymentInv, CountInv, TruthInv, OriginInv
    <3>3. Exists(o)
      BY <1>1, <3>2, PlacedStays
    <3> QED
      BY <1>2, <3>1, <3>3 DEF RememberInv
  <2>2. CASE rows > 0
    BY <1>4, <2>2 DEF Remembered
  <2>3. CASE Queued(done)
    BY <1>1, <2>3, QueuedStep DEF Remembered
  <2>4. CASE Failed(done) \/ Failed(made)
    BY <1>1, <2>4, FailedStays DEF Remembered
  <2>5. CASE Owing(o)
    BY <1>1, <1>2, <2>5, OwingStep DEF Remembered
  <2>6. CASE Worked(done)
    <3>1. PICK h \in Handlers : handler[h].msg = done
      BY <2>6 DEF Worked
    <3>2. Holds(h, done)
      BY <1>1, <1>2, <3>1 DEF RoleInv, Holds
    <3>3. CASE handler'[h].msg = done
      BY <3>3 DEF Remembered, Worked
    <3>4. CASE Failed(done)'
      BY <3>4 DEF Remembered
    <3>5. CASE Ack(h) /\ h \in Acking(done)
      <4>1. Exists(o)
        BY <3>5 DEF Ack, tableVars, Exists
      <4>2. acked[done] + Cardinality(Acking(done)) <= rows
        BY <1>1, <4>1 DEF AckInv
      <4>3. /\ Acking(done) \in SUBSET Handlers /\ {h} \in SUBSET Acking(done)
            /\ Cardinality({h}) = 1
        BY <3>5, FS_Singleton DEF Acking
      <4>4. /\ Cardinality(Acking(done)) \in Nat
            /\ 1 <= Cardinality(Acking(done))
        BY <4>3, HandlerSetsAreFinite, SmallerHandlerSet
      <4>5. acked[done] \in Nat
        BY <1>1 DEF TypeOK, BusTypeOK
      <4> QED
        BY <1>3, <1>4, <4>2, <4>4, <4>5 DEF Remembered
    <3> QED
      BY <1>1, <1>2, <3>2, <3>3, <3>4, <3>5, LeavingStep
  <2> QED
    BY <2>1, <2>2, <2>3, <2>4, <2>5, <2>6 DEF Remembered
<1> QED
  BY <1>5, <1>6

\* Unless the Worker loses a message in hand, a paid order is never forgotten,
\* whichever call fails and whatever the requests and sweeps do meanwhile: its
\* row is there, or a message that leads to it is queued, in work or failed.
THEOREM PaymentsAreRemembered == Spec => []PaidIsNotForgotten
<1>1. Init => RememberInv
  BY DEF Init, WorkerInit, RememberInv
<1>2. RememberInv => PaidIsNotForgotten
  BY DEF RememberInv, PaidIsNotForgotten, Remembered, Owing, Worked
<1> QED
  BY <1>1, <1>2, PaymentInvHolds, RememberInvNext, PTL DEF Spec


-----------------------------------------------------------------------------
(* Edges.  While no client has edited an order: a handler that has taken   *)
(* one up keeps it from being pending, also the handler that loaded it as  *)
(* `processing' and will therefore not write the column; and a completed   *)
(* order is paid for, so that taking it up again is a second payment,      *)
(* which NotChargedTwice ties to a redelivery.                             *)

TakenUp(h) ==
  \/ handler[h].pc \in {"paying", "paid", "announcing"}
  \/ handler[h].pc = "loaded" /\ handler[h].tracked = "processing"

EdgeInv ==
  edits = 0 =>
    /\ \A h \in Handlers : TakenUp(h) => status[handler[h].msg.order] # "pending"
    /\ \A o \in Orders : status[o] = "completed" => charges[o] > 0

\* A handler that has an order taken up had it so before, loaded it as
\* processing, or saves it as processing now.
LEMMA TakenUpStep ==
  ASSUME TypeOK, [Next]_vars, NEW h \in Handlers, TakenUp(h)', ~TakenUp(h)
  PROVE  \/ \E o \in Orders :
              /\ ReceiveOrderCreated(h, o) /\ handler'[h].msg.order = o
              /\ status[o] = "processing"
         \/ /\ MarkProcessing(h) /\ handler'[h].msg = handler[h].msg
            /\ handler[h].tracked # "processing"
<1> USE DEF TypeOK, WorkerTypeOK, HandlerStates
<1>1. PICK g \in Handlers : Moves(g)
  <2>1. ~UNCHANGED handler
    BY DEF TakenUp
  <2>2. ~WorkerCrash /\ ~ConnectionLost
    BY DEF WorkerCrash, ConnectionLost, Idle, TakenUp
  <2> QED
    BY <2>1, <2>2, HandlersStep
<1>2. g = h
  BY <1>1 DEF Moves, TakenUp
<1>3. ASSUME NEW o \in Orders, ReceiveOrderCreated(h, o)
      PROVE  handler'[h].msg.order = o /\ status[o] = "processing"
  BY <1>3 DEF ReceiveOrderCreated, Take, OrderCreatedEvent, TakenUp
<1>4. ASSUME NEW o \in Orders
      PROVE  ~ReceiveOrderCompleted(h, o) /\ ~ReceiveOrderExpired(h, o)
  BY DEF ReceiveOrderCompleted, ReceiveOrderExpired, Take, TakenUp
<1>5. ~ConsumerThrows(h) /\ ~AnnounceThrows(h)
  BY DEF ConsumerThrows, AnnounceThrows, GiveUp, Idle, TakenUp
<1>6. CASE HandlerStep(h)
  BY <1>6 DEF HandlerStep, MarkProcessing, PaymentSucceeds, PaymentFails,
              CompleteOrder, AnnounceCompleted, SaveNotification,
              SaveFindsNoOrder, Ack, GiveUp, Goto, Finish, Idle, TakenUp
<1> QED
  BY <1>1, <1>2, <1>3, <1>4, <1>5, <1>6 DEF Moves

\* What a handler has taken up stays the same order.
LEMMA TakenUpStays ==
  ASSUME TypeOK, [Next]_vars, NEW h \in Handlers, TakenUp(h)', TakenUp(h)
  PROVE  handler'[h].msg = handler[h].msg
<1> USE DEF TypeOK, WorkerTypeOK, HandlerStates
<1>1. CASE UNCHANGED handler
  BY <1>1
<1>2. ASSUME NEW g \in Handlers, Moves(g)
      PROVE  handler'[h].msg = handler[h].msg
  <2>1. CASE g # h
    BY <1>2, <2>1 DEF Moves
  <2>2. CASE g = h
    <3>1. ASSUME NEW o \in Orders
          PROVE  /\ ~ReceiveOrderCreated(h, o) /\ ~ReceiveOrderCompleted(h, o)
                 /\ ~ReceiveOrderExpired(h, o)
      BY DEF ReceiveOrderCreated, ReceiveOrderCompleted, ReceiveOrderExpired,
             Take, Busy, TakenUp
    <3>2. ~ConsumerThrows(h) /\ ~AnnounceThrows(h)
      BY DEF ConsumerThrows, AnnounceThrows, GiveUp, Idle, TakenUp
    <3>3. CASE HandlerStep(h)
      BY <3>3 DEF HandlerStep, MarkProcessing, PaymentSucceeds, PaymentFails,
                  CompleteOrder, AnnounceCompleted, SaveNotification,
                  SaveFindsNoOrder, Ack, GiveUp, Goto, Finish, Idle, TakenUp
    <3> QED
      BY <1>2, <2>2, <3>1, <3>2, <3>3 DEF Moves
  <2> QED
    BY <2>1, <2>2
<1>3. CASE WorkerCrash \/ ConnectionLost
  BY <1>3 DEF WorkerCrash, ConnectionLost, Idle, TakenUp
<1> QED
  BY <1>1, <1>2, <1>3, HandlersStep

LEMMA EdgeInvNext == TruthInv /\ EdgeInv /\ [Next]_vars => EdgeInv'
<1> SUFFICES ASSUME TruthInv, EdgeInv, [Next]_vars, edits' = 0
             PROVE  /\ \A h \in Handlers :
                         TakenUp(h)' => status'[handler'[h].msg.order] # "pending"
                    /\ \A o \in Orders : status'[o] = "completed" => charges'[o] > 0
  BY DEF EdgeInv
<1>1. TypeOK /\ TypeOK' /\ edits = 0
  BY EditsGrow, TypeOKNext DEF TruthInv
<1>2. \A r \in Requests : request[r].pc # "updating"
  BY <1>1 DEF TruthInv, OriginInv
<1>3. ASSUME NEW o \in Orders, status[o] \notin {"unused", "pending"}
      PROVE  status'[o] # "pending"
  BY <1>1, <1>2, <1>3, StatusStep
<1>4. ASSUME NEW h \in Handlers, TakenUp(h)'
      PROVE  status'[handler'[h].msg.order] # "pending"
  <2>1. CASE TakenUp(h)
    <3>1. handler'[h].msg = handler[h].msg
      BY <1>1, <1>4, <2>1, TakenUpStays
    <3>2. handler[h].msg \in Messages /\ handler[h].msg.order \in Orders
      BY <1>1, <2>1, BusyMessage DEF TakenUp, Busy, TypeOK
    <3>3. status[handler[h].msg.order] \notin {"unused", "pending"}
      BY <1>1, <2>1, <3>2
         DEF EdgeInv, TruthInv, OriginInv, Known, Worked, Earned
    <3> QED
      BY <1>3, <3>1, <3>2, <3>3
  <2>2. ASSUME NEW o \in Orders, ReceiveOrderCreated(h, o),
               handler'[h].msg.order = o, status[o] = "processing"
        PROVE  status'[o] # "pending"
    BY <1>3, <2>2
  <2>3. CASE MarkProcessing(h) /\ handler'[h].msg = handler[h].msg
             /\ handler[h].tracked # "processing"
    <3>1. handler[h].msg.order \in Orders
      BY <1>1, <2>3, BusyMessage DEF MarkProcessing, Busy, TypeOK
    <3> QED
      BY <1>1, <2>3, <3>1
         DEF MarkProcessing, UpdateOrder, Overwritten, TypeOK, TablesTypeOK
  <2> QED
    BY <1>1, <1>4, <2>1, <2>2, <2>3, TakenUpStep
<1>5. ASSUME NEW o \in Orders, status'[o] = "completed"
      PROVE  charges'[o] > 0
  <2>1. CASE status[o] = "completed"
    BY <1>1, <2>1, ChargesGrow DEF EdgeInv
  <2>2. CASE \E h \in Handlers : CompleteOrder(h) /\ handler[h].msg.order = o
    BY <1>1, <2>2, ChargesGrow DEF CompleteOrder, TruthInv, PaidInv
  <2> QED
    BY <1>1, <1>2, <1>5, <2>1, <2>2, StatusStep
<1> QED
  BY <1>4, <1>5

PathInv == PaymentInv /\ EdgeInv

LEMMA PathInvHolds == Spec => []PathInv
<1>1. Init => EdgeInv
  BY DEF Init, TablesInit, WorkerInit, Idle, EdgeInv, TakenUp
<1>2. PaymentInv /\ EdgeInv /\ [Next]_vars => EdgeInv'
  BY EdgeInvNext DEF PaymentInv, CountInv
<1> QED
  BY <1>1, <1>2, PaymentInvHolds, PTL DEF Spec, PathInv

\* A completed order that is about to be taken up again was paid for, and its
\* handler would take a second payment: the broker has redelivered its event.
LEMMA TakenUpAgain ==
  ASSUME PathInv, edits = 0, NEW h \in Handlers, MarkProcessing(h),
         status[handler[h].msg.order] = "completed"
  PROVE  redeliveries > 0
<1> DEFINE o == handler[h].msg.order
           m == OrderCreatedEvent(o)
<1>1. TypeOK /\ RoleInv /\ OnceInv /\ EdgeInv
  BY DEF PathInv, PaymentInv, CountInv, TruthInv
<1>2. /\ handler[h].msg \in Messages /\ o \in Orders /\ m \in Messages
      /\ handler[h].pc = "loaded"
  BY <1>1, BusyMessage, EventsAreMessages DEF MarkProcessing, Busy, TypeOK
<1>3. handler[h].msg = m
  BY <1>1, <1>2 DEF RoleInv, OrderCreatedEvent, Messages
<1>4. /\ Unpaid(m) \in SUBSET Handlers /\ {h} \in SUBSET Unpaid(m)
      /\ Cardinality(Unpaid(m)) \in Nat
  BY <1>2, <1>3, HandlerSetsAreFinite DEF Unpaid
<1>5. Cardinality({h}) = 1
  BY FS_Singleton
<1>6. Cardinality(Unpaid(m)) >= 1
  BY <1>4, <1>5, SmallerHandlerSet
<1>7. charges[o] > 0 /\ charges[o] \in Nat /\ queue[m] \in Nat /\ redeliveries \in Nat
  BY <1>1, <1>2, BoundsAssumption
     DEF EdgeInv, TypeOK, WorkerTypeOK, BusTypeOK
<1>8. charges[o] + queue[m] + Cardinality(Unpaid(m)) <= 1 + redeliveries
  BY <1>1, <1>2 DEF OnceInv
<1> QED
  BY <1>4, <1>6, <1>7, <1>8

\* Whatever requests, handlers, sweeps, failures and redeliveries race, an
\* order that no client edited moves only along StatusEdges, and from completed
\* back to processing only once the broker has redelivered.
THEOREM StatusesFollowEdges == Spec => ServicesFollowEdges
<1> DEFINE Edge(o) ==
             \/ status'[o] = status[o]
             \/ status'[o] = "deleted"
             \/ <<status[o], status'[o]>> \in StatusEdges
             \/ <<status[o], status'[o]>> = <<"completed", "processing">> /\ redeliveries > 0
             \/ edits > 0
<1>1. ASSUME PathInv, [Next]_vars, NEW o \in Orders
      PROVE  Edge(o)
  <2>1. TypeOK /\ TruthInv /\ EdgeInv
    BY <1>1 DEF PathInv, PaymentInv, CountInv, TruthInv
  <2>2. edits \in Nat
    BY <1>1, <2>1, EditsGrow
  <2>3. CASE status[o] = "unused" /\ status'[o] = "pending"
    BY <2>3 DEF StatusEdges
  <2>4. ASSUME NEW h \in Handlers, MarkProcessing(h), handler[h].msg.order = o,
               Exists(o), status'[o] = "processing"
        PROVE  Edge(o)
    BY <1>1, <2>2, <2>4, TakenUpAgain DEF Exists, OrderStatuses, StatusEdges
  <2>5. ASSUME NEW h \in Handlers, CompleteOrder(h), handler[h].msg.order = o,
               Exists(o), status'[o] = "completed"
        PROVE  Edge(o)
    <3>1. edits = 0 => status[o] # "pending"
      BY <2>1, <2>5 DEF EdgeInv, TakenUp, CompleteOrder
    <3> QED
      BY <2>2, <2>5, <3>1 DEF Exists, OrderStatuses, StatusEdges
  <2>6. CASE Exists(o) /\ status'[o] = "expired"
    BY <2>6 DEF Exists, OrderStatuses, StatusEdges
  <2>7. CASE \E r \in Requests : request[r].pc = "updating"
    BY <2>1, <2>7 DEF TruthInv, OriginInv
  <2> QED
    BY <1>1, <2>1, <2>3, <2>4, <2>5, <2>6, <2>7, StatusStep
<1>2. PathInv /\ [Next]_vars => [\A o \in Orders : Edge(o)]_vars
  BY <1>1
<1> QED
  BY <1>2, PathInvHolds, PTL DEF Spec, ServicesFollowEdges


-----------------------------------------------------------------------------
(* Expiries.  Between its query and its save a sweep relies on no one else *)
(* expiring its orders: so it must be the only one (docker-compose starts  *)
(* one CronJob under a fixed container_name), and no client may set that   *)
(* status by hand.  Whatever else clients do does not matter.              *)

OneCronJob == \A c, d \in CronJobs : c = d

SweepInv ==
  "expired" \notin ClientEdits =>
    \A c \in CronJobs : sweep[c].pc = "saving" =>
      \A o \in sweep[c].batch : status[o] # "expired"

LEMMA SavingStep ==
  ASSUME TypeOK, [Next]_vars, NEW c \in CronJobs, sweep'[c].pc = "saving"
  PROVE  \/ sweep'[c] = sweep[c]
         \/ FindOverdue(c) /\ sweep'[c].batch = Overdue
<1> USE DEF TypeOK, CronTypeOK, SweepStates
<1>1. CASE UNCHANGED sweep
  BY <1>1
<1>2. ASSUME NEW d \in CronJobs, SweepStep(d) \/ SweepAborts(d)
      PROVE  \/ sweep'[c] = sweep[c]
             \/ FindOverdue(c) /\ sweep'[c].batch = Overdue
  <2>1. CASE FindOverdue(d)
    BY <2>1 DEF FindOverdue
  <2>2. CASE ~FindOverdue(d)
    BY <1>2, <2>2 DEF SweepStep, SweepAborts, ExpireOrders, ExpireConflicts,
                      AnnounceExpired, Without, Waiting
  <2> QED
    BY <2>1, <2>2
<1> QED
  BY <1>1, <1>2
     DEF Next, ClientPosts, ClientEdit, ClientDeletesUser, CascadeToOrders,
         TimePasses, ApiStep, WorkerStarts, WorkerReceives, WorkerHandles,
         CronStep, Error, WorkerLost, vars, cronVars

LEMMA SweepInvNext ==
  OneCronJob => (TruthInv /\ SweepInv /\ [Next]_vars => SweepInv')
<1> SUFFICES ASSUME OneCronJob, TruthInv, SweepInv, [Next]_vars,
                    "expired" \notin ClientEdits,
                    NEW c \in CronJobs, sweep'[c].pc = "saving",
                    NEW o \in sweep'[c].batch, status'[o] = "expired"
             PROVE  FALSE
  BY DEF SweepInv
<1>1. TypeOK /\ TypeOK'
  BY TypeOKNext DEF TruthInv
<1>2. o \in Orders
  BY <1>1 DEF TypeOK, CronTypeOK, SweepStates
<1>3. CASE FindOverdue(c) /\ sweep'[c].batch = Overdue
  BY <1>3 DEF FindOverdue, Overdue, tableVars
<1>4. CASE sweep'[c] = sweep[c]
  <2>1. status[o] # "expired"
    BY <1>4 DEF SweepInv
  <2>2. PICK d \in CronJobs : ExpireOrders(d)
    BY <1>1, <1>2, <2>1, StatusStep DEF TruthInv, OriginInv
  <2>3. ExpireOrders(c)
    BY <2>2 DEF OneCronJob
  <2> QED
    BY <1>1, <2>3 DEF ExpireOrders, TypeOK, CronTypeOK, SweepStates
<1> QED
  BY <1>1, <1>3, <1>4, SavingStep

\* With the one CronJob that is deployed, whatever handler, request, redelivery or
\* failure comes between the query of a sweep and its save, also when clients change
\* statuses and delete orders and users meanwhile, no order is expired (and
\* announced) that is expired already: all it takes is that clients do not set
\* expired themselves.  A second CronJob would break it, for nothing locks the rows.
THEOREM ExpiriesAreOnce ==
  ASSUME OneCronJob
  PROVE  Spec => ExpiredOnlyOnce
<1>1. Init => SweepInv
  <2> SUFFICES ASSUME Init, NEW c \in CronJobs PROVE sweep[c].pc # "saving"
    BY DEF SweepInv
  <2> QED
    BY DEF Init, CronInit, Waiting
<1>2. TruthInv /\ SweepInv /\ [Next]_vars =>
        [\A o \in Orders :
           expiries'[o] # expiries[o] =>
             status[o] # "expired" \/ "expired" \in ClientEdits]_vars
  <2> SUFFICES ASSUME TruthInv, SweepInv, [Next]_vars, NEW o \in Orders,
                      expiries'[o] # expiries[o]
               PROVE  status[o] # "expired" \/ "expired" \in ClientEdits
    OBVIOUS
  <2>1. PICK c \in CronJobs : ExpireOrders(c)
    BY ExpiriesStep
  <2>2. o \in sweep[c].batch /\ sweep[c].pc = "saving"
    BY <2>1 DEF ExpireOrders, TruthInv, TypeOK, CronTypeOK
  <2> QED
    BY <2>2 DEF SweepInv
<1>3. TruthInv /\ SweepInv /\ [Next]_vars => SweepInv'
  BY SweepInvNext
<1> QED
  BY <1>1, <1>2, <1>3, TruthInvHolds, PTL DEF Spec, ExpiredOnlyOnce

=============================================================================
