------------------------ MODULE OrderLifecycleProofs ------------------------
(***************************************************************************)
(* The order pipeline implements OrderLifecycle, for any number of orders, *)
(* handlers, requests, sweeps, edits, errors and redeliveries: under the   *)
(* mapping of OrderSystemLifecycle, each step is a step in the life of an  *)
(* order or leaves everything that a customer sees as it was.              *)
(***************************************************************************)
EXTENDS OrderSystemLifecycle, OrderSystemTruth

\* What the customers see, as the mapping has it.
Stage   == [o \in Orders |-> StageOf(status[o])]
Paid    == {o \in Orders : charges[o] > 0}
WasOverdue == {o \in Orders : expiries[o] > 0}
Told    == [o \in Orders |->
              {e \in {"OrderCompleted", "OrderExpired"} : notifications[o][e] > 0}]

Stutter == UNCHANGED <<Stage, Paid, WasOverdue, Told>>

-----------------------------------------------------------------------------
(* Lemmas about the mapping.                                               *)

LEMMA StageValues ==
  ASSUME TypeOK, NEW o \in Orders
  PROVE  /\ Stage[o] = StageOf(status[o])
         /\ Exists(o) <=> Stage[o] \in {"open", "done", "over"}
         /\ status[o] = "unused" <=> Stage[o] = "none"
BY DEF TypeOK, TablesTypeOK, RowStates, OrderStatuses, Exists, Stage, StageOf

LEMMA StagesOfStatuses ==
  /\ StageOf("unused") = "none"
  /\ StageOf("pending") = "open" /\ StageOf("processing") = "open"
  /\ StageOf("completed") = "done" /\ StageOf("expired") = "over"
  /\ StageOf("deleted") = "gone"
BY DEF StageOf

\* A save that writes one row moves one order.
LEMMA OneStageMoves ==
  ASSUME TypeOK, NEW o \in Orders, NEW s \in RowStates,
         status' = [status EXCEPT ![o] = s]
  PROVE  Stage' = [Stage EXCEPT ![o] = StageOf(s)]
<1>1. status' \in [Orders -> {status[p] : p \in Orders} \cup {s}]
      /\ \A p \in Orders : status'[p] = IF p = o THEN s ELSE status[p]
  BY DEF TypeOK, TablesTypeOK
<1> QED
  BY <1>1 DEF Stage

LEMMA SameRowsSameStory ==
  ASSUME UNCHANGED <<status, notifications, charges, expiries>>
  PROVE  Stutter
BY DEF Stutter, Stage, Paid, WasOverdue, Told

\* Only rows of completions and expiries are told to customers.
LEMMA CreationIsNotTold ==
  ASSUME TypeOK, NEW o \in Orders, InsertNotification(o, "OrderCreated")
  PROVE  Told' = Told
<1>1. \A p \in Orders, e \in {"OrderCompleted", "OrderExpired"} :
        notifications'[p][e] = notifications[p][e]
  BY DEF InsertNotification, TypeOK, TablesTypeOK, EventTypes
<1> QED
  BY <1>1 DEF Told

LEMMA RowIsTold ==
  ASSUME TypeOK, NEW o \in Orders, NEW e \in {"OrderCompleted", "OrderExpired"},
         InsertNotification(o, e)
  PROVE  Told' = [Told EXCEPT ![o] = @ \cup {e}]
<1>1. \A p \in Orders, f \in {"OrderCompleted", "OrderExpired"} :
        /\ notifications[p][f] \in Nat
        /\ notifications'[p][f] = IF p = o /\ f = e THEN notifications[p][f] + 1
                                                   ELSE notifications[p][f]
  BY DEF InsertNotification, TypeOK, TablesTypeOK, EventTypes
<1>2. ASSUME NEW p \in Orders
      PROVE  Told'[p] = IF p = o THEN Told[p] \cup {e} ELSE Told[p]
  BY <1>1 DEF Told
<1> QED
  BY <1>2 DEF Told

\* Deleted orders go with all that was told of them.
LEMMA DeletionIsRemove ==
  ASSUME TypeOK, NEW gone \in SUBSET Orders, gone # {}, DeleteOrders(gone),
         UNCHANGED <<charges, expiries>>
  PROVE  Lifecycle!Remove(gone)
<1>1. \A p \in Orders, f \in {"OrderCompleted", "OrderExpired"} :
        notifications'[p][f] = IF p \in gone THEN 0 ELSE notifications[p][f]
  BY DEF DeleteOrders, NoNotifications, EventTypes
<1>2. ASSUME NEW p \in Orders
      PROVE  Told'[p] = IF p \in gone THEN {} ELSE Told[p]
  BY <1>1 DEF Told
<1>3. Told' = [p \in Orders |-> IF p \in gone THEN {} ELSE Told[p]]
  BY <1>2 DEF Told
<1>4. ASSUME NEW p \in Orders
      PROVE  StageOf(status'[p]) = IF p \in gone THEN "gone" ELSE Stage[p]
  BY StagesOfStatuses DEF DeleteOrders, Stage
<1>5. Stage' = [p \in Orders |-> IF p \in gone THEN "gone" ELSE Stage[p]]
  BY <1>4 DEF Stage
<1>6. \A p \in gone : Stage[p] \in {"open", "done", "over"}
  BY StageValues DEF DeleteOrders
<1>7. UNCHANGED <<Paid, WasOverdue>>
  BY DEF Paid, WasOverdue
<1> QED
  BY <1>3, <1>5, <1>6, <1>7
     DEF Lifecycle!Remove, Lifecycle!Exists, Lifecycle!Stages, Stage, Paid,
         WasOverdue, Told

-----------------------------------------------------------------------------
(* Each action of the services.                                            *)

LEMMA CreateIsPlace ==
  ASSUME TypeOK, NEW r \in Requests, NEW o \in Orders, CreateOrder(r, o),
         UNCHANGED <<charges, expiries>>
  PROVE  Lifecycle!Place(o)
<1>1. status[o] = "unused" /\ status' = [status EXCEPT ![o] = "pending"]
      /\ notifications' = notifications
  BY DEF CreateOrder, InsertOrder
<1>2. Stage[o] = "none"
  BY <1>1, StageValues
<1>3. Stage' = [Stage EXCEPT ![o] = StageOf("pending")]
  BY <1>1, OneStageMoves DEF RowStates, OrderStatuses
<1>4. UNCHANGED <<Paid, WasOverdue, Told>>
  BY <1>1 DEF Paid, WasOverdue, Told
<1> QED
  BY <1>2, <1>3, <1>4, StagesOfStatuses
     DEF Lifecycle!Place, Stage, Paid, WasOverdue, Told

\* A PUT moves the order to the stage it asks for, or, when the column does not
\* change, only the time of the update.
LEMMA UpdateIsEdit ==
  ASSUME TruthInv, NEW r \in Requests, SaveUpdate(r), UNCHANGED <<charges, expiries>>,
         NEW o \in Orders, o = request[r].order
  PROVE  Stutter \/ Lifecycle!Edit(o)
<1> DEFINE q == request[r]
<1>1. /\ Exists(o)
      /\ q.target \in ClientEdits \cap OrderStatuses /\ q.target \in OrderStatuses
      /\ notifications' = notifications
      /\ status' = [status EXCEPT ![o] = Overwritten(o, q.tracked, q.target)]
  BY UpdatesStayInside DEF SaveUpdate, UpdateOrder, TruthInv, OriginInv
<1>2. TypeOK
  BY DEF TruthInv
<1> HIDE DEF q
<1>3. UNCHANGED <<Paid, WasOverdue, Told>>
  BY <1>1 DEF Paid, WasOverdue, Told
<1>4. CASE q.tracked = q.target
  <2>1. status' = status
    BY <1>1, <1>2, <1>4 DEF Overwritten, TypeOK, TablesTypeOK
  <2> QED
    BY <1>1, <2>1, SameRowsSameStory
<1>5. CASE q.tracked # q.target
  <2>1. Stage' = [Stage EXCEPT ![o] = StageOf(q.target)]
    BY <1>1, <1>2, <1>5, OneStageMoves DEF Overwritten, RowStates
  <2>2. Stage[o] \in {"open", "done", "over"}
    BY <1>1, <1>2, StageValues
  <2> QED
    BY <1>1, <1>3, <2>1, <2>2
       DEF Lifecycle!Edit, Lifecycle!Exists, Lifecycle!Stages, Stage, Paid,
           WasOverdue, Told
<1> QED
  BY <1>4, <1>5

LEMMA NoteIsNotTold ==
  ASSUME TypeOK, NEW r \in Requests, NoteCreated(r), UNCHANGED <<charges, expiries>>
  PROVE  Stutter
<1>1. request[r].order \in Orders
  BY ServingOrder DEF NoteCreated, Serving, TypeOK
<1>2. status' = status /\ Told' = Told
  BY <1>1, CreationIsNotTold DEF NoteCreated, InsertNotification
<1> QED
  BY <1>2 DEF Stutter, Stage, Paid, WasOverdue

\* Marking an order that is open already changes nothing that anybody sees.
LEMMA MarkIsReopen ==
  ASSUME TypeOK, NEW h \in Handlers, MarkProcessing(h), UNCHANGED expiries,
         NEW o \in Orders, o = handler[h].msg.order
  PROVE  Stutter \/ Lifecycle!Reopen(o)
<1> DEFINE t == handler[h].tracked
<1>1. /\ Exists(o)
      /\ notifications' = notifications /\ charges' = charges
      /\ status' = [status EXCEPT ![o] = Overwritten(o, t, "processing")]
  BY DEF MarkProcessing, UpdateOrder
<1> HIDE DEF t
<1>2. UNCHANGED <<Paid, WasOverdue, Told>>
  BY <1>1 DEF Paid, WasOverdue, Told
<1>3. CASE t = "processing"
  <2>1. status' = status
    BY <1>1, <1>3 DEF Overwritten, TypeOK, TablesTypeOK
  <2> QED
    BY <1>1, <2>1, SameRowsSameStory
<1>4. CASE t # "processing"
  <2>1. Stage' = [Stage EXCEPT ![o] = StageOf("processing")]
    BY <1>1, <1>4, OneStageMoves DEF Overwritten, RowStates, OrderStatuses
  <2>2. Stage[o] \in {"open", "done", "over"}
    BY <1>1, StageValues
  <2>3. CASE Stage[o] = "open"
    <3>1. Stage' = Stage
      BY <2>1, <2>3, StagesOfStatuses DEF Stage
    <3> QED
      BY <1>2, <3>1 DEF Stutter
  <2>4. CASE Stage[o] \in {"done", "over"}
    BY <1>2, <2>1, <2>4, StagesOfStatuses
       DEF Lifecycle!Reopen, Stage, Paid, WasOverdue, Told
  <2> QED
    BY <2>2, <2>3, <2>4
<1> QED
  BY <1>3, <1>4

\* A handler that gets to the save of the completion has taken the payment.
LEMMA CompleteIsComplete ==
  ASSUME TruthInv, NEW h \in Handlers, CompleteOrder(h), UNCHANGED expiries,
         NEW o \in Orders, o = handler[h].msg.order
  PROVE  Stutter \/ Lifecycle!Complete(o)
<1> DEFINE t == handler[h].tracked
<1>1. TypeOK
  BY DEF TruthInv
<1>2. /\ Exists(o) /\ charges[o] > 0
      /\ notifications' = notifications /\ charges' = charges
      /\ status' = [status EXCEPT ![o] = Overwritten(o, t, "completed")]
  BY DEF CompleteOrder, UpdateOrder, TruthInv, PaidInv
<1> HIDE DEF t
<1>3. UNCHANGED <<Paid, WasOverdue, Told>>
  BY <1>2 DEF Paid, WasOverdue, Told
<1>4. CASE t = "completed"
  <2>1. status' = status
    BY <1>1, <1>2, <1>4 DEF Overwritten, TypeOK, TablesTypeOK
  <2> QED
    BY <1>2, <2>1, SameRowsSameStory
<1>5. CASE t # "completed"
  <2>1. Stage' = [Stage EXCEPT ![o] = StageOf("completed")]
    BY <1>1, <1>2, <1>5, OneStageMoves DEF Overwritten, RowStates, OrderStatuses
  <2>2. Stage[o] \in {"open", "done", "over"}
    BY <1>1, <1>2, StageValues
  <2> QED
    BY <1>2, <1>3, <2>1, <2>2, StagesOfStatuses
       DEF Lifecycle!Complete, Lifecycle!Exists, Lifecycle!Stages, Stage, Paid,
           WasOverdue, Told
<1> QED
  BY <1>4, <1>5

\* A payment may be taken for an order that is deleted by then, never for one
\* that was not placed.
LEMMA PaymentIsPay ==
  ASSUME TruthInv, NEW h \in Handlers, PaymentSucceeds(h), UNCHANGED expiries,
         NEW o \in Orders, o = handler[h].msg.order
  PROVE  Lifecycle!Pay(o)
<1>1. TypeOK /\ handler[h].msg \in Messages
  BY BusyMessage DEF PaymentSucceeds, Busy, TruthInv, TypeOK
<1>2. status[o] # "unused"
  BY <1>1 DEF TruthInv, OriginInv, Known, Worked, Earned
<1>3. /\ charges' = [charges EXCEPT ![o] = @ + 1]
      /\ UNCHANGED <<status, notifications>>
  BY DEF PaymentSucceeds, tableVars
<1>4. Paid' = Paid \cup {o}
  BY <1>1, <1>2, <1>3 DEF Paid, TypeOK, WorkerTypeOK
<1>5. Stage[o] # "none" /\ UNCHANGED <<Stage, WasOverdue, Told>>
  BY <1>1, <1>2, <1>3, StageValues DEF Stage, WasOverdue, Told
<1> QED
  BY <1>4, <1>5 DEF Lifecycle!Pay, Stage, Paid, WasOverdue, Told

\* A row is written only by a handler whose message is earned.
LEMMA NotificationIsTell ==
  ASSUME TruthInv, NEW h \in Handlers, SaveNotification(h), UNCHANGED expiries,
         NEW o \in Orders, o = handler[h].msg.order,
         NEW e \in EventTypes, e = handler[h].msg.type
  PROVE  Stutter \/ (e \in Lifecycle!News /\ Lifecycle!Tell(o, e))
<1>1. TypeOK /\ handler[h].msg \in Messages
  BY BusyMessage DEF SaveNotification, Busy, TruthInv, TypeOK
<1>2. /\ Exists(o) /\ InsertNotification(o, e) /\ Earned(handler[h].msg)
      /\ UNCHANGED <<status, charges>>
  BY <1>1 DEF SaveNotification, InsertNotification, TruthInv, OriginInv, Known,
              Worked
<1>3. UNCHANGED <<Stage, Paid, WasOverdue>>
  BY <1>2 DEF Stage, Paid, WasOverdue
<1>4. CASE e = "OrderCreated"
  BY <1>1, <1>2, <1>3, <1>4, CreationIsNotTold DEF Stutter
<1>5. CASE e # "OrderCreated"
  <2>1. e \in {"OrderCompleted", "OrderExpired"}
    BY <1>5 DEF EventTypes
  <2>2. Told' = [Told EXCEPT ![o] = @ \cup {e}]
    BY <1>1, <1>2, <2>1, RowIsTold
  <2>3. Stage[o] \in {"open", "done", "over"}
    BY <1>1, <1>2, StageValues
  <2>4. /\ e = "OrderCompleted" => o \in Paid
        /\ e = "OrderExpired" => o \in WasOverdue
    BY <1>2 DEF Earned, Paid, WasOverdue
  <2> QED
    BY <1>3, <2>1, <2>2, <2>3, <2>4
       DEF Lifecycle!Tell, Lifecycle!News, Lifecycle!Exists, Lifecycle!Stages,
           Stage, Paid, WasOverdue, Told
<1> QED
  BY <1>4, <1>5

\* The transaction of a sweep closes all orders of its batch.
LEMMA ExpireIsExpire ==
  ASSUME TypeOK, NEW c \in CronJobs, ExpireOrders(c), UNCHANGED charges,
         NEW S \in SUBSET Orders, S = sweep[c].batch
  PROVE  Stutter \/ Lifecycle!Expire(S)
<1>1. /\ \A o \in S : Exists(o)
      /\ status' = [o \in Orders |-> IF o \in S THEN "expired" ELSE status[o]]
      /\ expiries' = [o \in Orders |-> IF o \in S THEN expiries[o] + 1 ELSE expiries[o]]
      /\ notifications' = notifications
  BY DEF ExpireOrders, UpdateOrders
<1>2. Stage' = [o \in Orders |-> IF o \in S THEN "over" ELSE Stage[o]]
  <2>1. ASSUME NEW o \in Orders
        PROVE  StageOf(status'[o]) = IF o \in S THEN "over" ELSE Stage[o]
    BY <1>1, StagesOfStatuses DEF Stage
  <2> QED
    BY <2>1 DEF Stage
<1>3. WasOverdue' = WasOverdue \cup S
  BY <1>1 DEF WasOverdue, TypeOK, CronTypeOK
<1>4. UNCHANGED <<Paid, Told>>
  BY <1>1 DEF Paid, Told
<1>5. CASE S = {}
  <2>1. Stage' = Stage
    BY <1>2, <1>5 DEF Stage
  <2> QED
    BY <1>3, <1>4, <1>5, <2>1 DEF Stutter
<1>6. CASE S # {}
  <2>1. \A o \in S : Stage[o] \in {"open", "done", "over"}
    BY <1>1, StageValues
  <2> QED
    BY <1>2, <1>3, <1>4, <1>6, <2>1
       DEF Lifecycle!Expire, Lifecycle!Exists, Lifecycle!Stages, Stage, Paid,
           WasOverdue, Told
<1> QED
  BY <1>5, <1>6

-----------------------------------------------------------------------------
(* The refinement.                                                         *)

LEMMA InitRefines == Init => Lifecycle!Init
BY StagesOfStatuses
   DEF Init, TablesInit, WorkerInit, CronInit, NoNotifications, EventTypes,
       Lifecycle!Init

\* Whatever no customer sees is a stutter; the rest are the actions above.
LEMMA StepRefines == TruthInv /\ [Next]_vars => Lifecycle!Next \/ Stutter
<1> SUFFICES ASSUME TruthInv, [Next]_vars PROVE Lifecycle!Next \/ Stutter
  OBVIOUS
<1>1. TypeOK
  BY DEF TruthInv
<1>2. CASE UNCHANGED <<tableVars, charges, expiries>>
  BY <1>2, SameRowsSameStory DEF tableVars
<1>3. CASE ClientPosts
  <2>1. PICK r \in Requests, o \in Orders : CreateOrder(r, o)
    BY <1>3 DEF ClientPosts
  <2>2. UNCHANGED <<charges, expiries>>
    BY <1>3 DEF ClientPosts, workerVars, cronVars
  <2> QED
    BY <1>1, <2>1, <2>2, CreateIsPlace DEF Lifecycle!Next
<1>4. CASE ClientEdit
  BY <1>2, <1>4 DEF ClientEdit, LoadForUpdate, LoadForDelete, workerVars, cronVars
<1>5. CASE TimePasses
  BY <1>5, SameRowsSameStory DEF TimePasses, BecomeStale, workerVars, cronVars
<1>6. ASSUME NEW r \in Requests, RequestStep(r) \/ RequestAborts(r),
             UNCHANGED <<charges, expiries>>
      PROVE  Lifecycle!Next \/ Stutter
  <2>1. CASE SaveUpdate(r)
    <3>1. PICK o \in Orders : o = request[r].order
      BY <2>1, UpdatesStayInside DEF SaveUpdate
    <3>2. Stutter \/ Lifecycle!Edit(o)
      BY <1>6, <2>1, <3>1, UpdateIsEdit
    <3> QED
      BY <3>2 DEF Lifecycle!Next
  <2>2. CASE SaveDelete(r)
    <3>1. PICK gone \in SUBSET Orders : gone # {} /\ DeleteOrders(gone)
      BY <1>1, <2>2, ServingOrder DEF SaveDelete, Serving, TypeOK
    <3>2. Lifecycle!Remove(gone)
      BY <1>1, <1>6, <3>1, DeletionIsRemove
    <3> QED
      BY <3>2 DEF Lifecycle!Next
  <2>3. CASE NoteCreated(r)
    BY <1>1, <1>6, <2>3, NoteIsNotTold
  <2> QED
    BY <1>2, <1>6, <2>1, <2>2, <2>3
       DEF RequestStep, RequestAborts, AnnounceCreated, ReturnCreated,
           RequestFindsNoOrder
<1>7. ASSUME NEW h \in Handlers, HandlerStep(h), UNCHANGED expiries
      PROVE  Lifecycle!Next \/ Stutter
  <2>1. CASE \/ MarkProcessing(h) \/ CompleteOrder(h) \/ PaymentSucceeds(h)
             \/ SaveNotification(h)
    <3>1. PICK o \in Orders, e \in EventTypes :
            o = handler[h].msg.order /\ e = handler[h].msg.type
      BY <1>1, <2>1, BusyMessage
         DEF MarkProcessing, CompleteOrder, PaymentSucceeds, SaveNotification,
             Busy, TypeOK, Messages
    <3>2. \/ Stutter \/ Lifecycle!Reopen(o) \/ Lifecycle!Complete(o)
          \/ Lifecycle!Pay(o) \/ (e \in Lifecycle!News /\ Lifecycle!Tell(o, e))
      BY <1>1, <1>7, <2>1, <3>1, MarkIsReopen, CompleteIsComplete, PaymentIsPay,
         NotificationIsTell
    <3> QED
      BY <3>2 DEF Lifecycle!Next
  <2> QED
    BY <1>2, <1>7, <2>1
       DEF HandlerStep, PaymentFails, AnnounceCompleted, SaveFindsNoOrder, Ack,
           GiveUp
<1>8. ASSUME NEW c \in CronJobs, SweepStep(c) \/ SweepAborts(c), UNCHANGED charges
      PROVE  Lifecycle!Next \/ Stutter
  <2>1. CASE ExpireOrders(c)
    <3>1. PICK S \in SUBSET Orders : S = sweep[c].batch
      BY <1>1 DEF TypeOK, CronTypeOK, SweepStates
    <3>2. Stutter \/ Lifecycle!Expire(S)
      BY <1>1, <1>8, <2>1, <3>1, ExpireIsExpire
    <3> QED
      BY <3>2 DEF Lifecycle!Next
  <2> QED
    BY <1>2, <1>8, <2>1 DEF SweepStep, SweepAborts, FindOverdue, ExpireConflicts,
                            AnnounceExpired
<1>9. CASE \E o \in Orders : WorkerReceives(o)
  BY <1>2, <1>9 DEF WorkerReceives, Receive, ReceiveOrderCreated,
                    ReceiveOrderCompleted, ReceiveOrderExpired, cronVars
<1>10. CASE WorkerStarts \/ WorkerLost
  BY <1>2, <1>10 DEF WorkerStarts, WorkerStart, WorkerLost, Redelivery,
                     WorkerCrash, ConnectionLost, workerVars, cronVars
<1>11. CASE Error
  <2>1. CASE HandlerThrows /\ UNCHANGED cronVars
    BY <1>2, <2>1 DEF HandlerThrows, ConsumerThrows, AnnounceThrows, GiveUp, cronVars
  <2> QED
    BY <1>6, <1>8, <1>11, <2>1 DEF Error, workerVars, cronVars
<1>12. CASE UNCHANGED vars
  BY <1>2, <1>12 DEF vars, workerVars, cronVars
<1>13. CASE ClientDeletesUser
  <2>1. PICK gone \in SUBSET Orders : gone # {} /\ DeleteOrders(gone)
    BY <1>13 DEF ClientDeletesUser, CascadeToOrders
  <2>2. Lifecycle!Remove(gone)
    BY <1>1, <1>13, <2>1, DeletionIsRemove
       DEF ClientDeletesUser, CascadeToOrders, workerVars, cronVars
  <2> QED
    BY <2>2 DEF Lifecycle!Next
<1> QED
  BY <1>3, <1>4, <1>5, <1>6, <1>7, <1>8, <1>9, <1>10, <1>11, <1>12, <1>13
     DEF Next, ApiStep, WorkerHandles, CronStep, workerVars, cronVars

\* Every behaviour of the WebApi, the Worker and the CronJob together, with all
\* their races, errors and redeliveries, is a behaviour of OrderLifecycle: only
\* a paid order gets done, a deleted one never comes back, and a customer is
\* told only what has happened.
THEOREM PipelineRefinesLifecycle == Spec => ImplementsLifecycle
<1>1. TruthInv /\ [Next]_vars => [Lifecycle!Next]_(Lifecycle!vars)
  <2>1. Stutter => UNCHANGED Lifecycle!vars
    BY DEF Stutter, Lifecycle!vars, Stage, Paid, WasOverdue, Told
  <2> QED
    BY <2>1, StepRefines
<1> QED
  BY <1>1, InitRefines, TruthInvHolds, PTL
     DEF Spec, ImplementsLifecycle, Lifecycle!Spec

=============================================================================
