----------------------------- MODULE OrderSystem -----------------------------
(***************************************************************************)
(* The whole order pipeline: WebApi, Worker and CronJob interleave over    *)
(* the database and the message bus.  The components' steps are actions of *)
(* their own modules; here each leaves the other components alone, and the *)
(* three counters bound what a finite run may contain.                     *)
(***************************************************************************)
EXTENDS OrdersApi, Worker, CronJob

CONSTANTS ClientEdits,   \* the statuses that a PUT may ask for; "deleted" and
                         \* "cascaded" if clients also DELETE orders and users
          MaxEdits,      \* bound: PUT and DELETE requests in a run
          MaxErrors,     \* bound: exceptions and stops of WebApi and CronJob
          MaxRedeliveries \* bound: crashes and lost connections of the Worker

ASSUME ClientEditsAssumption ==
  ClientEdits \subseteq OrderStatuses \cup {"deleted", "cascaded"}
ASSUME BoundsAssumption ==
  MaxEdits \in Nat /\ MaxErrors \in Nat /\ MaxRedeliveries \in Nat

VARIABLES edits,         \* PUT and DELETE requests begun so far
          errors,        \* exceptions and stops so far
          redeliveries   \* crashes and lost connections of the Worker so far

counters == <<edits, errors, redeliveries>>
vars == <<tableVars, busVars, apiVars, workerVars, cronVars, counters>>

TypeOK ==
  /\ TablesTypeOK /\ BusTypeOK /\ ApiTypeOK /\ WorkerTypeOK /\ CronTypeOK
  /\ edits \in 0..MaxEdits
  /\ errors \in 0..MaxErrors
  /\ redeliveries \in 0..MaxRedeliveries

Init ==
  /\ TablesInit /\ BusInit /\ ApiInit /\ WorkerInit /\ CronInit
  /\ edits = 0
  /\ errors = 0
  /\ redeliveries = 0

-----------------------------------------------------------------------------
(* Clients, the clock, and the services' own steps.                        *)

ClientPosts ==
  /\ \E r \in Requests, o \in Orders : CreateOrder(r, o)
  /\ UNCHANGED <<workerVars, cronVars, counters>>

ClientEdit ==
  /\ edits < MaxEdits
  /\ edits' = edits + 1
  /\ \E r \in Requests, o \in Orders :
       \/ \E new \in ClientEdits \cap OrderStatuses : LoadForUpdate(r, o, new)
       \/ "deleted" \in ClientEdits /\ LoadForDelete(r, o)
  /\ UNCHANGED <<workerVars, cronVars, errors, redeliveries>>

ClientDeletesUser ==
  /\ "cascaded" \in ClientEdits
  /\ edits < MaxEdits
  /\ edits' = edits + 1
  /\ CascadeToOrders
  /\ UNCHANGED <<workerVars, cronVars, errors, redeliveries>>

TimePasses ==
  /\ \E o \in Orders : BecomeStale(o)
  /\ UNCHANGED <<busVars, apiVars, workerVars, cronVars, counters>>

ApiStep(r) ==
  RequestStep(r) /\ UNCHANGED <<workerVars, cronVars, counters>>

WorkerStarts ==
  WorkerStart /\ UNCHANGED <<apiVars, cronVars, counters>>

WorkerReceives(o) ==
  Receive(o) /\ UNCHANGED <<apiVars, cronVars, counters>>

WorkerHandles(h) ==
  HandlerStep(h) /\ UNCHANGED <<apiVars, cronVars, counters>>

CronStep(c) ==
  SweepStep(c) /\ UNCHANGED <<apiVars, workerVars, counters>>

-----------------------------------------------------------------------------
(* What can go wrong; each occurrence counts.                              *)

\* A call of a running service throws, or WebApi or CronJob stops.
Error ==
  /\ errors < MaxErrors
  /\ errors' = errors + 1
  /\ UNCHANGED <<edits, redeliveries>>
  /\ \/ (\E r \in Requests : RequestAborts(r)) /\ UNCHANGED <<workerVars, cronVars>>
     \/ HandlerThrows /\ UNCHANGED <<apiVars, cronVars>>
     \/ (\E c \in CronJobs : SweepAborts(c)) /\ UNCHANGED <<apiVars, workerVars>>

\* The Worker crashes or loses its connection with messages in hand.
WorkerLost ==
  /\ redeliveries < MaxRedeliveries
  /\ redeliveries' = redeliveries + 1
  /\ Redelivery
  /\ UNCHANGED <<edits, errors, apiVars, cronVars>>

Next ==
  \/ ClientPosts
  \/ ClientEdit
  \/ ClientDeletesUser
  \/ TimePasses
  \/ \E r \in Requests : ApiStep(r)
  \/ WorkerStarts
  \/ \E o \in Orders : WorkerReceives(o)
  \/ \E h \in Handlers : WorkerHandles(h)
  \/ \E c \in CronJobs : CronStep(c)
  \/ Error
  \/ WorkerLost

Spec == Init /\ [][Next]_vars

\* Services that run make progress: a begun request is served, the Worker
\* starts, takes what is queued and returns from every handler, the timer of
\* the CronJob ticks, and orders get old.  Clients owe nothing, and no fault
\* has to happen.
Fairness ==
  /\ WF_vars(TimePasses)
  /\ \A r \in Requests : WF_vars(ApiStep(r))
  /\ WF_vars(WorkerStarts)
  /\ \A o \in Orders : WF_vars(WorkerReceives(o))
  /\ \A h \in Handlers : WF_vars(WorkerHandles(h))
  /\ \A c \in CronJobs : WF_vars(CronStep(c))

FairSpec == Spec /\ Fairness

-----------------------------------------------------------------------------
(* Safety.                                                                 *)

\* Where the broker or a handler still has, or once put, message m.
Queued(m)  == queue[m] > 0
Held(m)    == \E h \in Handlers : Holds(h, m)
Worked(m)  == \E h \in Handlers : handler[h].msg = m
Failed(m)  == errorQueue[m] > 0
Acked(m)   == acked[m] > 0

Accounted(m) == Queued(m) \/ Held(m) \/ Failed(m) \/ Acked(m)

\* The event of an order whose POST was answered with 201 is never lost once
\* the Worker's queues exist: it waits, is with a handler, was handled to the
\* end or is in the error queue, whatever crashed meanwhile.
NoEventLost ==
  QueuesDeclared => \A o \in accepted : Accounted(OrderCreatedEvent(o))

\* A completion or expiry event that the Worker acknowledged left its row in
\* the notifications table: no crash between the save and the acknowledgement
\* may lose it (it may duplicate it).
AckedEventsAreNoted ==
  \A m \in Messages :
    (m.type # "OrderCreated" /\ Exists(m.order)) =>
      acked[m] <= notifications[m.order][m.type]

\* While no call fails of itself, a consumer gives up on a message only because
\* a client deleted the order under it.
OnlyDeletedOrdersFail ==
  errors = 0 => \A m \in Messages : Failed(m) => status[m.order] = "deleted"

\* A payment is not taken twice for an order, except once more for each time
\* that the broker takes the unacknowledged messages back.
NotChargedTwice == \A o \in Orders : charges[o] <= 1 + redeliveries

\* Without a redelivery, an order that was paid for is never forgotten, whatever
\* call fails: the customer was notified, or a message from which the Worker or
\* an operator can take it up is queued, being worked on or in an error queue.
PaidIsNotForgotten ==
  redeliveries = 0 => \A o \in Orders :
    LET Traceable(m) == Queued(m) \/ Worked(m) \/ Failed(m) IN
    (charges[o] > 0 /\ Exists(o)) =>
      \/ notifications[o]["OrderCompleted"] > 0
      \/ Traceable(OrderCompletedEvent(o))
      \/ Traceable(OrderCreatedEvent(o))

\* Where no client sets completed by hand, an order is completed only if it was
\* paid for.
CompletedIsPaid ==
  "completed" \notin ClientEdits =>
    \A o \in Orders : status[o] = "completed" => charges[o] > 0

\* A notification never says more than what happened: of a completion, that
\* the order was paid and an email went out for each row (IsEmailSent); of an
\* expiry, that a sweep did expire the order.
NotificationsAreTrue ==
  \A o \in Orders :
    LET rows == notifications[o] IN
    /\ rows["OrderCompleted"] <= emails[o]
    /\ emails[o] > 0 => charges[o] > 0
    /\ rows["OrderExpired"] > 0 => expiries[o] > 0

\* Whatever races, the services move an unedited order only along these edges;
\* in particular it never becomes pending again, no payment result is saved on
\* an order that was not taken up, and a completed order is taken up again only
\* after a redelivery.
StatusEdges ==
  {<<"unused", "pending">>, <<"pending", "processing">>,
   <<"pending", "expired">>, <<"processing", "completed">>,
   <<"processing", "expired">>, <<"expired", "processing">>,
   <<"expired", "completed">>, <<"completed", "expired">>}

ServicesFollowEdges ==
  [][\A o \in Orders :
       \/ status'[o] = status[o]
       \/ status'[o] = "deleted"
       \/ <<status[o], status'[o]>> \in StatusEdges
       \/ <<status[o], status'[o]>> = <<"completed", "processing">> /\ redeliveries > 0
       \/ edits > 0]_vars

\* A sweep does not expire an order that is expired already (and announce it a
\* second time): only one that a client or a late payment has taken back in the
\* meantime.  Clients may do anything but set expired themselves, which they may
\* between a sweep's query and its save.
ExpiredOnlyOnce ==
  [][\A o \in Orders :
       expiries'[o] # expiries[o] =>
         status[o] # "expired" \/ "expired" \in ClientEdits]_vars

-----------------------------------------------------------------------------
(* Liveness, under FairSpec.                                               *)

\* No order stays in pending or processing: what the Worker leaves behind, the
\* sweeps of the CronJob collect, whatever failed, was redelivered or edited.
OrdersSettle ==
  \A o \in Orders : <>[](status[o] \notin {"pending", "processing"})

\* An accepted order is processed by the Worker to the end of its handler, or
\* its event ends in the error queue.
CreatedIsConsumed ==
  \A o \in Orders :
    LET m == OrderCreatedEvent(o) IN
    o \in accepted ~> Acked(m) \/ Failed(m)

\* The customer of a paid order is notified, unless the order is deleted, one
\* of its events ends in the error queue, or the Worker had to start over.
PaidIsNotified ==
  \A o \in Orders :
    charges[o] > 0 ~>
      \/ notifications[o]["OrderCompleted"] > 0
      \/ ~Exists(o)
      \/ Failed(OrderCreatedEvent(o)) \/ Failed(OrderCompletedEvent(o))
      \/ redeliveries > 0

\* An expiry is noted even when the Worker is lost meanwhile, unless the order
\* is deleted or a call fails.
ExpiredIsNotified ==
  \A o \in Orders :
    expiries[o] > 0 ~>
      \/ notifications[o]["OrderExpired"] > 0
      \/ ~Exists(o)
      \/ errors > 0

-----------------------------------------------------------------------------
(* What the repository's documents say, and the program does not keep to.  *)

\* "Status updates follow the flow: pending -> processing -> completed (or stay
\* processing)", PRPs/event-driven-architecture.md:738, and both pending and
\* processing orders expire, README.md:197-202 (INITIAL.md:140 wants only
\* processing ones to, so that allowing both is the milder reading).
DocumentedEdges ==
  {<<"unused", "pending">>, <<"pending", "processing">>,
   <<"processing", "completed">>, <<"pending", "expired">>,
   <<"processing", "expired">>}

OnlyDocumentedTransitions ==
  [][\A o \in Orders :
       status'[o] # status[o] =>
         <<status[o], status'[o]>> \in DocumentedEdges]_vars

\* "Order completion should ONLY happen via the event-driven flow, not manual
\* updates": there is no completed order without a payment.
OnlyPaymentCompletes ==
  \A o \in Orders : status[o] = "completed" => charges[o] > 0

\* "MassTransit will automatically retry on exception": one failed call does
\* not end a message whose order is still there.
FailedCallsAreRetried ==
  \A m \in Messages : Failed(m) => status[m.order] = "deleted"

=============================================================================
