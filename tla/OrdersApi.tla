------------------------------ MODULE OrdersApi ------------------------------
(***************************************************************************)
(* The WebApi's OrdersController: POST, PUT and DELETE /api/orders, as far *)
(* as they concern the order's status, its notifications and the event;    *)
(* and what the UsersController's DELETE does to orders.                   *)
(* A request is one running controller action; other requests, consumers   *)
(* and sweeps run between its awaits.                                      *)
(*                                                                         *)
(*   Create    publishing -> noting -> reloading -> 201                    *)
(*   Update    updating -> 200                                             *)
(*   Delete    deleting -> 204                                             *)
(***************************************************************************)
EXTENDS EventBus

CONSTANTS Requests,      \* the requests that may run at a time
          NoOrder        \* what a free request slot works on

ASSUME NoOrderAssumption == NoOrder \notin Orders

VARIABLES request,       \* the state of each request
          accepted       \* history: the orders that a POST returned 201 for

apiVars == <<request, accepted>>

Free ==
  [pc |-> "free", order |-> NoOrder, tracked |-> "unused", target |-> "unused"]

RequestStates ==
  [pc : {"free", "publishing", "noting", "reloading", "updating", "deleting"},
   order : Orders \cup {NoOrder}, tracked : RowStates, target : RowStates]

ApiTypeOK ==
  /\ request \in [Requests -> RequestStates]
  /\ \A r \in Requests : request[r].pc = "free" <=> request[r].order = NoOrder
  /\ accepted \in SUBSET Orders

ApiInit ==
  /\ request = [r \in Requests |-> Free]
  /\ accepted = {}

Serving(r) == request[r].pc # "free"

Begin(r, pc, o, tracked, target) ==
  /\ ~Serving(r)
  /\ request' = [request EXCEPT ![r] =
       [pc |-> pc, order |-> o, tracked |-> tracked, target |-> target]]

Respond(r) == request' = [request EXCEPT ![r] = Free]

-----------------------------------------------------------------------------
(* Create.  The order and its event are two steps: there is no outbox.     *)

\* The items are valid and in stock; the order is saved as pending.
CreateOrder(r, o) ==
  /\ Begin(r, "publishing", o, "pending", "unused")
  /\ InsertOrder(o)
  /\ UNCHANGED <<busVars, accepted>>

AnnounceCreated(r) ==
  /\ request[r].pc = "publishing"
  /\ Publish(OrderCreatedEvent(request[r].order))
  /\ request' = [request EXCEPT ![r].pc = "noting"]
  /\ UNCHANGED <<tableVars, accepted>>

NoteCreated(r) ==
  /\ request[r].pc = "noting"
  /\ InsertNotification(request[r].order, "OrderCreated")
  /\ request' = [request EXCEPT ![r].pc = "reloading"]
  /\ UNCHANGED <<busVars, accepted>>

\* What the response shows is read again, and the client gets 201, also when the
\* order was deleted meanwhile.
ReturnCreated(r) ==
  /\ request[r].pc = "reloading"
  /\ accepted' = accepted \cup {request[r].order}
  /\ Respond(r)
  /\ UNCHANGED <<tableVars, busVars>>

-----------------------------------------------------------------------------
(* Update and Delete: load, then save.  A load that finds no order returns *)
(* 404 and changes nothing.                                                *)

LoadForUpdate(r, o, new) ==
  /\ Exists(o)
  /\ Begin(r, "updating", o, status[o], new)
  /\ UNCHANGED <<tableVars, busVars, accepted>>

SaveUpdate(r) ==
  LET q == request[r] IN
  /\ q.pc = "updating"
  /\ UpdateOrder(q.order, q.tracked, q.target)
  /\ Respond(r)
  /\ UNCHANGED <<busVars, accepted>>

LoadForDelete(r, o) ==
  /\ Exists(o)
  /\ Begin(r, "deleting", o, "unused", "unused")
  /\ UNCHANGED <<tableVars, busVars, accepted>>

SaveDelete(r) ==
  /\ request[r].pc = "deleting"
  /\ DeleteOrders({request[r].order})
  /\ Respond(r)
  /\ UNCHANGED <<busVars, accepted>>

\* The save of a user's DELETE takes the orders of the user along: all rows of a
\* set that is not empty, for a user may have any of them.
CascadeToOrders ==
  /\ \E owned \in SUBSET Orders : owned # {} /\ DeleteOrders(owned)
  /\ UNCHANGED <<busVars, apiVars>>

\* The save of any of the three finds that the order is gone: 500.
RequestFindsNoOrder(r) ==
  /\ request[r].pc \in {"noting", "updating", "deleting"}
  /\ ~Exists(request[r].order)
  /\ Respond(r)
  /\ UNCHANGED <<tableVars, busVars, accepted>>

\* The database or the broker throws, or the process stops.
RequestAborts(r) ==
  /\ Serving(r)
  /\ \/ UNCHANGED busVars
     \/ /\ request[r].pc = "publishing"
        /\ Publish(OrderCreatedEvent(request[r].order))
  /\ Respond(r)
  /\ UNCHANGED <<tableVars, accepted>>

-----------------------------------------------------------------------------

RequestStep(r) ==
  \/ AnnounceCreated(r)
  \/ NoteCreated(r)
  \/ ReturnCreated(r)
  \/ SaveUpdate(r)
  \/ SaveDelete(r)
  \/ RequestFindsNoOrder(r)

=============================================================================
