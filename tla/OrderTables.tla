---------------------------- MODULE OrderTables ----------------------------
(***************************************************************************)
(* The two tables of the PostgreSQL database through which the WebApi, the *)
(* Worker and the CronJob share an order: `orders' (its status and whether *)
(* it is older than the expiry threshold) and `notifications' (how many    *)
(* rows of each event type an order has).                                  *)
(*                                                                         *)
(* Each operator below is the effect of one SaveChangesAsync, which Entity *)
(* Framework runs as one transaction.  An order has no concurrency token:  *)
(* an UPDATE names the row by its primary key only and carries a column    *)
(* only when the value differs from the one the context tracked when it    *)
(* loaded the row.                                                         *)
(***************************************************************************)
EXTENDS Naturals

CONSTANT Orders          \* the order ids the database hands out, one per row

VARIABLES status,        \* the status column of each order, or no row
          stale,         \* orders whose CreatedAt is behind the threshold
          notifications  \* rows of the notifications table, counted

tableVars == <<status, stale, notifications>>

EventTypes == {"OrderCreated", "OrderCompleted", "OrderExpired"}

OrderStatuses == {"pending", "processing", "completed", "expired"}

\* The id was not handed out yet, or its row is deleted: ids are not reused.
RowStates == OrderStatuses \cup {"unused", "deleted"}

TablesTypeOK ==
  /\ status \in [Orders -> RowStates]
  /\ stale \in SUBSET Orders
  /\ notifications \in [Orders -> [EventTypes -> Nat]]

Exists(o) == status[o] \in OrderStatuses

NoNotifications == [e \in EventTypes |-> 0]

TablesInit ==
  /\ status = [o \in Orders |-> "unused"]
  /\ stale = {}
  /\ notifications = [o \in Orders |-> NoNotifications]

-----------------------------------------------------------------------------

\* INSERT of a new order: the sequence gives an id that no row had before.
InsertOrder(o) ==
  /\ status[o] = "unused"
  /\ status' = [status EXCEPT ![o] = "pending"]
  /\ UNCHANGED <<stale, notifications>>

\* What the status column holds after an UPDATE by a context that loaded the
\* order as `tracked' and set it to `new': an unchanged column is not sent.
Overwritten(o, tracked, new) == IF tracked = new THEN status[o] ELSE new

\* Mutant of UpdateOrder: a row that is gone is inserted again.
UpsertOrder(o, tracked, new) ==
  /\ status' = [status EXCEPT ![o] = Overwritten(o, tracked, new)]
  /\ UNCHANGED <<stale, notifications>>

\* UPDATE of an order.  It is issued even when the status does not change,
\* for UpdatedAt always does, and fails when it finds no row.
UpdateOrder(o, tracked, new) ==
  /\ Exists(o)
  /\ status' = [status EXCEPT ![o] = Overwritten(o, tracked, new)]
  /\ UNCHANGED <<stale, notifications>>

\* UPDATE of several orders to one status in a transaction: one missing row
\* rolls all of them back.  Every one of them was loaded with another status.
UpdateOrders(batch, new) ==
  /\ \A o \in batch : Exists(o)
  /\ status' = [o \in Orders |-> IF o \in batch THEN new ELSE status[o]]
  /\ UNCHANGED <<stale, notifications>>

\* DELETE of an order, or of all orders of a user that is deleted; the
\* notifications that refer to them go with them.
DeleteOrders(gone) ==
  /\ \A o \in gone : Exists(o)
  /\ status' = [o \in Orders |-> IF o \in gone THEN "deleted" ELSE status[o]]
  /\ stale' = stale \ gone
  /\ notifications' = [o \in Orders |-> IF o \in gone THEN NoNotifications
                                                      ELSE notifications[o]]

\* INSERT of a notification: the foreign key refuses one without an order.
InsertNotification(o, e) ==
  /\ Exists(o)
  /\ notifications' = [notifications EXCEPT ![o][e] = @ + 1]
  /\ UNCHANGED <<status, stale>>

\* Time passes: the order is now older than OrderExpiryThresholdMinutes.
BecomeStale(o) ==
  /\ Exists(o) /\ o \notin stale
  /\ stale' = stale \cup {o}
  /\ UNCHANGED <<status, notifications>>

=============================================================================
