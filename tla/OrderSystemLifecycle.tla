------------------------ MODULE OrderSystemLifecycle ------------------------
(***************************************************************************)
(* The order pipeline implements OrderLifecycle.                           *)
(***************************************************************************)
EXTENDS OrderSystem

StageOf(s) ==
  CASE s = "unused"                  -> "none"
    [] s \in {"pending", "processing"} -> "open"
    [] s = "completed"               -> "done"
    [] s = "expired"                 -> "over"
    [] s = "deleted"                 -> "gone"

Lifecycle ==
  INSTANCE OrderLifecycle WITH
    Edits   <- {StageOf(s) : s \in ClientEdits \cap OrderStatuses},
    stage   <- [o \in Orders |-> StageOf(status[o])],
    paid    <- {o \in Orders : charges[o] > 0},
    overdue <- {o \in Orders : expiries[o] > 0},
    told    <- [o \in Orders |->
                 {e \in {"OrderCompleted", "OrderExpired"} : notifications[o][e] > 0}]

\* Every step of every service, whatever else is under way, is one step in the
\* life of an order or no step at all: an order is completed only once it is
\* paid for, a customer is told only what has happened, and a save that comes
\* late does not bring back an order that was deleted.
ImplementsLifecycle == Lifecycle!Spec

=============================================================================
