--------------------------- MODULE OrderLifecycle ---------------------------
(***************************************************************************)
(* What the customers of the shop see of their orders, and all that the    *)
(* services promise about them: no tables, messages or processes, only     *)
(* where an order stands, whether it was paid for, whether it was ever     *)
(* overdue, and what its customer was told.                                *)
(***************************************************************************)
CONSTANTS Orders,        \* the orders that there may be
          Edits          \* the stages that clients may put an order in

VARIABLES stage,         \* where an order stands
          paid,          \* the orders that a payment was taken for
          overdue,       \* the orders that were closed because of their age
          told           \* what each customer was told of an order that exists

vars == <<stage, paid, overdue, told>>

Stages == {"open", "done", "over"}
News == {"OrderCompleted", "OrderExpired"}

Exists(o) == stage[o] \in Stages

Init ==
  /\ stage = [o \in Orders |-> "none"]
  /\ paid = {} /\ overdue = {}
  /\ told = [o \in Orders |-> {}]

Place(o) ==
  /\ stage[o] = "none"
  /\ stage' = [stage EXCEPT ![o] = "open"]
  /\ UNCHANGED <<paid, overdue, told>>

\* A payment under way is taken even if the order is deleted meanwhile.
Pay(o) ==
  /\ stage[o] # "none"
  /\ paid' = paid \cup {o}
  /\ UNCHANGED <<stage, overdue, told>>

\* Only an order that was paid for is done, and it may be overdue by then.
Complete(o) ==
  /\ Exists(o) /\ o \in paid
  /\ stage' = [stage EXCEPT ![o] = "done"]
  /\ UNCHANGED <<paid, overdue, told>>

\* Orders are found overdue together.  One may be completed in between.
Expire(S) ==
  /\ S # {} /\ \A o \in S : Exists(o)
  /\ stage' = [o \in Orders |-> IF o \in S THEN "over" ELSE stage[o]]
  /\ overdue' = overdue \cup S
  /\ UNCHANGED <<paid, told>>

\* The work on a closed order begins, or begins again.
Reopen(o) ==
  /\ stage[o] \in {"done", "over"}
  /\ stage' = [stage EXCEPT ![o] = "open"]
  /\ UNCHANGED <<paid, overdue, told>>

\* A customer is told only what is true, and only of an order that exists.
Tell(o, news) ==
  /\ Exists(o)
  /\ news = "OrderCompleted" => o \in paid
  /\ news = "OrderExpired" => o \in overdue
  /\ told' = [told EXCEPT ![o] = @ \cup {news}]
  /\ UNCHANGED <<stage, paid, overdue>>

Edit(o) ==
  /\ Exists(o)
  /\ \E s \in Edits : stage' = [stage EXCEPT ![o] = s]
  /\ UNCHANGED <<paid, overdue, told>>

\* Orders go one by one or, with their customer, together; what the customer was
\* told goes with them.
Remove(S) ==
  /\ S # {} /\ \A o \in S : Exists(o)
  /\ stage' = [o \in Orders |-> IF o \in S THEN "gone" ELSE stage[o]]
  /\ told' = [o \in Orders |-> IF o \in S THEN {} ELSE told[o]]
  /\ UNCHANGED <<paid, overdue>>

Next ==
  \/ \E o \in Orders :
       \/ Place(o) \/ Pay(o) \/ Complete(o) \/ Reopen(o) \/ Edit(o)
       \/ \E news \in News : Tell(o, news)
  \/ \E S \in SUBSET Orders : Expire(S) \/ Remove(S)

Spec == Init /\ [][Next]_vars

=============================================================================
