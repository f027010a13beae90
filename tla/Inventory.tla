------------------------------ MODULE Inventory ------------------------------
(***************************************************************************)
(* The stock of the products, which POST and DELETE of an order, the       *)
(* ProductsController and the cascade of a deleted user change.  A request *)
(* loads the products it needs one by one (FindAsync keeps what its        *)
(* DbContext loaded), computes new stocks in memory and saves them all in  *)
(* one transaction, as absolute values: nothing notices that another       *)
(* request saved in between.                                               *)
(*                                                                         *)
(*   OrdersController.Create     taking -> 201, or 400                     *)
(*   OrdersController.Delete     restoring -> 204                          *)
(*   ProductsController.Update   setting -> 200                            *)
(*                                                                         *)
(* The status of an order and the stock do not depend on each other (an    *)
(* expired order gives nothing back), so this module stands beside the     *)
(* order pipeline.  Prices are left out.                                   *)
(***************************************************************************)
EXTENDS Integers, FiniteSetsExt

CONSTANTS Products,      \* the product ids the database hands out, one per row
          Orders,        \* the order ids, likewise; an id is an int
          Users,         \* the users there are at the start
          Owner,         \* the user that the POST of each order names
          Requests,      \* the requests that may run at a time
          NoOrder,       \* what a request without an order works on
          Seeded,        \* the products there are at the start
          Carts,         \* what a POST may ask for: quantities by product
          Stocks,        \* what POST and PUT of a product may set
          MaxStock       \* the largest stock, 2^31 - 1 in the program

ASSUME OrdersAssumption == IsFiniteSet(Orders)
ASSUME OwnerAssumption == Owner \in [Orders -> Users]
ASSUME NoOrderAssumption == NoOrder \notin Orders
ASSUME MaxStockAssumption == MaxStock \in Nat
ASSUME SeededAssumption == Seeded \subseteq Products

\* The numbers of the program's int, those that CK_Product_Stock lets into the
\* stock column, and those that an order item may ask for.
Int32 == (-MaxStock - 1)..MaxStock
StockValues == 0..MaxStock
Amounts == 1..MaxStock

ByProduct(Values) == UNION {[S -> Values] : S \in SUBSET Products}

ASSUME StocksAssumption == Stocks \subseteq StockValues
ASSUME CartsAssumption == Carts \subseteq ByProduct(Amounts)

VARIABLES productRow,    \* whether a product has its row
          stock,         \* the stock column of each product
          orderRow,      \* whether an order has its row
          items,         \* the order_items of each order: quantity by product
          users,         \* the users that have their row
          request        \* the state of each request

vars == <<productRow, stock, orderRow, items, users, request>>

RowStates == {"unused", "present", "deleted"}

Nothing == [p \in {} |-> 0]

Free == [pc |-> "free", order |-> NoOrder, asked |-> Nothing,
         seen |-> Nothing, new |-> Nothing]

\* asked: the quantities of the order's items; seen, new: the stocks that the
\* request's DbContext loaded, and what it will save instead.
RequestStates ==
  [pc : {"free", "taking", "restoring", "setting"}, order : Orders \cup {NoOrder},
   asked : ByProduct(Amounts), seen : ByProduct(StockValues), new : ByProduct(Int32)]

TypeOK ==
  /\ productRow \in [Products -> RowStates]
  /\ stock \in [Products -> StockValues]
  /\ orderRow \in [Orders -> RowStates]
  /\ items \in [Orders -> ByProduct(Amounts)]
  /\ users \in SUBSET Users
  /\ request \in [Requests -> RequestStates]
  /\ \A r \in Requests : DOMAIN request[r].seen = DOMAIN request[r].new

Listed == {p \in Products : productRow[p] = "present"}

Init ==
  /\ productRow = [p \in Products |-> IF p \in Seeded THEN "present" ELSE "unused"]
  /\ stock \in [Products -> Stocks]
  /\ orderRow = [o \in Orders |-> "unused"]
  /\ items = [o \in Orders |-> Nothing]
  /\ users = Users
  /\ request = [r \in Requests |-> Free]

-----------------------------------------------------------------------------
(* Steps that requests share.                                              *)

Begin(r, pc, o, asked) ==
  /\ request[r].pc = "free"
  /\ request' = [request EXCEPT ![r] =
       [Free EXCEPT !.pc = pc, !.order = o, !.asked = asked]]
  /\ UNCHANGED <<productRow, stock, orderRow, items, users>>

Respond(r) == request' = [request EXCEPT ![r] = Free]

\* An answer of 400, 404 or 500: what the DbContext has changed is forgotten.
Refuse(r) ==
  /\ Respond(r)
  /\ UNCHANGED <<productRow, stock, orderRow, items, users>>

\* The products that a request has yet to load.
Awaited(r) == DOMAIN request[r].asked \ DOMAIN request[r].seen

With(f, p, n) == [q \in DOMAIN f \cup {p} |-> IF q = p THEN n ELSE f[q]]

\* FindAsync(p), and the new stock that the code gives the loaded product.
Load(r, p, new) ==
  /\ request' = [request EXCEPT ![r].seen = With(@, p, stock[p]),
                                ![r].new = With(@, p, new)]
  /\ UNCHANGED <<productRow, stock, orderRow, items, users>>

\* Mutant of CanSave: stock is not checked by the database.
CanSaveUnchecked(r) == DOMAIN request[r].new \subseteq Listed

\* Each UPDATE finds its row and meets CK_Product_Stock.
CanSave(r) ==
  /\ DOMAIN request[r].new \subseteq Listed
  /\ \A p \in DOMAIN request[r].new : request[r].new[p] >= 0

\* The stock column after the UPDATEs: a stock that is as loaded is not sent.
Saved(r) ==
  LET q == request[r] IN
  [p \in Products |-> IF p \in DOMAIN q.new /\ q.new[p] # q.seen[p]
                        THEN q.new[p] ELSE stock[p]]

\* Addition in 32-bit integers.
Sum32(a, b) == IF a + b > MaxStock THEN a + b - 2 * (MaxStock + 1) ELSE a + b

-----------------------------------------------------------------------------
(* POST /api/orders.  The id is the one that the database will give to the *)
(* order if it is saved.  A cart adds up the items of a product: the loop  *)
(* takes each from what the one before left.                               *)

BeginCreate(r, o, cart) ==
  /\ orderRow[o] = "unused" /\ \A q \in Requests : request[q].order # o
  /\ Owner[o] \in users
  /\ Begin(r, "taking", o, cart)

\* Mutant of TakeProduct: the stock is not compared with the quantity.
TakeUnchecked(r, p) ==
  /\ request[r].pc = "taking" /\ p \in Awaited(r) /\ p \in Listed
  /\ Load(r, p, stock[p] - request[r].asked[p])

TakeProduct(r, p) ==
  LET quantity == request[r].asked[p] IN
  /\ request[r].pc = "taking" /\ p \in Awaited(r) /\ p \in Listed
  /\ stock[p] >= quantity
  /\ Load(r, p, stock[p] - quantity)

\* 400: the product does not exist, or its stock is insufficient.
RefuseProduct(r) ==
  /\ request[r].pc = "taking"
  /\ \E p \in Awaited(r) : p \notin Listed \/ stock[p] < request[r].asked[p]
  /\ Refuse(r)

\* One transaction: the order, its items and the stocks.
SaveCreate(r) ==
  LET q == request[r] IN
  /\ q.pc = "taking" /\ Awaited(r) = {}
  /\ CanSave(r) /\ Owner[q.order] \in users
  /\ stock' = Saved(r)
  /\ orderRow' = [orderRow EXCEPT ![q.order] = "present"]
  /\ items' = [items EXCEPT ![q.order] = q.asked]
  /\ Respond(r)
  /\ UNCHANGED <<productRow, users>>

-----------------------------------------------------------------------------
(* DELETE /api/orders/{id}.                                                *)

BeginDelete(r, o) ==
  /\ orderRow[o] = "present"
  /\ Begin(r, "restoring", o, items[o])

RestoreProduct(r, p) ==
  /\ request[r].pc = "restoring" /\ p \in Awaited(r) /\ p \in Listed
  /\ Load(r, p, Sum32(stock[p], request[r].asked[p]))

\* Mutant of SaveDelete: that the order is gone does not stop the save.
SaveDeleteTwice(r) ==
  LET q == request[r] IN
  /\ q.pc = "restoring" /\ Awaited(r) \cap Listed = {}
  /\ CanSave(r)
  /\ stock' = Saved(r)
  /\ orderRow' = [orderRow EXCEPT ![q.order] = "deleted"]
  /\ items' = [items EXCEPT ![q.order] = Nothing]
  /\ Respond(r)
  /\ UNCHANGED <<productRow, users>>

\* A product that is not found is skipped.  The order must still be there.
SaveDelete(r) ==
  LET q == request[r] IN
  /\ q.pc = "restoring" /\ Awaited(r) \cap Listed = {}
  /\ CanSave(r) /\ orderRow[q.order] = "present"
  /\ stock' = Saved(r)
  /\ orderRow' = [orderRow EXCEPT ![q.order] = "deleted"]
  /\ items' = [items EXCEPT ![q.order] = Nothing]
  /\ Respond(r)
  /\ UNCHANGED <<productRow, users>>

-----------------------------------------------------------------------------
(* The ProductsController and the UsersController.                         *)

\* POST /api/products.
CreateProduct(p, n) ==
  /\ productRow[p] = "unused"
  /\ productRow' = [productRow EXCEPT ![p] = "present"]
  /\ stock' = [stock EXCEPT ![p] = n]
  /\ UNCHANGED <<orderRow, items, users, request>>

\* PUT /api/products/{id}: load, then save the stock that the client sent.
BeginSet(r, p, n) ==
  /\ request[r].pc = "free" /\ p \in Listed
  /\ request' = [request EXCEPT ![r] =
       [Free EXCEPT !.pc = "setting", !.seen = With(Nothing, p, stock[p]),
                    !.new = With(Nothing, p, n)]]
  /\ UNCHANGED <<productRow, stock, orderRow, items, users>>

SaveSet(r) ==
  /\ request[r].pc = "setting" /\ CanSave(r)
  /\ stock' = Saved(r)
  /\ Respond(r)
  /\ UNCHANGED <<productRow, orderRow, items, users>>

\* Mutant of DeleteProduct: ON DELETE RESTRICT is missing.
DeleteSoldProduct(p) ==
  /\ p \in Listed
  /\ productRow' = [productRow EXCEPT ![p] = "deleted"]
  /\ UNCHANGED <<stock, orderRow, items, users, request>>

\* DELETE /api/products/{id}: refused while an order has an item of it.
DeleteProduct(p) ==
  /\ p \in Listed
  /\ \A o \in Orders : p \notin DOMAIN items[o]
  /\ productRow' = [productRow EXCEPT ![p] = "deleted"]
  /\ UNCHANGED <<stock, orderRow, items, users, request>>

\* DELETE /api/users/{id}: the user's orders and their items go with it.
DeleteUser(u) ==
  LET orphans == {o \in Orders : orderRow[o] = "present" /\ Owner[o] = u} IN
  /\ u \in users
  /\ users' = users \ {u}
  /\ orderRow' = [o \in Orders |-> IF o \in orphans THEN "deleted" ELSE orderRow[o]]
  /\ items' = [o \in Orders |-> IF o \in orphans THEN Nothing ELSE items[o]]
  /\ UNCHANGED <<productRow, stock, request>>

\* The save is rolled back because a row it needs is gone or a stock is not
\* allowed, a call throws, or the process stops.
RequestFails(r) ==
  /\ request[r].pc # "free"
  /\ Refuse(r)

-----------------------------------------------------------------------------

CreateStep(r) ==
  \/ \E o \in Orders, cart \in Carts : BeginCreate(r, o, cart)
  \/ \E p \in Products : TakeProduct(r, p)
  \/ RefuseProduct(r)
  \/ SaveCreate(r)

DeleteStep(r) ==
  \/ \E o \in Orders : BeginDelete(r, o)
  \/ \E p \in Products : RestoreProduct(r, p)
  \/ SaveDelete(r)

ProductStep ==
  \/ \E p \in Products, n \in Stocks :
       CreateProduct(p, n) \/ \E r \in Requests : BeginSet(r, p, n)
  \/ \E r \in Requests : SaveSet(r)
  \/ \E p \in Products : DeleteProduct(p)

Next ==
  \/ \E r \in Requests : CreateStep(r) \/ DeleteStep(r) \/ RequestFails(r)
  \/ ProductStep
  \/ \E u \in Users : DeleteUser(u)

Spec == Init /\ [][Next]_vars

-----------------------------------------------------------------------------
(* Properties.                                                             *)

\* A foreign key never dangles, whatever was deleted between a request's
\* loads and its save.
ReferencesHold ==
  \A o \in Orders :
    /\ orderRow[o] = "present" => Owner[o] \in users
    /\ DOMAIN items[o] \subseteq Listed

\* The CHECK on the stock column is only ever met by a restore whose sum
\* does not fit into 32 bits; a POST has always checked before it takes.
OnlyOverflowIsNegative ==
  \A r \in Requests : \A p \in DOMAIN request[r].new :
    request[r].new[p] < 0 =>
      /\ request[r].pc = "restoring"
      /\ request[r].seen[p] + request[r].asked[p] > MaxStock

\* The units of a product on stock and in orders.
Units(p) ==
  stock[p] + MapThenSumSet(LAMBDA o : IF p \in DOMAIN items[o] THEN items[o][p] ELSE 0,
                           Orders)

Finishes(r) == request[r].pc # "free" /\ request'[r].pc = "free"

\* No step makes units appear or disappear, neither a second DELETE of an order
\* nor a save that is rolled back, except that a client sets the stock of a
\* product, a user is deleted with all orders, or a save overwrites a stock
\* that another request changed after it was loaded.
UnitsAreKept ==
  [][\A p \in Products :
       \/ Units(p)' = Units(p)
       \/ productRow'[p] # productRow[p]
       \/ users' # users
       \/ \E r \in Requests :
            /\ Finishes(r) /\ p \in DOMAIN request[r].seen
            /\ request[r].pc = "setting" \/ request[r].seen[p] # stock[p]]_vars

=============================================================================
