--------------------------- MODULE InventoryProofs ---------------------------
(***************************************************************************)
(* Proofs about Inventory for any products, orders, users and requests: a  *)
(* stock is always a 32-bit number and never negative, only an overflow    *)
(* meets the database's CHECK, no reference dangles, and no units of a     *)
(* product are lost or made but where a stock is overwritten.              *)
(***************************************************************************)
EXTENDS Inventory, FiniteSetTheorems, TLAPS

-----------------------------------------------------------------------------
(* Numbers by product.                                                     *)

\* What it means to be a number by product, without the union.
LEMMA ByProductMeaning ==
  ASSUME NEW S, NEW f \in ByProduct(S)
  PROVE  /\ DOMAIN f \subseteq Products
         /\ \A p \in DOMAIN f : f[p] \in S
BY DEF ByProduct

\* Nothing is the number of no product.
LEMMA NothingIsByProduct ==
  ASSUME NEW S
  PROVE  Nothing \in ByProduct(S) /\ DOMAIN Nothing = {}
<1>1. Nothing \in [{} -> S]
  BY DEF Nothing
<1> QED
  BY <1>1 DEF ByProduct, Nothing

\* To add or change the number of one product.
LEMMA WithIsByProduct ==
  ASSUME NEW S, NEW f \in ByProduct(S), NEW p \in Products, NEW n \in S
  PROVE  With(f, p, n) \in ByProduct(S)
<1>1. /\ DOMAIN f \cup {p} \in SUBSET Products
      /\ \A q \in DOMAIN f : f[q] \in S
  BY ByProductMeaning
<1>2. With(f, p, n) \in [DOMAIN f \cup {p} -> S]
  BY <1>1 DEF With
<1> QED
  BY <1>1, <1>2 DEF ByProduct, With

\* A sum of two stocks is a 32-bit number; it is negative if it overflows.
LEMMA Sum32Range ==
  ASSUME NEW a \in StockValues, NEW b \in Amounts
  PROVE  /\ Sum32(a, b) \in Int32
         /\ Sum32(a, b) < 0 => a + b > MaxStock
BY MaxStockAssumption DEF Sum32, StockValues, Amounts, Int32

-----------------------------------------------------------------------------
(* The types of what the steps share.                                      *)

\* A free request is a typed request.
LEMMA FreeType == Free \in RequestStates /\ DOMAIN Free.seen = DOMAIN Free.new
BY NothingIsByProduct DEF Free, RequestStates

\* A request that begins is typed; it has loaded nothing.
LEMMA BeginKeepsTypes ==
  ASSUME TypeOK, NEW r \in Requests, NEW o \in Orders,
         NEW pc \in {"taking", "restoring"}, NEW asked \in ByProduct(Amounts),
         Begin(r, pc, o, asked)
  PROVE  TypeOK'
<1>1. /\ [Free EXCEPT !.pc = pc, !.order = o, !.asked = asked] \in RequestStates
      /\ DOMAIN Nothing = {}
  BY FreeType, NothingIsByProduct DEF RequestStates
<1> QED
  BY <1>1 DEF TypeOK, Begin, Free

\* A request that is over leaves the others typed.
LEMMA RespondKeepsTypes ==
  ASSUME TypeOK, NEW r \in Requests, Respond(r)
  PROVE  /\ request' \in [Requests -> RequestStates]
         /\ \A q \in Requests : DOMAIN request'[q].seen = DOMAIN request'[q].new
BY FreeType DEF TypeOK, Respond

\* What a request has loaded stays typed when one more product is loaded.
LEMMA LoadKeepsTypes ==
  ASSUME TypeOK, NEW r \in Requests, NEW p \in Products,
         NEW new \in Int32, Load(r, p, new)
  PROVE  TypeOK'
<1> DEFINE q == request[r]
           old == stock[p]
           f == q.seen
           g == q.new
           seen == With(f, p, old)
           news == With(g, p, new)
<1>1. q \in RequestStates /\ DOMAIN q.seen = DOMAIN q.new /\ old \in StockValues
  BY DEF TypeOK
<1>2. request' = [request EXCEPT ![r] = [q EXCEPT !.seen = seen, !.new = news]]
  BY DEF Load
<1> HIDE DEF q, old
<1>3. f \in ByProduct(StockValues) /\ g \in ByProduct(Int32) /\ DOMAIN f = DOMAIN g
  BY <1>1 DEF RequestStates
<1> HIDE DEF f, g
<1>4. seen \in ByProduct(StockValues)
  BY <1>1, <1>3, WithIsByProduct
<1>5. DOMAIN seen = DOMAIN f \cup {p}
  BY DEF seen, With
<1>6. news \in ByProduct(Int32)
  BY <1>3, WithIsByProduct
<1>7. DOMAIN news = DOMAIN g \cup {p}
  BY DEF news, With
<1> HIDE DEF seen, news
<1>8. [q EXCEPT !.seen = seen, !.new = news] \in RequestStates
  BY <1>1, <1>4, <1>6 DEF RequestStates
<1>9. request' \in [Requests -> RequestStates]
  BY <1>2, <1>8 DEF TypeOK
<1>10. \A s \in Requests : DOMAIN request'[s].seen = DOMAIN request'[s].new
  BY <1>1, <1>2, <1>3, <1>5, <1>7 DEF TypeOK, RequestStates
<1> QED
  BY <1>9, <1>10 DEF TypeOK, Load

\* The database accepts no stock out of range.
LEMMA SavedRange ==
  ASSUME TypeOK, NEW r \in Requests, CanSave(r)
  PROVE  Saved(r) \in [Products -> StockValues]
<1>1. request[r].new \in ByProduct(Int32)
  BY DEF TypeOK, RequestStates
<1>2. \A p \in DOMAIN request[r].new : request[r].new[p] \in StockValues
  BY <1>1, ByProductMeaning, MaxStockAssumption DEF CanSave, Int32, StockValues
<1> QED
  BY <1>2 DEF Saved, TypeOK

-----------------------------------------------------------------------------
(* Types.                                                                  *)

\* Each step of POST /api/orders keeps the types; its save because CanSave
\* lets no stock out of range through.
LEMMA CreateKeepsTypes ==
  ASSUME TypeOK, NEW r \in Requests, CreateStep(r)
  PROVE  TypeOK'
<1>1. CASE \E o \in Orders, cart \in Carts : BeginCreate(r, o, cart)
  BY <1>1, BeginKeepsTypes, CartsAssumption DEF BeginCreate
<1>2. ASSUME NEW p \in Products, TakeProduct(r, p)
      PROVE  TypeOK'
  <2>1. /\ request[r].asked \in ByProduct(Amounts)
        /\ p \in DOMAIN request[r].asked
    BY <1>2 DEF TypeOK, RequestStates, TakeProduct, Awaited
  <2>2. request[r].asked[p] \in Amounts /\ stock[p] \in StockValues
    BY <2>1, ByProductMeaning DEF TypeOK
  <2>3. stock[p] - request[r].asked[p] \in Int32
    BY <1>2, <2>2, MaxStockAssumption
       DEF TakeProduct, Amounts, StockValues, Int32
  <2> QED
    BY <1>2, <2>3, LoadKeepsTypes DEF TakeProduct
<1>3. CASE RefuseProduct(r)
  BY <1>3, RespondKeepsTypes DEF RefuseProduct, Refuse, TypeOK
<1>4. CASE SaveCreate(r)
  <2>1. stock' \in [Products -> StockValues]
    BY <1>4, SavedRange DEF SaveCreate
  <2>2. request[r] \in RequestStates
    BY DEF TypeOK
  <2>3. orderRow' \in [Orders -> RowStates]
    BY <1>4 DEF SaveCreate, TypeOK, RowStates
  <2>4. items' \in [Orders -> ByProduct(Amounts)]
    BY <1>4, <2>2 DEF SaveCreate, TypeOK, RequestStates
  <2> QED
    BY <1>4, <2>1, <2>3, <2>4, RespondKeepsTypes DEF SaveCreate, TypeOK
<1> QED
  BY <1>1, <1>2, <1>3, <1>4 DEF CreateStep

\* Each step of DELETE /api/orders/{id} keeps the types.
LEMMA DeleteKeepsTypes ==
  ASSUME TypeOK, NEW r \in Requests, DeleteStep(r)
  PROVE  TypeOK'
<1>1. ASSUME NEW o \in Orders, BeginDelete(r, o)
      PROVE  TypeOK'
  <2>1. items[o] \in ByProduct(Amounts)
    BY DEF TypeOK
  <2> QED
    BY <1>1, <2>1, BeginKeepsTypes DEF BeginDelete
<1>2. ASSUME NEW p \in Products, RestoreProduct(r, p)
      PROVE  TypeOK'
  <2>1. /\ request[r].asked \in ByProduct(Amounts)
        /\ p \in DOMAIN request[r].asked
    BY <1>2 DEF TypeOK, RequestStates, RestoreProduct, Awaited
  <2>2. request[r].asked[p] \in Amounts /\ stock[p] \in StockValues
    BY <2>1, ByProductMeaning DEF TypeOK
  <2>3. Sum32(stock[p], request[r].asked[p]) \in Int32
    BY <2>2, Sum32Range
  <2> QED
    BY <1>2, <2>3, LoadKeepsTypes DEF RestoreProduct
<1>3. CASE SaveDelete(r)
  <2>1. stock' \in [Products -> StockValues]
    BY <1>3, SavedRange DEF SaveDelete
  <2>2. orderRow' \in [Orders -> RowStates]
    BY <1>3 DEF SaveDelete, TypeOK, RowStates
  <2>3. items' \in [Orders -> ByProduct(Amounts)]
    BY <1>3, NothingIsByProduct DEF SaveDelete, TypeOK
  <2> QED
    BY <1>3, <2>1, <2>2, <2>3, RespondKeepsTypes DEF SaveDelete, TypeOK
<1> QED
  BY <1>1, <1>2, <1>3 DEF DeleteStep

\* Each step of the ProductsController keeps the types.
LEMMA ProductKeepsTypes ==
  ASSUME TypeOK, ProductStep
  PROVE  TypeOK'
<1>1. ASSUME NEW p \in Products, NEW n \in Stocks, CreateProduct(p, n)
      PROVE  TypeOK'
  BY <1>1, StocksAssumption DEF CreateProduct, TypeOK, RowStates
<1>2. ASSUME NEW p \in Products, NEW n \in Stocks, NEW r \in Requests,
             BeginSet(r, p, n)
      PROVE  TypeOK'
  <2> DEFINE old == stock[p]
             seen == With(Nothing, p, old)
             news == With(Nothing, p, n)
  <2>1. old \in StockValues /\ n \in Int32
    BY MaxStockAssumption, StocksAssumption DEF TypeOK, StockValues, Int32
  <2>2. request' = [request EXCEPT ![r] =
          [Free EXCEPT !.pc = "setting", !.seen = seen, !.new = news]]
    BY <1>2 DEF BeginSet
  <2> HIDE DEF old
  <2>3. seen \in ByProduct(StockValues)
    BY <2>1, WithIsByProduct, NothingIsByProduct
  <2>4. news \in ByProduct(Int32)
    BY <2>1, WithIsByProduct, NothingIsByProduct
  <2>5. DOMAIN seen = DOMAIN news
    BY DEF With
  <2> HIDE DEF seen, news
  <2>6. [Free EXCEPT !.pc = "setting", !.seen = seen, !.new = news]
          \in RequestStates
    BY <2>3, <2>4, FreeType DEF RequestStates
  <2>7. request' \in [Requests -> RequestStates]
    BY <2>2, <2>6 DEF TypeOK
  <2>8. \A s \in Requests : DOMAIN request'[s].seen = DOMAIN request'[s].new
    BY <2>2, <2>5 DEF TypeOK, Free
  <2> QED
    BY <1>2, <2>7, <2>8 DEF BeginSet, TypeOK
<1>3. ASSUME NEW r \in Requests, SaveSet(r)
      PROVE  TypeOK'
  BY <1>3, SavedRange, RespondKeepsTypes DEF SaveSet, TypeOK
<1>4. ASSUME NEW p \in Products, DeleteProduct(p)
      PROVE  TypeOK'
  BY <1>4 DEF DeleteProduct, TypeOK, RowStates
<1> QED
  BY <1>1, <1>2, <1>3, <1>4 DEF ProductStep

\* Every stock is a number of the stock column: a 32-bit number that is not
\* negative, whatever the requests saved over each other.
THEOREM InventoryTypes == Spec => []TypeOK
<1>1. Init => TypeOK
  BY FreeType, NothingIsByProduct, StocksAssumption
     DEF Init, TypeOK, RowStates
<1>2. TypeOK /\ [Next]_vars => TypeOK'
  <2> SUFFICES ASSUME TypeOK, [Next]_vars
               PROVE  TypeOK'
    OBVIOUS
  <2>1. ASSUME NEW r \in Requests, CreateStep(r) \/ DeleteStep(r)
        PROVE  TypeOK'
    BY <2>1, CreateKeepsTypes, DeleteKeepsTypes
  <2>2. ASSUME NEW r \in Requests, RequestFails(r)
        PROVE  TypeOK'
    BY <2>2, RespondKeepsTypes DEF RequestFails, Refuse, TypeOK
  <2>3. CASE ProductStep
    BY <2>3, ProductKeepsTypes
  <2>4. ASSUME NEW u \in Users, DeleteUser(u)
        PROVE  TypeOK'
    BY <2>4, NothingIsByProduct DEF DeleteUser, TypeOK, RowStates
  <2>5. CASE UNCHANGED vars
    BY <2>5 DEF vars, TypeOK
  <2> QED
    BY <2>1, <2>2, <2>3, <2>4, <2>5 DEF Next
<1> QED
  BY <1>1, <1>2, PTL DEF Spec

-----------------------------------------------------------------------------
(* The CHECK on the stock column.                                          *)

\* OnlyOverflowIsNegative, of one product in one request.
Fits(q, p) ==
  (p \in DOMAIN q.new /\ q.new[p] < 0) =>
    q.pc = "restoring" /\ q.seen[p] + q.asked[p] > MaxStock

\* To load a product whose new stock fits leaves all of them fitting.
LEMMA LoadKeepsFits ==
  ASSUME TypeOK, NEW r \in Requests, NEW p \in Products, NEW new,
         Load(r, p, new), \A s \in Requests, x \in Products : Fits(request[s], x),
         new < 0 => /\ request[r].pc = "restoring"
                    /\ stock[p] + request[r].asked[p] > MaxStock
  PROVE  \A s \in Requests, x \in Products : Fits(request'[s], x)
<1> SUFFICES ASSUME NEW s \in Requests, NEW x \in Products
             PROVE  Fits(request'[s], x)
  OBVIOUS
<1>1. CASE s # r
  <2>1. request'[s] = request[s]
    BY <1>1 DEF Load, TypeOK
  <2> QED
    BY <2>1
<1>2. CASE s = r
  <2> DEFINE q == request[r]
  <2>1. DOMAIN q.new = DOMAIN q.seen
    BY DEF TypeOK
  <2>2. /\ request'[r].pc = q.pc /\ request'[r].asked = q.asked
        /\ request'[r].seen = With(q.seen, p, stock[p])
        /\ request'[r].new = With(q.new, p, new)
    BY DEF Load, TypeOK, RequestStates
  <2>3. Fits(q, x)
    OBVIOUS
  <2> HIDE DEF q
  <2>4. CASE x = p
    BY <1>2, <2>2, <2>4 DEF Fits, With, q
  <2>5. CASE x # p
    BY <1>2, <2>1, <2>2, <2>3, <2>5 DEF Fits, With
  <2> QED
    BY <2>4, <2>5
<1> QED
  BY <1>1, <1>2

\* A request that gives up, or is served, has nothing left to save.
LEMMA RespondKeepsFits ==
  ASSUME TypeOK, NEW r \in Requests, Respond(r),
         \A s \in Requests, x \in Products : Fits(request[s], x)
  PROVE  \A s \in Requests, x \in Products : Fits(request'[s], x)
BY NothingIsByProduct DEF TypeOK, Respond, Fits, Free

\* The database's CHECK refuses only the DELETE of an order whose units no
\* longer fit into the stock; no POST relies on it, whatever the interleaving.
THEOREM CheckMeetsOverflowOnly == Spec => []OnlyOverflowIsNegative
<1> DEFINE Inv == \A s \in Requests, x \in Products : Fits(request[s], x)
<1>1. Init => Inv
  BY NothingIsByProduct DEF Init, Fits, Free
<1>2. TypeOK /\ Inv /\ [Next]_vars => Inv'
  <2> SUFFICES ASSUME TypeOK, Inv, [Next]_vars
               PROVE  Inv'
    OBVIOUS
  <2>1. ASSUME NEW r \in Requests, CreateStep(r)
        PROVE  Inv'
    <3>1. ASSUME NEW o \in Orders, NEW cart \in Carts, BeginCreate(r, o, cart)
          PROVE  Inv'
      BY <3>1, NothingIsByProduct DEF BeginCreate, Begin, TypeOK, Fits, Free
    <3>2. ASSUME NEW p \in Products, TakeProduct(r, p)
          PROVE  Inv'
      <4>1. request[r].asked[p] \in Amounts /\ stock[p] \in StockValues
        BY <3>2, ByProductMeaning
           DEF TypeOK, RequestStates, TakeProduct, Awaited
      <4>2. stock[p] - request[r].asked[p] >= 0
        BY <3>2, <4>1, MaxStockAssumption DEF TakeProduct, Amounts, StockValues
      <4>3. ~(stock[p] - request[r].asked[p] < 0)
        BY <4>1, <4>2, MaxStockAssumption DEF Amounts, StockValues
      <4> QED
        BY <3>2, <4>3, LoadKeepsFits DEF TakeProduct
    <3>3. CASE RefuseProduct(r) \/ SaveCreate(r)
      BY <3>3, RespondKeepsFits DEF RefuseProduct, Refuse, SaveCreate
    <3> QED
      BY <2>1, <3>1, <3>2, <3>3 DEF CreateStep
  <2>2. ASSUME NEW r \in Requests, DeleteStep(r)
        PROVE  Inv'
    <3>1. ASSUME NEW o \in Orders, BeginDelete(r, o)
          PROVE  Inv'
      BY <3>1, NothingIsByProduct DEF BeginDelete, Begin, TypeOK, Fits, Free
    <3>2. ASSUME NEW p \in Products, RestoreProduct(r, p)
          PROVE  Inv'
      <4>1. request[r].asked[p] \in Amounts /\ stock[p] \in StockValues
        BY <3>2, ByProductMeaning
           DEF TypeOK, RequestStates, RestoreProduct, Awaited
      <4> QED
        BY <3>2, <4>1, Sum32Range, LoadKeepsFits DEF RestoreProduct
    <3>3. CASE SaveDelete(r)
      BY <3>3, RespondKeepsFits DEF SaveDelete
    <3> QED
      BY <2>2, <3>1, <3>2, <3>3 DEF DeleteStep
  <2>3. ASSUME NEW r \in Requests, RequestFails(r) \/ SaveSet(r)
        PROVE  Inv'
    BY <2>3, RespondKeepsFits DEF RequestFails, Refuse, SaveSet
  <2>4. ASSUME NEW p \in Products, NEW n \in Stocks, NEW r \in Requests,
               BeginSet(r, p, n)
        PROVE  Inv'
    <3>1. ~(n < 0)
      BY StocksAssumption, MaxStockAssumption DEF StockValues
    <3> QED
      BY <2>4, <3>1 DEF BeginSet, TypeOK, Fits, Free, With, Nothing
  <2>5. CASE UNCHANGED request
    BY <2>5
  <2> QED
    BY <2>1, <2>2, <2>3, <2>4, <2>5
       DEF Next, ProductStep, CreateProduct, DeleteProduct, DeleteUser, vars
<1>3. TypeOK /\ Inv => OnlyOverflowIsNegative
  BY ByProductMeaning DEF OnlyOverflowIsNegative, Fits, TypeOK, RequestStates
<1> QED
  BY <1>1, <1>2, <1>3, InventoryTypes, PTL DEF Spec

-----------------------------------------------------------------------------
(* References.                                                             *)

\* No order is left without its user and no order item without its product,
\* whatever was deleted while a request was between its loads and its save.
THEOREM ReferencesNeverDangle == Spec => []ReferencesHold
<1>1. Init => ReferencesHold
  BY OwnerAssumption, NothingIsByProduct DEF Init, ReferencesHold
<1>2. TypeOK /\ ReferencesHold /\ [Next]_vars => ReferencesHold'
  <2> SUFFICES ASSUME TypeOK, ReferencesHold, [Next]_vars
               PROVE  ReferencesHold'
    OBVIOUS
  <2>1. ASSUME UNCHANGED <<productRow, orderRow, items, users>>
        PROVE  ReferencesHold'
    BY <2>1 DEF ReferencesHold, Listed
  <2>2. ASSUME NEW r \in Requests, SaveCreate(r)
        PROVE  ReferencesHold'
    <3>1. DOMAIN request[r].asked \subseteq Listed
      BY <2>2 DEF SaveCreate, Awaited, CanSave, TypeOK
    <3> QED
      BY <2>2, <3>1 DEF SaveCreate, ReferencesHold, Listed, TypeOK
  <2>3. ASSUME NEW r \in Requests, SaveDelete(r)
        PROVE  ReferencesHold'
    BY <2>3, NothingIsByProduct DEF SaveDelete, ReferencesHold, Listed, TypeOK
  <2>4. ASSUME NEW p \in Products, NEW n \in Stocks, CreateProduct(p, n)
        PROVE  ReferencesHold'
    BY <2>4 DEF CreateProduct, ReferencesHold, Listed, TypeOK
  <2>5. ASSUME NEW p \in Products, DeleteProduct(p)
        PROVE  ReferencesHold'
    BY <2>5 DEF DeleteProduct, ReferencesHold, Listed, TypeOK
  <2>6. ASSUME NEW u \in Users, DeleteUser(u)
        PROVE  ReferencesHold'
    BY <2>6, NothingIsByProduct DEF DeleteUser, ReferencesHold, Listed, TypeOK
  <2> QED
    BY <2>1, <2>2, <2>3, <2>4, <2>5, <2>6
       DEF Next, CreateStep, DeleteStep, ProductStep, BeginCreate, BeginDelete,
           Begin, TakeProduct, RestoreProduct, Load, RefuseProduct, RequestFails,
           Refuse, BeginSet, SaveSet, vars
<1> QED
  BY <1>1, <1>2, InventoryTypes, PTL DEF Spec

-----------------------------------------------------------------------------
(* Sums over finite sets.                                                  *)

\* The element that a fold over a set takes first.
Pick(S) == CHOOSE x \in S : TRUE

\* f[s] is the sum of g over s, for each s \subseteq S; and for those of at most
\* n elements.
SumsBy(f, g, S) ==
  f = [s \in SUBSET S |-> IF s = {} THEN 0 ELSE g[Pick(s)] + f[s \ {Pick(s)}]]

SumsUpTo(f, g, S, n) ==
  \A s \in SUBSET S : Cardinality(s) <= n =>
    f[s] = IF s = {} THEN 0 ELSE g[Pick(s)] + f[s \ {Pick(s)}]

\* The order of the naturals is well-founded.
LEMMA NaturalsAreWellFounded ==
  \E R : IsWellFoundedOn(R, Nat) /\ \A m, k \in Nat : k < m => <<k, m>> \in R
<1>1. IsWellFoundedOn(OpToRel(<, Nat), Nat)
  BY NatLessThanWellFounded
<1>2. \A m, k \in Nat : k < m => <<k, m>> \in OpToRel(<, Nat)
  BY DEF OpToRel
<1> QED
  BY <1>1, <1>2, Zenon

\* A set of naturals that is not empty has a least member.  What holds of every
\* finite set is proved from this: there is no least counterexample.
LEMMA LeastNumber ==
  ASSUME NEW T, T \subseteq Nat, T # {}
  PROVE  \E m \in T : \A k \in T : m <= k
<1>1. PICK R : IsWellFoundedOn(R, Nat) /\ \A m, k \in Nat : k < m => <<k, m>> \in R
  BY NaturalsAreWellFounded
<1>2. PICK m \in T : \A k \in T : <<k, m>> \notin R
  BY <1>1, WFMin
<1>3. ASSUME NEW k \in T PROVE m <= k
  <2>1. m \in Nat /\ k \in Nat
    OBVIOUS
  <2>2. ~(k < m)
    BY <1>1, <1>2, <2>1, Zenon
  <2> QED
    BY <2>1, <2>2
<1> QED
  BY <1>3

\* A finite set loses one element with the one that is taken.
LEMMA WithoutPick ==
  ASSUME NEW S, IsFiniteSet(S)
  PROVE  \A s \in SUBSET S :
           /\ Cardinality(s) \in Nat
           /\ Cardinality(s) = 0 <=> s = {}
           /\ s # {} => /\ Pick(s) \in s /\ Pick(s) \in S
                        /\ s \ {Pick(s)} \in SUBSET S
                        /\ Cardinality(s \ {Pick(s)}) = Cardinality(s) - 1
<1> TAKE s \in SUBSET S
<1>1. IsFiniteSet(s) /\ Cardinality(s) \in Nat
  BY FS_Subset, FS_CardinalityType
<1>2. Cardinality(s) = 0 <=> s = {}
  BY <1>1, FS_EmptySet
<1>3. s # {} => Pick(s) \in s
  BY DEF Pick
<1>4. s # {} => Cardinality(s \ {Pick(s)}) = Cardinality(s) - 1
  BY <1>1, <1>3, FS_RemoveElement
<1> QED
  BY <1>1, <1>2, <1>3, <1>4

\* What holds of the empty set, and of a set if of the set without the element
\* that is taken, holds of all parts of a finite set.
LEMMA SubsetInduction ==
  ASSUME NEW S, IsFiniteSet(S), NEW Good, {} \in Good,
         \A s \in SUBSET S : s # {} /\ s \ {Pick(s)} \in Good => s \in Good
  PROVE  \A s \in SUBSET S : s \in Good
<1> DEFINE bad == {Cardinality(s) : s \in (SUBSET S) \ Good}
<1>0. \A s \in SUBSET S :
        /\ Cardinality(s) \in Nat
        /\ s # {} => /\ s \ {Pick(s)} \in SUBSET S
                     /\ Cardinality(s \ {Pick(s)}) = Cardinality(s) - 1
  BY WithoutPick, Zenon
<1> SUFFICES ASSUME bad # {} PROVE FALSE
  OBVIOUS
<1>1. bad \subseteq Nat
  <2>1. ASSUME NEW s \in SUBSET S
        PROVE  Cardinality(s) \in Nat
    BY <1>0, Zenon
  <2> QED
    BY <2>1
<1>2. PICK m \in bad : \A k \in bad : m <= k
  BY <1>1, LeastNumber
<1>3. PICK s \in (SUBSET S) \ Good : m = Cardinality(s)
  BY <1>2
<1>4. s # {} /\ s \ {Pick(s)} \notin Good
  BY <1>3
<1>5. Cardinality(s \ {Pick(s)}) \in bad
  BY <1>0, <1>3, <1>4
<1>6. Cardinality(s \ {Pick(s)}) = m - 1 /\ m \in Nat
  BY <1>0, <1>1, <1>3, <1>4
<1> QED
  BY <1>2, <1>5, <1>6

\* There are sums over the parts of up to n elements.
LEMMA PartialSumsExist ==
  ASSUME NEW S, IsFiniteSet(S), NEW g \in [S -> Int]
  PROVE  \A n \in Nat : \E f \in [SUBSET S -> Int] : SumsUpTo(f, g, S, n)
<1> DEFINE bad == {k \in Nat : ~ \E f \in [SUBSET S -> Int] : SumsUpTo(f, g, S, k)}
<1>0. \A s \in SUBSET S :
        /\ Cardinality(s) \in Nat
        /\ Cardinality(s) = 0 <=> s = {}
        /\ s # {} => /\ Pick(s) \in S
                     /\ s \ {Pick(s)} \in SUBSET S
                     /\ Cardinality(s \ {Pick(s)}) = Cardinality(s) - 1
  BY WithoutPick, Zenon
<1>1. /\ bad \subseteq Nat
      /\ \A k \in Nat : k \notin bad <=> \E f \in [SUBSET S -> Int] : SumsUpTo(f, g, S, k)
  OBVIOUS
<1> HIDE DEF bad
<1> SUFFICES ASSUME bad # {} PROVE FALSE
  BY <1>1
<1>2. PICK m \in bad : \A k \in bad : m <= k
  BY <1>1, LeastNumber
<1>3. CASE m = 0
  <2> DEFINE f == [s \in SUBSET S |-> 0]
  <2>1. ASSUME NEW s \in SUBSET S, Cardinality(s) <= 0
        PROVE  s = {}
    <3>1. Cardinality(s) \in Nat
      BY <1>0, Zenon
    <3>2. Cardinality(s) = 0
      BY <2>1, <3>1
    <3> QED
      BY <1>0, <3>2, Zenon
  <2>2. f \in [SUBSET S -> Int] /\ SumsUpTo(f, g, S, 0)
    BY <2>1 DEF SumsUpTo
  <2> QED
    BY <1>1, <1>3, <2>2
<1>4. CASE m # 0
  <2>1. m \in Nat /\ m - 1 \in Nat /\ m - 1 < m
    BY <1>1, <1>4
  <2>2. m - 1 \notin bad
    BY <1>2, <2>1
  <2>3. PICK f \in [SUBSET S -> Int] : SumsUpTo(f, g, S, m - 1)
    BY <1>1, <2>1, <2>2
  <2> DEFINE h == [s \in SUBSET S |->
                     IF s = {} THEN 0 ELSE g[Pick(s)] + f[s \ {Pick(s)}]]
  <2>4. h \in [SUBSET S -> Int]
    <3>1. ASSUME NEW s \in SUBSET S, s # {}
          PROVE  g[Pick(s)] \in Int /\ f[s \ {Pick(s)}] \in Int
      <4>1. Pick(s) \in S /\ s \ {Pick(s)} \in SUBSET S
        BY <1>0, <3>1, Zenon
      <4> QED
        BY <4>1
    <3> QED
      BY <3>1
  <2>5. \A s \in SUBSET S : Cardinality(s) <= m - 1 => h[s] = f[s]
    BY <2>3 DEF SumsUpTo
  <2>6. ASSUME NEW s \in SUBSET S, Cardinality(s) <= m, s # {}
        PROVE  h[s] = g[Pick(s)] + h[s \ {Pick(s)}]
    <3>1. /\ s \ {Pick(s)} \in SUBSET S
          /\ Cardinality(s \ {Pick(s)}) <= m - 1
      BY <1>0, <2>1, <2>6
    <3>2. h[s \ {Pick(s)}] = f[s \ {Pick(s)}]
      BY <2>5, <3>1
    <3> QED
      BY <2>6, <3>2
  <2>7. SumsUpTo(h, g, S, m)
    BY <2>6 DEF SumsUpTo
  <2> QED
    BY <1>1, <2>1, <2>4, <2>7
<1> QED
  BY <1>3, <1>4

\* There are sums over all parts of a finite set.
LEMMA SumsExist ==
  ASSUME NEW S, IsFiniteSet(S), NEW g \in [S -> Int]
  PROVE  \E f : SumsBy(f, g, S)
<1>1. Cardinality(S) \in Nat
  BY FS_CardinalityType
<1>2. PICK f \in [SUBSET S -> Int] : SumsUpTo(f, g, S, Cardinality(S))
  BY <1>1, PartialSumsExist
<1>3. \A s \in SUBSET S : Cardinality(s) <= Cardinality(S)
  BY FS_Subset
<1> QED
  BY <1>2, <1>3 DEF SumsBy, SumsUpTo

\* If two functions differ at o only, so do their sums, and by as much.
LEMMA SumsDiffer ==
  ASSUME NEW S, IsFiniteSet(S), NEW g \in [S -> Int], NEW h \in [S -> Int],
         NEW o \in S, \A x \in S \ {o} : h[x] = g[x],
         NEW a, NEW b, SumsBy(a, g, S), SumsBy(b, h, S)
  PROVE  /\ a[S] \in Int /\ b[S] \in Int
         /\ b[S] - a[S] = h[o] - g[o]
<1> DEFINE good == {s \in SUBSET S :
                      /\ a[s] \in Int
                      /\ b[s] = a[s] + (IF o \in s THEN h[o] - g[o] ELSE 0)}
<1>1. {} \in good
  BY DEF SumsBy
<1>2. ASSUME NEW s \in SUBSET S, s # {}, s \ {Pick(s)} \in good
      PROVE  s \in good
  <2>1. /\ a[s] = g[Pick(s)] + a[s \ {Pick(s)}]
        /\ b[s] = h[Pick(s)] + b[s \ {Pick(s)}]
    BY <1>2 DEF SumsBy
  <2>2. Pick(s) \in s /\ Pick(s) \in S
    BY <1>2, WithoutPick
  <2>3. CASE Pick(s) = o
    BY <1>2, <2>1, <2>2, <2>3
  <2>4. CASE Pick(s) # o
    BY <1>2, <2>1, <2>2, <2>4
  <2> QED
    BY <2>3, <2>4
<1> HIDE DEF good
<1>3. \A s \in SUBSET S : s \in good
  BY <1>1, <1>2, SubsetInduction
<1>4. S \in good
  BY <1>3
<1> QED
  BY <1>4 DEF good

\* The units of product p in each order.
InOrders(p) == [o \in Orders |-> IF p \in DOMAIN items[o] THEN items[o][p] ELSE 0]

\* The fold in Units is such a sum.
LEMMA UnitsAreSums ==
  ASSUME IsFiniteSet(Orders), NEW p, InOrders(p) \in [Orders -> Int]
  PROVE  \E a : SumsBy(a, InOrders(p), Orders) /\ Units(p) = stock[p] + a[Orders]
<1> DEFINE Iterates(f) ==
             f = [s \in SUBSET Orders |->
                   IF s = {} THEN 0
                   ELSE (IF p \in DOMAIN items[Pick(s)] THEN items[Pick(s)][p] ELSE 0)
                          + f[s \ {Pick(s)}]]
           a == CHOOSE f : Iterates(f)
<1>1. Units(p) = stock[p] + a[Orders]
  BY DEF Units, MapThenSumSet, MapThenFoldSet, Pick
<1>2. \A s \in SUBSET Orders : s # {} => Pick(s) \in Orders
  BY DEF Pick
<1>3. \A f : Iterates(f) <=> SumsBy(f, InOrders(p), Orders)
  BY <1>2 DEF SumsBy, InOrders
<1> HIDE DEF Iterates
<1>4. \E f : SumsBy(f, InOrders(p), Orders)
  BY SumsExist
<1>6. \E f : Iterates(f)
  BY <1>3, <1>4, Zenon
<1>5. Iterates(a)
  BY <1>6, Zenon
<1> QED
  BY <1>1, <1>3, <1>5, Zenon

\* The same after a step.
LEMMA NextUnitsAreSums ==
  ASSUME IsFiniteSet(Orders), NEW p, InOrders(p)' \in [Orders -> Int]
  PROVE  \E a : SumsBy(a, InOrders(p)', Orders) /\ Units(p)' = stock'[p] + a[Orders]
<1> DEFINE Iterates(f) ==
             f = [s \in SUBSET Orders |->
                   IF s = {} THEN 0
                   ELSE (IF p \in DOMAIN items'[Pick(s)] THEN items'[Pick(s)][p] ELSE 0)
                          + f[s \ {Pick(s)}]]
           a == CHOOSE f : Iterates(f)
<1>1. Units(p)' = stock'[p] + a[Orders]
  BY DEF Units, MapThenSumSet, MapThenFoldSet, Pick
<1>2. \A s \in SUBSET Orders : s # {} => Pick(s) \in Orders
  BY DEF Pick
<1>3. \A f : Iterates(f) <=> SumsBy(f, InOrders(p)', Orders)
  BY <1>2 DEF SumsBy, InOrders
<1> HIDE DEF Iterates
<1>4. \E f : SumsBy(f, InOrders(p)', Orders)
  BY SumsExist
<1>6. \E f : Iterates(f)
  BY <1>3, <1>4, Zenon
<1>5. Iterates(a)
  BY <1>6, Zenon
<1> QED
  BY <1>1, <1>3, <1>5, Zenon

-----------------------------------------------------------------------------
(* What the requests know of the orders they work on.                      *)

\* A POST holds an id that no row and no other request has, and has computed
\* the stocks it loaded less what it asks for.
Takes(q) ==
  q.pc = "taking" =>
    /\ q.order \in Orders /\ orderRow[q.order] = "unused"
    /\ DOMAIN q.new \subseteq DOMAIN q.asked
    /\ \A p \in DOMAIN q.new : q.new[p] = q.seen[p] - q.asked[p]

TakesAlone(r) ==
  request[r].pc = "taking" =>
    \A s \in Requests \ {r} : request[s].order # request[r].order

\* A DELETE knows the items of its order, as long as the order is there, and
\* has computed the stocks it loaded and what the items give back.
Restores(q) ==
  q.pc = "restoring" =>
    /\ q.order \in Orders
    /\ orderRow[q.order] = "present" => items[q.order] = q.asked
    /\ DOMAIN q.new \subseteq DOMAIN q.asked
    /\ \A p \in DOMAIN q.new : q.new[p] = Sum32(q.seen[p], q.asked[p])

KeepInv ==
  /\ \A o \in Orders : orderRow[o] # "present" => items[o] = Nothing
  /\ \A r \in Requests :
       Takes(request[r]) /\ TakesAlone(r) /\ Restores(request[r])

\* A step of one request that leaves the rows alone, and its order as it is or
\* gives it up.
LEMMA OwnStepKeeps ==
  ASSUME TypeOK, KeepInv, NEW r \in Requests, NEW q,
         request' = [request EXCEPT ![r] = q],
         UNCHANGED <<orderRow, items>>,
         q.pc = "taking" => request[r].pc = "taking",
         q.order = request[r].order \/ q.order \notin Orders,
         Takes(q), Restores(q)
  PROVE  KeepInv'
<1>1. \A o \in Orders : (orderRow[o] # "present" => items[o] = Nothing)'
  BY DEF KeepInv
<1>2. request'[r] = q /\ \A s \in Requests \ {r} : request'[s] = request[s]
  BY DEF TypeOK
<1>3. ASSUME NEW s \in Requests
      PROVE  Takes(request[s])' /\ Restores(request[s])'
  <2>1. CASE s = r
    BY <1>2, <2>1 DEF Takes, Restores
  <2>2. CASE s # r
    BY <1>2, <2>2 DEF KeepInv, Takes, Restores
  <2> QED
    BY <2>1, <2>2
<1>4. ASSUME NEW s \in Requests, request'[s].pc = "taking",
             NEW t \in Requests \ {s}
      PROVE  request'[t].order # request'[s].order
  <2>1. /\ request[s].pc = "taking"
        /\ request[t].order # request[s].order
        /\ request[s].order \in Orders
    BY <1>2, <1>4 DEF KeepInv, TakesAlone, Takes
  <2>2. CASE s = r
    <3>1. request'[s].order = request[s].order
      <4>1. request'[s].order \in Orders
        BY <1>3, <1>4 DEF Takes
      <4> QED
        BY <1>2, <2>2, <4>1
    <3> QED
      BY <1>2, <2>1, <2>2, <3>1
  <2>3. CASE s # r
    BY <1>2, <2>1, <2>3
  <2> QED
    BY <2>2, <2>3
<1> QED
  BY <1>1, <1>3, <1>4 DEF KeepInv, TakesAlone

\* A request that is over, where the rows stay.
LEMMA RefuseKeeps ==
  ASSUME TypeOK, KeepInv, NEW r \in Requests, Respond(r),
         UNCHANGED <<orderRow, items>>
  PROVE  KeepInv'
<1>1. Free.pc = "free" /\ Free.order \notin Orders
  BY NoOrderAssumption DEF Free
<1>2. Takes(Free) /\ Restores(Free)
  BY <1>1 DEF Takes, Restores
<1> QED
  BY <1>1, <1>2, OwnStepKeeps DEF Respond

\* A product that is loaded.
LEMMA LoadKeeps ==
  ASSUME TypeOK, KeepInv, NEW r \in Requests, NEW p \in Products, NEW new,
         p \in DOMAIN request[r].asked, Load(r, p, new),
         request[r].pc = "taking" => new = stock[p] - request[r].asked[p],
         request[r].pc = "restoring" => new = Sum32(stock[p], request[r].asked[p])
  PROVE  KeepInv'
<1> DEFINE q == request[r]
           old == stock[p]
           seen == With(q.seen, p, old)
           news == With(q.new, p, new)
           next == [q EXCEPT !.seen = seen, !.new = news]
<1>1. q \in RequestStates /\ DOMAIN q.seen = DOMAIN q.new
  BY DEF TypeOK
<1>2. request' = [request EXCEPT ![r] = next] /\ UNCHANGED <<orderRow, items>>
  BY DEF Load
<1>3. /\ DOMAIN news = DOMAIN q.new \cup {p}
      /\ news[p] = new /\ seen[p] = old
      /\ \A x \in DOMAIN q.new \ {p} : news[x] = q.new[x] /\ seen[x] = q.seen[x]
  BY <1>1 DEF With
<1>4. Takes(q) /\ Restores(q)
  BY DEF KeepInv
<1>5. /\ q.pc = "taking" => new = old - q.asked[p]
      /\ q.pc = "restoring" => new = Sum32(old, q.asked[p])
      /\ p \in DOMAIN q.asked
  OBVIOUS
<1> HIDE DEF q, old, seen, news
<1>6. /\ next.pc = q.pc /\ next.order = q.order /\ next.asked = q.asked
      /\ next.seen = seen /\ next.new = news
  BY <1>1 DEF RequestStates
<1> HIDE DEF next
<1>7. Takes(next)
  BY <1>2, <1>3, <1>4, <1>5, <1>6 DEF Takes
<1>8. Restores(next)
  BY <1>2, <1>3, <1>4, <1>5, <1>6 DEF Restores
<1> QED
  BY <1>2, <1>6, <1>7, <1>8, OwnStepKeeps DEF q

\* A request that begins.
LEMMA BeginKeeps ==
  ASSUME TypeOK, KeepInv, NEW r \in Requests, NEW o \in Orders,
         NEW pc \in {"taking", "restoring"}, NEW asked, Begin(r, pc, o, asked),
         pc = "taking" => /\ orderRow[o] = "unused"
                          /\ \A s \in Requests : request[s].order # o,
         pc = "restoring" => orderRow[o] = "present" /\ asked = items[o]
  PROVE  KeepInv'
<1> DEFINE q == [Free EXCEPT !.pc = pc, !.order = o, !.asked = asked]
<1>1. request' = [request EXCEPT ![r] = q] /\ UNCHANGED <<orderRow, items>>
  BY DEF Begin
<1>2. /\ q.pc = pc /\ q.order = o /\ q.asked = asked
      /\ DOMAIN q.new = {}
  BY NothingIsByProduct DEF Free
<1> HIDE DEF q
<1>3. Takes(q) /\ Restores(q)
  BY <1>2 DEF Takes, Restores
<1>4. request'[r] = q /\ \A s \in Requests \ {r} : request'[s] = request[s]
  BY <1>1 DEF TypeOK
<1>5. \A x \in Orders : (orderRow[x] # "present" => items[x] = Nothing)'
  BY <1>1 DEF KeepInv
<1>6. ASSUME NEW s \in Requests
      PROVE  Takes(request[s])' /\ Restores(request[s])'
  <2>1. CASE s = r
    BY <1>1, <1>3, <1>4, <2>1 DEF Takes, Restores
  <2>2. CASE s # r
    BY <1>1, <1>4, <2>2 DEF KeepInv, Takes, Restores
  <2> QED
    BY <2>1, <2>2
<1>7. ASSUME NEW s \in Requests, request'[s].pc = "taking",
             NEW t \in Requests \ {s}
      PROVE  request'[t].order # request'[s].order
  <2>1. CASE s = r
    BY <1>2, <1>4, <1>7, <2>1
  <2>2. CASE s # r
    <3>1. /\ request[s].order \in Orders /\ orderRow[request[s].order] = "unused"
          /\ request[t].order # request[s].order
      BY <1>4, <1>7, <2>2 DEF KeepInv, Takes, TakesAlone
    <3>2. request[s].order # o
      BY <3>1
    <3> QED
      BY <1>2, <1>4, <2>2, <3>1, <3>2
  <2> QED
    BY <2>1, <2>2
<1> QED
  BY <1>5, <1>6, <1>7 DEF KeepInv, TakesAlone

\* A step that changes the rows, of a request that ends with it.
LEMMA SaveKeeps ==
  ASSUME TypeOK, KeepInv, NEW r \in Requests, Respond(r), NEW o \in Orders,
         \A x \in Orders \ {o} : orderRow'[x] = orderRow[x] /\ items'[x] = items[x],
         orderRow'[o] # "present" => items'[o] = Nothing,
         \A s \in Requests \ {r} :
           /\ ~(request[s].pc = "taking" /\ request[s].order = o)
           /\ request[s].pc = "restoring" /\ request[s].order = o
                => orderRow'[o] # "present"
  PROVE  KeepInv'
<1>1. request'[r] = Free /\ \A s \in Requests \ {r} : request'[s] = request[s]
  BY DEF TypeOK, Respond
<1>2. Free.pc = "free" /\ Free.order \notin Orders
  BY NoOrderAssumption DEF Free
<1>3. \A x \in Orders : (orderRow[x] # "present" => items[x] = Nothing)'
  BY DEF KeepInv
<1>4. ASSUME NEW s \in Requests
      PROVE  Takes(request[s])' /\ Restores(request[s])'
  <2>1. CASE s = r
    BY <1>1, <1>2, <2>1 DEF Takes, Restores
  <2>2. CASE s # r
    BY <1>1, <2>2 DEF KeepInv, Takes, Restores
  <2> QED
    BY <2>1, <2>2
<1>5. ASSUME NEW s \in Requests, request'[s].pc = "taking",
             NEW t \in Requests \ {s}
      PROVE  request'[t].order # request'[s].order
  <2>1. s # r
    BY <1>1, <1>2, <1>5
  <2>2. request[t].order # request[s].order /\ request[s].order \in Orders
    BY <1>1, <1>5, <2>1 DEF KeepInv, Takes, TakesAlone
  <2> QED
    BY <1>1, <1>2, <2>1, <2>2
<1> QED
  BY <1>3, <1>4, <1>5 DEF KeepInv, TakesAlone

\* Each step keeps what the requests know.
LEMMA KeepStep ==
  ASSUME TypeOK, KeepInv, [Next]_vars
  PROVE  KeepInv'
<1>1. ASSUME NEW r \in Requests, CreateStep(r)
      PROVE  KeepInv'
  <2>1. ASSUME NEW o \in Orders, NEW cart \in Carts, BeginCreate(r, o, cart)
        PROVE  KeepInv'
    BY <2>1, BeginKeeps DEF BeginCreate
  <2>2. ASSUME NEW p \in Products, TakeProduct(r, p)
        PROVE  KeepInv'
    BY <2>2, LoadKeeps DEF TakeProduct, Awaited
  <2>3. CASE RefuseProduct(r)
    BY <2>3, RefuseKeeps DEF RefuseProduct, Refuse
  <2>4. CASE SaveCreate(r)
    <3> DEFINE o == request[r].order
    <3>1. /\ o \in Orders /\ orderRow[o] = "unused"
          /\ \A s \in Requests \ {r} : request[s].order # o
      BY <2>4 DEF SaveCreate, KeepInv, Takes, TakesAlone
    <3>2. /\ Respond(r) /\ orderRow'[o] = "present"
          /\ \A x \in Orders \ {o} : orderRow'[x] = orderRow[x] /\ items'[x] = items[x]
      BY <2>4, <3>1 DEF SaveCreate, TypeOK
    <3> HIDE DEF o
    <3> QED
      BY <3>1, <3>2, SaveKeeps
  <2> QED
    BY <1>1, <2>1, <2>2, <2>3, <2>4 DEF CreateStep
<1>2. ASSUME NEW r \in Requests, DeleteStep(r)
      PROVE  KeepInv'
  <2>1. ASSUME NEW o \in Orders, BeginDelete(r, o)
        PROVE  KeepInv'
    BY <2>1, BeginKeeps DEF BeginDelete
  <2>2. ASSUME NEW p \in Products, RestoreProduct(r, p)
        PROVE  KeepInv'
    BY <2>2, LoadKeeps DEF RestoreProduct, Awaited
  <2>3. CASE SaveDelete(r)
    <3> DEFINE o == request[r].order
    <3>1. /\ o \in Orders /\ orderRow[o] = "present"
          /\ \A s \in Requests : request[s].pc = "taking" => request[s].order # o
      BY <2>3 DEF SaveDelete, KeepInv, Takes, Restores
    <3>2. /\ Respond(r) /\ orderRow'[o] = "deleted" /\ items'[o] = Nothing
          /\ \A x \in Orders \ {o} : orderRow'[x] = orderRow[x] /\ items'[x] = items[x]
      BY <2>3, <3>1 DEF SaveDelete, TypeOK
    <3> HIDE DEF o
    <3> QED
      BY <3>1, <3>2, SaveKeeps
  <2> QED
    BY <1>2, <2>1, <2>2, <2>3 DEF DeleteStep
<1>3. ASSUME NEW r \in Requests, RequestFails(r) \/ SaveSet(r)
      PROVE  KeepInv'
  BY <1>3, RefuseKeeps DEF RequestFails, Refuse, SaveSet
<1>4. ASSUME NEW p \in Products, NEW n \in Stocks, NEW r \in Requests,
             BeginSet(r, p, n)
      PROVE  KeepInv'
  <2> DEFINE q == [Free EXCEPT !.pc = "setting",
                     !.seen = With(Nothing, p, stock[p]), !.new = With(Nothing, p, n)]
  <2>1. request' = [request EXCEPT ![r] = q] /\ UNCHANGED <<orderRow, items>>
    BY <1>4 DEF BeginSet
  <2>2. q.pc = "setting" /\ q.order \notin Orders
    BY NoOrderAssumption DEF Free
  <2> HIDE DEF q
  <2>3. Takes(q) /\ Restores(q)
    BY <2>2 DEF Takes, Restores
  <2> QED
    BY <2>1, <2>2, <2>3, OwnStepKeeps
<1>5. ASSUME NEW u \in Users, DeleteUser(u)
      PROVE  KeepInv'
  <2>1. ASSUME NEW o \in Orders
        PROVE  /\ orderRow'[o] # "present" => items'[o] = Nothing
               /\ orderRow[o] = "unused" => orderRow'[o] = "unused"
               /\ orderRow'[o] = "present" =>
                    orderRow[o] = "present" /\ items'[o] = items[o]
    BY <1>5 DEF DeleteUser, KeepInv
  <2>2. request' = request
    BY <1>5 DEF DeleteUser
  <2>3. ASSUME NEW r \in Requests
        PROVE  Takes(request[r])' /\ Restores(request[r])' /\ TakesAlone(r)'
    <3>1. Takes(request[r]) /\ Restores(request[r]) /\ TakesAlone(r)
      BY DEF KeepInv
    <3> QED
      BY <2>1, <2>2, <3>1 DEF Takes, Restores, TakesAlone
  <2> QED
    BY <2>1, <2>3 DEF KeepInv
<1>6. CASE UNCHANGED <<orderRow, items, request>>
  BY <1>6 DEF KeepInv, Takes, TakesAlone, Restores
<1> QED
  BY <1>1, <1>2, <1>3, <1>4, <1>5, <1>6
     DEF Next, ProductStep, CreateProduct, DeleteProduct, vars

\* What a request knows of its order holds until it is over, whatever the others
\* and the cascade of a deleted user do in between.
LEMMA RequestsKnowTheirOrders == Spec => []KeepInv
<1>1. Init => KeepInv
  BY DEF Init, KeepInv, Takes, TakesAlone, Restores, Free
<1>2. TypeOK /\ KeepInv /\ [Next]_vars => KeepInv'
  BY KeepStep
<1> QED
  BY <1>1, <1>2, InventoryTypes, PTL DEF Spec

-----------------------------------------------------------------------------
(* The units of a product.                                                 *)

\* The units of a product in an order are numbers.
LEMMA InOrdersType ==
  ASSUME TypeOK, NEW p
  PROVE  InOrders(p) \in [Orders -> Int]
<1>1. ASSUME NEW o \in Orders, p \in DOMAIN items[o]
      PROVE  items[o][p] \in Int
  <2>1. items[o] \in ByProduct(Amounts)
    BY DEF TypeOK
  <2>2. items[o][p] \in Amounts
    BY <1>1, <2>1, ByProductMeaning
  <2> QED
    BY <2>2 DEF Amounts
<1> QED
  BY <1>1 DEF InOrders

\* The same after a step.
LEMMA NextInOrdersType ==
  ASSUME TypeOK', NEW p
  PROVE  InOrders(p)' \in [Orders -> Int]
<1>1. ASSUME NEW o \in Orders, p \in DOMAIN items'[o]
      PROVE  items'[o][p] \in Int
  <2>1. items'[o] \in ByProduct(Amounts)
    BY DEF TypeOK
  <2>2. items'[o][p] \in Amounts
    BY <1>1, <2>1, ByProductMeaning
  <2> QED
    BY <2>2 DEF Amounts
<1> QED
  BY <1>1 DEF InOrders

\* Where the items of one order change only, the units change with the stock
\* and with that order.
LEMMA UnitsDiffer ==
  ASSUME TypeOK, TypeOK', NEW p \in Products, NEW o \in Orders,
         \A x \in Orders \ {o} : items'[x] = items[x],
         stock'[p] + InOrders(p)'[o] = stock[p] + InOrders(p)[o]
  PROVE  Units(p)' = Units(p)
<1> DEFINE g == InOrders(p)
           h == InOrders(p)'
<1>0. IsFiniteSet(Orders)
  BY OrdersAssumption
<1>1. g \in [Orders -> Int] /\ h \in [Orders -> Int]
  BY InOrdersType, NextInOrdersType
<1>2. \A x \in Orders \ {o} : h[x] = g[x]
  BY DEF InOrders
<1>3. PICK a : SumsBy(a, g, Orders) /\ Units(p) = stock[p] + a[Orders]
  BY <1>0, <1>1, UnitsAreSums
<1>4. PICK b : SumsBy(b, h, Orders) /\ Units(p)' = stock'[p] + b[Orders]
  BY <1>0, <1>1, NextUnitsAreSums
<1>5. /\ stock[p] \in Int /\ stock'[p] \in Int
      /\ stock'[p] + h[o] = stock[p] + g[o]
  BY DEF TypeOK, StockValues
<1>6. g[o] \in Int /\ h[o] \in Int
  BY <1>1
<1> HIDE DEF g, h
<1>7. a[Orders] \in Int /\ b[Orders] \in Int /\ b[Orders] - a[Orders] = h[o] - g[o]
  BY <1>0, <1>1, <1>2, <1>3, <1>4, SumsDiffer
<1> QED
  BY <1>3, <1>4, <1>5, <1>6, <1>7

\* No units change with neither the stock nor the orders.
LEMMA UnitsStay ==
  ASSUME NEW p, items' = items, stock'[p] = stock[p]
  PROVE  Units(p)' = Units(p)
BY DEF Units, MapThenSumSet, MapThenFoldSet

\* UnitsAreKept, of one product.
KeepsUnits(p) ==
  \/ Units(p)' = Units(p)
  \/ productRow'[p] # productRow[p]
  \/ users' # users
  \/ \E r \in Requests :
       /\ Finishes(r) /\ p \in DOMAIN request[r].seen
       /\ request[r].pc = "setting" \/ request[r].seen[p] # stock[p]

\* What a request has asked for, loaded and computed are numbers.
LEMMA RequestNumbers ==
  ASSUME TypeOK, NEW r \in Requests
  PROVE  /\ DOMAIN request[r].new = DOMAIN request[r].seen
         /\ DOMAIN request[r].asked \subseteq Products
         /\ \A p \in DOMAIN request[r].asked : request[r].asked[p] \in Amounts
         /\ \A p \in DOMAIN request[r].seen : request[r].seen[p] \in StockValues
<1>1. /\ request[r] \in RequestStates
      /\ DOMAIN request[r].new = DOMAIN request[r].seen
  BY DEF TypeOK
<1>2. /\ request[r].asked \in ByProduct(Amounts)
      /\ request[r].seen \in ByProduct(StockValues)
  BY <1>1 DEF RequestStates
<1> QED
  BY <1>1, <1>2, ByProductMeaning

\* A request that is served is over.
LEMMA RespondFinishes ==
  ASSUME TypeOK, NEW r \in Requests, Respond(r), request[r].pc # "free"
  PROVE  Finishes(r)
BY DEF TypeOK, Respond, Finishes, Free

\* The units that an order takes leave the stock.
LEMMA CreateKeepsUnits ==
  ASSUME TypeOK, TypeOK', KeepInv, NEW r \in Requests, SaveCreate(r),
         NEW p \in Products
  PROVE  KeepsUnits(p)
<1> DEFINE q == request[r]
           o == q.order
<1>1. /\ o \in Orders /\ orderRow[o] = "unused" /\ items[o] = Nothing
      /\ DOMAIN q.new \subseteq DOMAIN q.asked
      /\ \A x \in DOMAIN q.new : q.new[x] = q.seen[x] - q.asked[x]
  BY DEF SaveCreate, KeepInv, Takes
<1>2. /\ DOMAIN q.asked \subseteq DOMAIN q.seen
      /\ items' = [items EXCEPT ![o] = q.asked]
      /\ stock' = Saved(r) /\ Finishes(r)
  BY RespondFinishes DEF SaveCreate, Awaited
<1>3. /\ items'[o] = q.asked
      /\ \A x \in Orders \ {o} : items'[x] = items[x]
  BY <1>1, <1>2 DEF TypeOK
<1>4. InOrders(p)[o] = 0
  BY <1>1, NothingIsByProduct DEF InOrders
<1>5. InOrders(p)'[o] = IF p \in DOMAIN q.asked THEN q.asked[p] ELSE 0
  BY <1>1, <1>3 DEF InOrders
<1>6. CASE p \notin DOMAIN q.asked
  <2>1. stock'[p] = stock[p]
    BY <1>1, <1>2, <1>6 DEF Saved
  <2>2. InOrders(p)'[o] = 0
    BY <1>5, <1>6
  <2>3. Units(p)' = Units(p)
    BY <1>1, <1>3, <1>4, <2>1, <2>2, UnitsDiffer
  <2> QED
    BY <2>3 DEF KeepsUnits
<1>7. CASE p \in DOMAIN q.asked /\ q.seen[p] = stock[p]
  <2>1. /\ p \in DOMAIN q.new /\ q.new[p] = stock[p] - q.asked[p]
        /\ q.asked[p] \in Amounts /\ stock[p] \in StockValues
    BY <1>1, <1>2, <1>7, RequestNumbers
  <2>2. q.new[p] # q.seen[p]
    BY <1>7, <2>1 DEF Amounts, StockValues
  <2>3. stock'[p] = stock[p] - q.asked[p]
    BY <1>2, <2>1, <2>2 DEF Saved
  <2>4. InOrders(p)'[o] = q.asked[p]
    BY <1>5, <1>7
  <2>5. stock'[p] + InOrders(p)'[o] = stock[p] + InOrders(p)[o]
    BY <1>4, <2>1, <2>3, <2>4 DEF Amounts, StockValues
  <2>6. Units(p)' = Units(p)
    BY <1>1, <1>3, <2>5, UnitsDiffer
  <2> QED
    BY <2>6 DEF KeepsUnits
<1>8. CASE p \in DOMAIN q.asked /\ q.seen[p] # stock[p]
  BY <1>2, <1>8 DEF KeepsUnits
<1> QED
  BY <1>6, <1>7, <1>8

\* The units that an order gives back return to the stock: the order still has
\* the items that were loaded, and no product of it is gone.
LEMMA DeleteKeepsUnits ==
  ASSUME TypeOK, TypeOK', KeepInv, ReferencesHold, NEW r \in Requests,
         SaveDelete(r), NEW p \in Products
  PROVE  KeepsUnits(p)
<1> DEFINE q == request[r]
           o == q.order
<1>1. /\ o \in Orders /\ items[o] = q.asked
      /\ DOMAIN q.new \subseteq DOMAIN q.asked
      /\ \A x \in DOMAIN q.new : q.new[x] = Sum32(q.seen[x], q.asked[x])
  BY DEF SaveDelete, KeepInv, Restores
<1>2. /\ items' = [items EXCEPT ![o] = Nothing]
      /\ stock' = Saved(r) /\ Finishes(r)
      /\ \A x \in DOMAIN q.new : q.new[x] >= 0
  BY RespondFinishes DEF SaveDelete, CanSave
<1>3. /\ items'[o] = Nothing
      /\ \A x \in Orders \ {o} : items'[x] = items[x]
  BY <1>1, <1>2 DEF TypeOK
<1>4. InOrders(p)'[o] = 0
  BY <1>1, <1>3, NothingIsByProduct DEF InOrders
<1>5. InOrders(p)[o] = IF p \in DOMAIN q.asked THEN q.asked[p] ELSE 0
  BY <1>1 DEF InOrders
<1>6. CASE p \notin DOMAIN q.asked
  <2>1. stock'[p] = stock[p]
    BY <1>1, <1>2, <1>6 DEF Saved
  <2>2. InOrders(p)[o] = 0
    BY <1>5, <1>6
  <2>3. Units(p)' = Units(p)
    BY <1>1, <1>3, <1>4, <2>1, <2>2, UnitsDiffer
  <2> QED
    BY <2>3 DEF KeepsUnits
<1>7. CASE p \in DOMAIN q.asked /\ q.seen[p] = stock[p]
  <2>1. p \in DOMAIN q.seen
    <3>1. p \in Listed
      BY <1>1, <1>7 DEF ReferencesHold
    <3> QED
      BY <1>7, <3>1 DEF SaveDelete, Awaited
  <2>2. /\ p \in DOMAIN q.new /\ q.new[p] = Sum32(stock[p], q.asked[p])
        /\ q.new[p] >= 0
        /\ q.asked[p] \in Amounts /\ stock[p] \in StockValues
    BY <1>1, <1>2, <1>7, <2>1, RequestNumbers
  <2>3. q.new[p] = stock[p] + q.asked[p]
    BY <2>2, MaxStockAssumption DEF Sum32, Amounts, StockValues
  <2>4. q.new[p] # q.seen[p]
    BY <1>7, <2>2, <2>3 DEF Amounts, StockValues
  <2>5. stock'[p] = stock[p] + q.asked[p]
    BY <1>2, <2>2, <2>3, <2>4 DEF Saved
  <2>6. InOrders(p)[o] = q.asked[p]
    BY <1>5, <1>7
  <2>7. stock'[p] + InOrders(p)'[o] = stock[p] + InOrders(p)[o]
    BY <1>4, <2>2, <2>5, <2>6 DEF Amounts, StockValues
  <2>8. Units(p)' = Units(p)
    BY <1>1, <1>3, <2>7, UnitsDiffer
  <2> QED
    BY <2>8 DEF KeepsUnits
<1>8. CASE p \in DOMAIN q.asked /\ q.seen[p] # stock[p]
  <2>1. p \in DOMAIN q.seen
    <3>1. p \in Listed
      BY <1>1, <1>8 DEF ReferencesHold
    <3> QED
      BY <1>8, <3>1 DEF SaveDelete, Awaited
  <2> QED
    BY <1>2, <1>8, <2>1 DEF KeepsUnits
<1> QED
  BY <1>6, <1>7, <1>8

\* Each step keeps the units of each product.
LEMMA EachStepKeepsUnits ==
  ASSUME TypeOK, TypeOK', KeepInv, ReferencesHold, [Next]_vars, NEW p \in Products
  PROVE  KeepsUnits(p)
<1>1. ASSUME NEW r \in Requests, SaveCreate(r) \/ SaveDelete(r)
      PROVE  KeepsUnits(p)
  BY <1>1, CreateKeepsUnits, DeleteKeepsUnits
<1>2. ASSUME NEW r \in Requests, SaveSet(r)
      PROVE  KeepsUnits(p)
  <2>1. Finishes(r) /\ stock' = Saved(r) /\ items' = items
    BY <1>2, RespondFinishes DEF SaveSet
  <2>2. CASE p \in DOMAIN request[r].seen
    BY <1>2, <2>1, <2>2 DEF KeepsUnits, SaveSet
  <2>3. CASE p \notin DOMAIN request[r].seen
    <3>1. stock'[p] = stock[p]
      BY <2>1, <2>3 DEF Saved, TypeOK
    <3> QED
      BY <2>1, <3>1, UnitsStay DEF KeepsUnits
  <2> QED
    BY <2>2, <2>3
<1>3. ASSUME NEW x \in Products, NEW n \in Stocks, CreateProduct(x, n)
      PROVE  KeepsUnits(p)
  <2>1. CASE p = x
    <3>1. productRow'[p] # productRow[p]
      BY <1>3, <2>1 DEF CreateProduct, TypeOK
    <3> QED
      BY <3>1 DEF KeepsUnits
  <2>2. CASE p # x
    <3>1. stock'[p] = stock[p] /\ items' = items
      BY <1>3, <2>2 DEF CreateProduct, TypeOK
    <3> QED
      BY <3>1, UnitsStay DEF KeepsUnits
  <2> QED
    BY <2>1, <2>2
<1>4. ASSUME NEW u \in Users, DeleteUser(u)
      PROVE  KeepsUnits(p)
  <2>1. users' # users
    BY <1>4 DEF DeleteUser
  <2> QED
    BY <2>1 DEF KeepsUnits
<1>5. CASE UNCHANGED <<stock, items>>
  BY <1>5, UnitsStay DEF KeepsUnits
<1> QED
  BY <1>1, <1>2, <1>3, <1>4, <1>5
     DEF Next, CreateStep, DeleteStep, ProductStep, BeginCreate, BeginDelete,
         Begin, TakeProduct, RestoreProduct, Load, RefuseProduct, RequestFails,
         Refuse, BeginSet, DeleteProduct, vars

\* No unit of a product appears or disappears, however the requests interleave
\* and whichever of them fail, except where a client sets a stock, a user goes
\* with all orders, or a save overwrites a stock that was changed after it was
\* loaded.
THEOREM UnitsNeverVanish == Spec => UnitsAreKept
<1>1. TypeOK /\ TypeOK' /\ KeepInv /\ ReferencesHold /\ [Next]_vars
        => \A p \in Products : KeepsUnits(p)
  BY EachStepKeepsUnits
<1>2. (\A p \in Products : KeepsUnits(p)) =>
        [\A p \in Products :
           \/ Units(p)' = Units(p)
           \/ productRow'[p] # productRow[p]
           \/ users' # users
           \/ \E r \in Requests :
                /\ Finishes(r) /\ p \in DOMAIN request[r].seen
                /\ request[r].pc = "setting" \/ request[r].seen[p] # stock[p]]_vars
  BY Zenon DEF KeepsUnits
<1> QED
  BY <1>1, <1>2, InventoryTypes, RequestsKnowTheirOrders, ReferencesNeverDangle, PTL
     DEF Spec, UnitsAreKept

=============================================================================
