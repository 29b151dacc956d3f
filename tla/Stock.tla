------------------------------- MODULE Stock --------------------------------
(***************************************************************************)
(* The shelves: Product.stock, the recipes of composite products, and what *)
(* orders, cancellations, refunds and hand-made movements do to them       *)
(* (InventoryMovementsService, ProductRecipesService and the stock code of *)
(* OrderRequestsService, OrdersService and ConsumptionsService).           *)
(*                                                                         *)
(* A bill, its session and its table are Ledger's business: here an order  *)
(* is its lines.  Its status stays accepted while it is prepared.  Where   *)
(* the code checks outside its transaction, or writes a value computed     *)
(* from an earlier read, the call takes two steps.                         *)
(***************************************************************************)
EXTENDS FiniteSets, Sums

CONSTANTS
  Products,
  Orders,        \* pool of orders
  Callers,       \* calls of the admin panel served at the same time
  Menu,          \* the recipes the admin may write
  Carts,         \* what customers may order: two lines, the second may be none
  Deltas,        \* quantities of hand-made movements
  OpeningStock,  \* stock of each product when it was created
  MaxMovements,  \* bound on the movements ever recorded
  None

Lines == 1 .. 2
NoRecipe == [options |-> {}, quantity |-> 0]
NoLine == [product |-> None, quantity |-> 0]

\* The slots of a recipe are merged into one: quantity units of the options,
\* in the split the customer chooses.
Recipe == [options : SUBSET Products, quantity : Nat]
CartLine == [product : Products, quantity : Nat \ {0}] \cup {NoLine}

\* A recipe that is written has slots of at least one unit (validatePayload).
\* A cart may hold two lines of one product; they then ask for as many units,
\* so that a refund's ratio between its line and the line it finds is one.
ASSUME StockAssumption ==
  /\ None \notin Products
  /\ Menu \subseteq Recipe
  /\ \A r \in Menu : r.quantity > 0 /\ IsFiniteSet(r.options)
  /\ Carts \subseteq [Lines -> CartLine]
  /\ \A cart \in Carts :
       cart[1].product = cart[2].product => cart[1].quantity = cart[2].quantity
  /\ Deltas \subseteq Int \ {0}
  /\ OpeningStock \in [Products -> Nat]
  /\ MaxMovements \in Nat

VARIABLES
  stock,    \* Product.stock
  recipe,   \* ProductRecipeSlot rows of each product
  order,    \* Order, OrderItem, OrderItemComponent and their bill lines
  moved,    \* sum of the InventoryMovement rows of each product
  count,    \* how many of them there are
  call      \* what each caller of the admin panel has read

vars == <<stock, recipe, order, moved, count, call>>

Quantities == [Products -> Nat]
Nothing == [p \in Products |-> 0]
Only(product, n) == [p \in Products |-> IF p = product THEN n ELSE 0]
Plus(f, g) == [p \in Products |-> f[p] + g[p]]

\* A line: what was ordered, what it took off the shelves, the components
\* stored for it, and what became of its bill line.
LineRow == [product : Products \cup {None}, quantity : Nat,
            took : Quantities, components : Quantities,
            bill : {"none", "billed", "returned", "writtenOff"}]
OrderRow == [status : {"none", "accepted", "cancelled", "delivered"},
             line : [Lines -> LineRow]]
EmptyLine == [product |-> None, quantity |-> 0, took |-> Nothing,
              components |-> Nothing, bill |-> "none"]
NoOrder == [status |-> "none", line |-> [k \in Lines |-> EmptyLine]]

CallState == [step : {"idle", "record", "replace"},
              product : Products \cup {None}, delta : Int, next : Int,
              recipe : Recipe]
Idle == [step |-> "idle", product |-> None, delta |-> 0, next |-> 0,
         recipe |-> NoRecipe]

Init ==
  /\ stock = OpeningStock
  /\ recipe = [p \in Products |-> NoRecipe]
  /\ order = [o \in Orders |-> NoOrder]
  /\ moved = [p \in Products |-> 0]
  /\ count = 0
  /\ call = [c \in Callers |-> Idle]

(***************************************************************************)
(* accept() and createAndAccept(): the plan, its decrement, its rows.      *)
(***************************************************************************)
IsComposite(p) == recipe[p] # NoRecipe

\* The ways to make n units: every split of n times the recipe's quantity.
Ways(r, n) ==
  {w \in [Products -> 0 .. n * r.quantity] :
     /\ \A p \in Products \ r.options : w[p] = 0
     /\ SumOver(w, r.options) = n * r.quantity}

\* resolveCompositionPlan, for one line.
Plans(line) ==
  IF line = NoLine THEN {Nothing}
  ELSE IF IsComposite(line.product)
       THEN Ways(recipe[line.product], line.quantity)
       ELSE {Only(line.product, line.quantity)}

\* persistComponents: the rows go to the order item that idsByProduct holds
\* for the product, which is the last of its lines.
SameProduct(cart) == cart[1].product = cart[2].product
ComponentsOf(cart, took, k) ==
  IF cart[k] = NoLine \/ ~ IsComposite(cart[k].product) THEN Nothing
  ELSE IF ~ SameProduct(cart) THEN took[k]
  ELSE IF k = 2 THEN Plus(took[1], took[2]) ELSE Nothing

OrderItems(cart, took) ==
  [status |-> "accepted",
   line |-> [k \in Lines |->
     [product |-> cart[k].product, quantity |-> cart[k].quantity,
      took |-> took[k], components |-> ComponentsOf(cart, took, k),
      bill |-> "none"]]]

\* decrementStockOrThrow: every product of the plan has enough, or the
\* transaction rolls back.  The plan is read in the same transaction; that the
\* recipe may be replaced in between only makes the order an earlier one.
InStock_ForOneLine(took) ==
  \A p \in Products, k \in Lines : stock[p] >= took[k][p]
InStock(took) == \A p \in Products : stock[p] >= took[1][p] + took[2][p]

Accept(o) ==
  /\ order[o] = NoOrder
  /\ \E cart \in Carts :
       \E first \in Plans(cart[1]), second \in Plans(cart[2]) :
         LET took == [k \in Lines |-> IF k = 1 THEN first ELSE second] IN
         /\ InStock(took)
         /\ stock' = [p \in Products |-> stock[p] - (first[p] + second[p])]
         /\ order' = [order EXCEPT ![o] = OrderItems(cart, took)]
  /\ UNCHANGED <<recipe, moved, count, call>>

(***************************************************************************)
(* What comes back.                                                        *)
(***************************************************************************)
\* A line with components gives them back, another one its own product.
Back_ByRecipe(line) ==
  IF line.product # None /\ IsComposite(line.product)
    THEN line.components ELSE Only(line.product, line.quantity)
Back(line) ==
  IF line.components # Nothing THEN line.components
                               ELSE Only(line.product, line.quantity)

\* updateStatus to cancelled: restoreStock, in the guarded transaction.
CancelOrder(o) ==
  /\ order[o].status = "accepted"
  /\ order' = [order EXCEPT ![o].status = "cancelled"]
  /\ stock' = Plus(stock, Plus(Back(order[o].line[1]), Back(order[o].line[2])))
  /\ UNCHANGED <<recipe, moved, count, call>>

\* updateStatus to delivered: a bill line for each order item.
Billed(line) ==
  IF line.product = None THEN line ELSE [line EXCEPT !.bill = "billed"]

Deliver(o) ==
  /\ order[o].status = "accepted"
  /\ order' = [order EXCEPT ![o].status = "delivered",
                            ![o].line = [k \in Lines |-> Billed(@[k])]]
  /\ UNCHANGED <<stock, recipe, moved, count, call>>

\* refundConsumption of the bill line of order item k, whose guarded update
\* marks it reversed.  restoreStockForRefund finds an order item by its order
\* and product: with two lines of one product it may be either.
Refund(o, k) ==
  /\ order[o].line[k].bill = "billed"
  /\ \E j \in Lines :
       /\ order[o].line[j].product = order[o].line[k].product
       /\ stock' = Plus(stock, Back(order[o].line[j]))
  /\ order' = [order EXCEPT ![o].line[k].bill = "returned"]
  /\ UNCHANGED <<recipe, moved, count, call>>

\* The same with restore_stock = false: the product is not recovered.
RefundLost(o, k) ==
  /\ order[o].line[k].bill = "billed"
  /\ order' = [order EXCEPT ![o].line[k].bill = "writtenOff"]
  /\ UNCHANGED <<stock, recipe, moved, count, call>>

(***************************************************************************)
(* record(): a movement writes the stock it computed from its read.        *)
(***************************************************************************)
Recording(p, delta) ==
  [step |-> "record", product |-> p, delta |-> delta,
   next |-> stock[p] + delta, recipe |-> NoRecipe]

RecordRead(c, p, delta) ==
  /\ call[c] = Idle
  /\ count < MaxMovements
  /\ stock[p] + delta >= 0
  /\ call' = [call EXCEPT ![c] = Recording(p, delta)]
  /\ UNCHANGED <<stock, recipe, order, moved, count>>

RecordCommit_NoRow(c) ==
  /\ call[c].step = "record"
  /\ stock' = [stock EXCEPT ![call[c].product] = call[c].next]
  /\ count' = count + 1
  /\ call' = [call EXCEPT ![c] = Idle]
  /\ UNCHANGED <<recipe, order, moved>>

RecordCommit(c) ==
  /\ call[c].step = "record"
  /\ count < MaxMovements
  /\ stock' = [stock EXCEPT ![call[c].product] = call[c].next]
  /\ moved' = [moved EXCEPT ![call[c].product] = @ + call[c].delta]
  /\ count' = count + 1
  /\ call' = [call EXCEPT ![c] = Idle]
  /\ UNCHANGED <<recipe, order>>

(***************************************************************************)
(* replaceForProduct(): the components must be simple when they are read.  *)
(***************************************************************************)
Replacing(p, r) ==
  [step |-> "replace", product |-> p, delta |-> 0, next |-> 0, recipe |-> r]

ReplaceRead(c, p, r) ==
  /\ call[c] = Idle
  /\ p \notin r.options
  /\ \A q \in r.options : ~ IsComposite(q)
  /\ call' = [call EXCEPT ![c] = Replacing(p, r)]
  /\ UNCHANGED <<stock, recipe, order, moved, count>>

ReplaceCommit(c) ==
  /\ call[c].step = "replace"
  /\ recipe' = [recipe EXCEPT ![call[c].product] = call[c].recipe]
  /\ call' = [call EXCEPT ![c] = Idle]
  /\ UNCHANGED <<stock, order, moved, count>>

\* A call is refused, rolled back or lost with the process.
Fail(c) ==
  /\ call[c] # Idle
  /\ call' = [call EXCEPT ![c] = Idle]
  /\ UNCHANGED <<stock, recipe, order, moved, count>>

Next ==
  \/ \E o \in Orders :
       \/ Accept(o)
       \/ CancelOrder(o)
       \/ Deliver(o)
       \/ \E k \in Lines : Refund(o, k) \/ RefundLost(o, k)
  \/ \E c \in Callers :
       \/ \E p \in Products : \/ \E d \in Deltas : RecordRead(c, p, d)
                              \/ \E r \in Menu \cup {NoRecipe} :
                                   ReplaceRead(c, p, r)
       \/ RecordCommit(c)
       \/ ReplaceCommit(c)
       \/ Fail(c)

Spec == Init /\ [][Next]_vars

(***************************************************************************)
(* Properties.                                                             *)
(***************************************************************************)
TypeOK ==
  /\ stock \in [Products -> Int]
  /\ recipe \in [Products -> Recipe]
  /\ order \in [Orders -> OrderRow]
  /\ moved \in [Products -> Int]
  /\ count \in Nat
  /\ call \in [Callers -> CallState]

\* No product is ever sold that is not there, nor written off below nothing,
\* even when a movement overwrites what an order has taken since it was read
\* (decrementStockOrThrow, record's post-condition).
StockNeverNegative == \A p \in Products : stock[p] >= 0

\* Lines that are back on the shelf.
Returned(o, k) ==
  \/ order[o].status = "cancelled" /\ order[o].line[k].product # None
  \/ order[o].line[k].bill = "returned"

\* A cancellation and a refund put back exactly what the lines took off the
\* shelf, whatever recipes were replaced in between (restoreStock,
\* restoreStockForRefund: "reversion exacta").
GivenBack(o, k) == IF Returned(o, k)' /\ ~ Returned(o, k)
                     THEN order[o].line[k].took ELSE Nothing
ReturnsExact ==
  [][\A o \in Orders :
       (\E k \in Lines : Returned(o, k)' /\ ~ Returned(o, k)) =>
         stock' = Plus(stock, Plus(GivenBack(o, 1), GivenBack(o, 2)))]_vars

\* What is missing on the shelf of p: opening stock and movements, less what
\* orders have taken and not returned, less what is there.
Out(o, k, p) == IF Returned(o, k) THEN 0 ELSE order[o].line[k].took[p]
Placed == {o \in Orders : order[o] # NoOrder}
Sold(p) == SumOver([o \in Orders |-> Out(o, 1, p) + Out(o, 2, p)], Placed)
Gap(p) == OpeningStock[p] + moved[p] - stock[p] - Sold(p)

\* A movement whose product has changed since it was read.
Stale(c) == /\ call[c].step = "record"
            /\ stock[call[c].product] # call[c].next - call[c].delta

\* The stock is accounted for by its movements and orders: the only step that
\* makes units appear or vanish is a movement that commits a stale read.
StockAccountedFor ==
  [][\/ \E c \in Callers : Stale(c) /\ call'[c] # call[c]
     \/ \A p \in Products : Gap(p)' = Gap(p)]_vars
=============================================================================
