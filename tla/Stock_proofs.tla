---------------------------- MODULE Stock_proofs ----------------------------
(***************************************************************************)
(* What the shelves hold, for any products, recipes, carts and movements.  *)
(* None ever holds less than nothing: inductive is NothingOwed, by which   *)
(* the stock, and every stock a movement under way is going to write, are  *)
(* at least nothing.  When no cart names a product twice, what comes back  *)
(* is what went out, and only stale movements make units appear or vanish: *)
(* inductive is Sound, by which every line would give back what it took.   *)
(***************************************************************************)
EXTENDS Stock, Sums_proofs

NothingOwed ==
  /\ StockNeverNegative
  /\ \A c \in Callers : call[c].step = "record" => call[c].next >= 0

Safe == TypeOK /\ NothingOwed

\* What a line may take off the shelves is a number of each product.
LEMMA PlanType ==
  ASSUME TypeOK, NEW line \in CartLine
  PROVE  Plans(line) \subseteq Quantities
  <1>1. CASE line = NoLine
    BY <1>1 DEF Plans, Nothing, Quantities
  <1>2. CASE line # NoLine /\ ~ IsComposite(line.product)
    BY <1>2 DEF Plans, Only, Quantities, CartLine
  <1>3. CASE line # NoLine /\ IsComposite(line.product)
    <2>1. line.product \in Products /\ line.quantity \in Nat
      BY <1>3 DEF CartLine
    <2>2. recipe[line.product].quantity \in Nat
      BY <2>1 DEF TypeOK, Recipe
    <2>3. line.quantity * recipe[line.product].quantity \in Nat
      BY <2>1, <2>2
    <2>4. Plans(line) \subseteq
            [Products -> 0 .. line.quantity * recipe[line.product].quantity]
      BY <1>3 DEF Plans, Ways
    <2> QED
      BY <2>3, <2>4 DEF Quantities
  <1> QED
    BY <1>1, <1>2, <1>3

\* What is taken adds up.
LEMMA PlusType ==
  \A f, g \in Quantities : Plus(f, g) \in Quantities
  BY DEF Quantities, Plus

\* Taking nothing is a quantity of every product.
LEMMA NothingType == Nothing \in Quantities
  BY DEF Nothing, Quantities

\* A new order is of its type.
LEMMA OrderItemsType ==
  ASSUME NEW cart \in Carts, NEW took \in [Lines -> Quantities]
  PROVE  OrderItems(cart, took) \in OrderRow
  <1>1. \A k \in Lines : cart[k] \in CartLine
    BY StockAssumption
  <1>2. \A k \in Lines : ComponentsOf(cart, took, k) \in Quantities
    BY PlusType, NothingType DEF ComponentsOf, Lines
  <1>3. ASSUME NEW k \in Lines
        PROVE  [product |-> cart[k].product, quantity |-> cart[k].quantity,
                took |-> took[k], components |-> ComponentsOf(cart, took, k),
                bill |-> "none"] \in LineRow
    <2>1. cart[k].product \in Products \cup {None} /\ cart[k].quantity \in Nat
      BY <1>1, <1>3 DEF CartLine, NoLine
    <2> QED
      BY <1>2, <2>1 DEF LineRow
  <1> QED
    BY <1>3 DEF OrderItems, OrderRow

\* What comes back is never negative.
LEMMA BackType ==
  ASSUME TypeOK, NEW o \in Orders, NEW k \in Lines
  PROVE  Back(order[o].line[k]) \in Quantities
  <1>1. order[o].line[k] \in LineRow
    BY DEF TypeOK, OrderRow
  <1> QED
    BY <1>1 DEF Back, Only, LineRow, Quantities

\* A caller of the panel that has read nothing is of its type.
LEMMA IdleType == Idle \in CallState /\ Idle.step = "idle"
  BY DEF Idle, CallState, Recipe, NoRecipe

\* The shelves open safe.
LEMMA SafeInit == Init => Safe
  <1> SUFFICES ASSUME Init PROVE Safe
    OBVIOUS
  <1>1. NoOrder \in OrderRow
    BY NothingType DEF NoOrder, OrderRow, LineRow, EmptyLine
  <1>2. NoRecipe \in Recipe
    BY DEF NoRecipe, Recipe
  <1>3. TypeOK
    BY <1>1, <1>2, IdleType, StockAssumption DEF Init, TypeOK
  <1>4. NothingOwed
    BY IdleType, StockAssumption DEF Init, NothingOwed, StockNeverNegative
  <1> QED
    BY <1>3, <1>4 DEF Safe

\* An accepted order takes no more than the shelf holds.
LEMMA AcceptSafe ==
  ASSUME Safe, NEW o \in Orders, Accept(o)
  PROVE  Safe'
  <1> DEFINE Taken(first, second) ==
        [k \in Lines |-> IF k = 1 THEN first ELSE second]
  <1>0. PICK cart \in Carts :
          \E first \in Plans(cart[1]), second \in Plans(cart[2]) :
            /\ InStock(Taken(first, second))
            /\ stock' = [p \in Products |-> stock[p] - (first[p] + second[p])]
            /\ order' = [order EXCEPT ![o] = OrderItems(cart, Taken(first, second))]
    BY DEF Accept
  <1>1. PICK first \in Plans(cart[1]), second \in Plans(cart[2]) :
          /\ InStock(Taken(first, second))
          /\ stock' = [p \in Products |-> stock[p] - (first[p] + second[p])]
          /\ order' = [order EXCEPT ![o] = OrderItems(cart, Taken(first, second))]
    BY <1>0
  <1> DEFINE took == Taken(first, second)
  <1>2. cart[1] \in CartLine /\ cart[2] \in CartLine
    BY StockAssumption DEF Lines
  <1>3. first \in Quantities /\ second \in Quantities
    BY <1>2, PlanType DEF Safe
  <1>4. took \in [Lines -> Quantities] /\ took[1] = first /\ took[2] = second
    BY <1>3 DEF Lines
  <1>5. OrderItems(cart, took) \in OrderRow
    BY <1>4, OrderItemsType
  <1>6. stock' \in [Products -> Int] /\ \A p \in Products : stock'[p] >= 0
    <2>1. \A p \in Products : stock[p] >= first[p] + second[p]
      <3> HIDE DEF Taken
      <3> QED
        BY <1>1, <1>4 DEF InStock
    <2>2. \A p \in Products : first[p] \in Nat /\ second[p] \in Nat
      BY <1>3 DEF Quantities
    <2>3. \A p \in Products : stock[p] \in Int
      BY DEF Safe, TypeOK
    <2>4. stock' = [p \in Products |-> stock[p] - (first[p] + second[p])]
      BY <1>1
    <2> HIDE DEF Taken
    <2> QED
      BY <2>1, <2>2, <2>3, <2>4
  <1> QED
    BY <1>1, <1>5, <1>6
       DEF Accept, Safe, TypeOK, NothingOwed, StockNeverNegative

\* A step that only adds to the stock and changes orders.
LEMMA GiveBackSafe ==
  ASSUME Safe, NEW back \in Quantities, stock' = Plus(stock, back),
         order' \in [Orders -> OrderRow], UNCHANGED <<recipe, moved, count, call>>
  PROVE  Safe'
  <1>1. stock' \in [Products -> Int] /\ \A p \in Products : stock'[p] >= 0
    BY DEF Plus, Quantities, Safe, TypeOK, NothingOwed, StockNeverNegative
  <1> QED
    BY <1>1 DEF Safe, TypeOK, NothingOwed, StockNeverNegative

\* A step that changes only orders.
LEMMA OrderOnlySafe ==
  ASSUME Safe, order' \in [Orders -> OrderRow],
         UNCHANGED <<stock, recipe, moved, count, call>>
  PROVE  Safe'
  BY DEF Safe, TypeOK, NothingOwed, StockNeverNegative

\* What happens to an order afterwards only gives back, or changes no shelf.
LEMMA OrderStepsSafe ==
  ASSUME Safe, NEW o \in Orders,
         \/ CancelOrder(o)
         \/ Deliver(o)
         \/ \E k \in Lines : Refund(o, k) \/ RefundLost(o, k)
  PROVE  Safe'
  <1>1. order \in [Orders -> OrderRow] /\ order[o].line \in [Lines -> LineRow]
    BY DEF Safe, TypeOK, OrderRow
  <1>2. CASE CancelOrder(o)
    <2>1. [order[o] EXCEPT !.status = "cancelled"] \in OrderRow
      BY <1>1 DEF OrderRow
    <2>2. order' \in [Orders -> OrderRow]
      BY <1>1, <1>2, <2>1 DEF CancelOrder
    <2>3. Plus(Back(order[o].line[1]), Back(order[o].line[2])) \in Quantities
      BY BackType, PlusType DEF Safe, Lines
    <2> QED
      BY <1>2, <2>2, <2>3, GiveBackSafe DEF CancelOrder
  <1>3. CASE Deliver(o)
    <2>1. \A row \in LineRow : Billed(row) \in LineRow
      BY DEF Billed, LineRow
    <2>2. [k \in Lines |-> Billed(order[o].line[k])] \in [Lines -> LineRow]
      BY <1>1, <2>1
    <2>3. order' \in [Orders -> OrderRow]
      BY <1>1, <1>3, <2>2 DEF Deliver, OrderRow
    <2> QED
      BY <1>3, <2>3, OrderOnlySafe DEF Deliver
  <1>4. ASSUME NEW k \in Lines, NEW b \in {"returned", "writtenOff"},
               order' = [order EXCEPT ![o].line[k].bill = b]
        PROVE  order' \in [Orders -> OrderRow]
    <2>1. [order[o].line[k] EXCEPT !.bill = b] \in LineRow
      BY <1>1, <1>4 DEF LineRow
    <2>2. [order[o].line EXCEPT ![k] = [order[o].line[k] EXCEPT !.bill = b]]
             \in [Lines -> LineRow]
      BY <1>1, <2>1
    <2> QED
      BY <1>1, <1>4, <2>2 DEF OrderRow
  <1>5. ASSUME NEW k \in Lines, Refund(o, k) PROVE Safe'
    <2>1. order' \in [Orders -> OrderRow]
      BY <1>4, <1>5 DEF Refund
    <2>2. PICK j \in Lines : stock' = Plus(stock, Back(order[o].line[j]))
      BY <1>5 DEF Refund
    <2> QED
      BY <1>5, <2>1, <2>2, BackType, GiveBackSafe DEF Refund, Safe
  <1>6. ASSUME NEW k \in Lines, RefundLost(o, k) PROVE Safe'
    <2>1. order' \in [Orders -> OrderRow]
      BY <1>4, <1>6 DEF RefundLost
    <2> QED
      BY <1>6, <2>1, OrderOnlySafe DEF RefundLost
  <1> QED
    BY <1>2, <1>3, <1>5, <1>6

\* A movement and a recipe, read or committed, leave the shelves above zero.
LEMMA CallStepsSafe ==
  ASSUME Safe, NEW c \in Callers,
         \/ \E p \in Products : \/ \E d \in Deltas : RecordRead(c, p, d)
                                \/ \E r \in Menu \cup {NoRecipe} :
                                     ReplaceRead(c, p, r)
         \/ RecordCommit(c)
         \/ ReplaceCommit(c)
         \/ Fail(c)
  PROVE  Safe'
  <1>1. call[c] \in CallState
    BY DEF Safe, TypeOK
  <1>2. ASSUME NEW p \in Products, NEW d \in Deltas, RecordRead(c, p, d)
        PROVE  Safe'
    <2>1. d \in Int /\ stock[p] + d \in Int
      BY StockAssumption DEF Safe, TypeOK
    <2>2. /\ Recording(p, d) \in CallState
          /\ Recording(p, d).step = "record"
          /\ Recording(p, d).next = stock[p] + d
      BY <2>1 DEF Recording, CallState, Recipe, NoRecipe
    <2>3. Recording(p, d).next >= 0
      BY <1>2, <2>2 DEF RecordRead
    <2> QED
      BY <1>2, <2>2, <2>3
         DEF RecordRead, Safe, TypeOK, NothingOwed, StockNeverNegative
  <1>3. ASSUME NEW p \in Products, NEW r \in Menu \cup {NoRecipe},
               ReplaceRead(c, p, r)
        PROVE  Safe'
    <2>1. r \in Recipe
      BY StockAssumption DEF NoRecipe, Recipe
    <2>2. Replacing(p, r) \in CallState /\ Replacing(p, r).step = "replace"
      BY <2>1 DEF Replacing, CallState
    <2> QED
      BY <1>3, <2>2
         DEF ReplaceRead, Safe, TypeOK, NothingOwed, StockNeverNegative
  <1>4. CASE RecordCommit(c)
    <2>1. call[c].product \in Products \cup {None} /\ call[c].next \in Int
          /\ call[c].delta \in Int /\ call[c].next >= 0
      BY <1>1, <1>4 DEF CallState, RecordCommit, Safe, NothingOwed
    <2>2. /\ stock' \in [Products -> Int]
          /\ \A p \in Products : stock'[p] >= 0
      BY <1>4, <2>1 DEF RecordCommit, Safe, TypeOK, NothingOwed, StockNeverNegative
    <2>3. moved' \in [Products -> Int]
      <3>1. CASE call[c].product \in Products
        BY <1>4, <2>1, <3>1 DEF RecordCommit, Safe, TypeOK
      <3>2. CASE call[c].product \notin Products
        BY <1>4, <3>2 DEF RecordCommit, Safe, TypeOK
      <3> QED
        BY <3>1, <3>2
    <2>4. count' \in Nat
      BY <1>4 DEF RecordCommit, Safe, TypeOK
    <2> QED
      BY <1>4, <2>2, <2>3, <2>4, IdleType
         DEF RecordCommit, Safe, TypeOK, NothingOwed, StockNeverNegative
  <1>5. CASE ReplaceCommit(c)
    <2>1. recipe' \in [Products -> Recipe]
      BY <1>1, <1>5 DEF ReplaceCommit, Safe, TypeOK, CallState
    <2> QED
      BY <1>5, <2>1, IdleType
         DEF ReplaceCommit, Safe, TypeOK, NothingOwed, StockNeverNegative
  <1>6. CASE Fail(c)
    BY <1>6, IdleType DEF Fail, Safe, TypeOK, NothingOwed, StockNeverNegative
  <1> QED
    BY <1>2, <1>3, <1>4, <1>5, <1>6

\* Every step is safe.
LEMMA SafeNext == Safe /\ [Next]_vars => Safe'
  <1> SUFFICES ASSUME Safe, [Next]_vars PROVE Safe'
    OBVIOUS
  <1>1. CASE UNCHANGED vars
    BY <1>1 DEF vars, Safe, TypeOK, NothingOwed, StockNeverNegative
  <1>2. CASE Next
    BY <1>2, AcceptSafe, OrderStepsSafe, CallStepsSafe DEF Next
  <1> QED
    BY <1>1, <1>2

\* Stock, recipes, orders and calls are of their types, for any constants.
THEOREM TypeCorrect == Spec => []TypeOK
  <1>1. Spec => []Safe
    BY SafeInit, SafeNext, PTL DEF Spec
  <1> QED
    BY <1>1, PTL DEF Safe

\* Whatever orders, refunds, movements and recipes overlap, no product is sold
\* or written off below nothing.
THEOREM StockStaysOnTheShelf == Spec => []StockNeverNegative
  <1>1. Spec => []Safe
    BY SafeInit, SafeNext, PTL DEF Spec
  <1> QED
    BY <1>1, PTL DEF Safe, NothingOwed

(***************************************************************************)
(* What comes back.                                                        *)
(***************************************************************************)
\* No two lines of an order are for one product.
LinesApart ==
  \A cart \in Carts :
    cart[1].product = cart[2].product => cart[1].product = None

\* A line gives back what it took, and only lines of a product took something.
LineSound(row) ==
  /\ Back(row) = row.took
  /\ row.product = None => row.took = Nothing /\ row.bill = "none"

OrderSound(row) ==
  /\ \A k \in Lines : LineSound(row.line[k])
  /\ row.line[1].product = row.line[2].product => row.line[1].product = None
  /\ row.status # "delivered" => \A k \in Lines : row.line[k].bill = "none"

Written == Menu \cup {NoRecipe}

Sound ==
  /\ TypeOK
  /\ recipe \in [Products -> Written]
  /\ \A c \in Callers : call[c].recipe \in Written
  /\ \A o \in Orders : OrderSound(order[o])
  /\ IsFiniteSet(Placed)

\* A split of at least one unit takes something.
LEMMA WayTakes ==
  ASSUME NEW r \in Menu, NEW n \in Nat \ {0}, NEW w \in Ways(r, n)
  PROVE  w # Nothing
  <1>1. r.quantity \in Nat \ {0} /\ IsFiniteSet(r.options) /\ r.options \subseteq Products
    BY StockAssumption DEF Recipe
  <1>2. n * r.quantity # 0
    <2> DEFINE q == r.quantity
    <2>1. q \in Nat \ {0}
      BY <1>1
    <2> HIDE DEF q
    <2>2. n * q # 0
      BY <2>1
    <2> QED
      BY <2>2 DEF q
  <1>3. SumOver(w, r.options) = n * r.quantity
    BY DEF Ways
  <1>4. ASSUME w = Nothing PROVE FALSE
    <2>1. \A p \in r.options : w[p] = 0
      BY <1>1, <1>4 DEF Nothing
    <2> QED
      BY <1>1, <1>2, <1>3, <2>1, SumZero
  <1> QED
    BY <1>4

\* A line without a product gives nothing back.
LEMMA NothingBack ==
  ASSUME NEW row, row.product = None, row.components = Nothing
  PROVE  Back(row) = Nothing
  BY StockAssumption DEF Back, Only, Nothing

\* An order just placed gives back what it took, when its lines are apart.
LEMMA PlacedSound ==
  ASSUME Sound, LinesApart, NEW cart \in Carts, NEW took \in [Lines -> Quantities],
         \A k \in Lines : took[k] \in Plans(cart[k])
  PROVE  OrderSound(OrderItems(cart, took))
  <1> DEFINE row == OrderItems(cart, took)
  <1>1. \A k \in Lines : cart[k] \in CartLine
    BY StockAssumption
  <1>2. ASSUME NEW k \in Lines
        PROVE  /\ row.line[k].product = cart[k].product
               /\ row.line[k].quantity = cart[k].quantity
               /\ row.line[k].took = took[k]
               /\ row.line[k].components = ComponentsOf(cart, took, k)
               /\ row.line[k].bill = "none"
    BY DEF OrderItems
  <1>3. row.status = "accepted"
    BY DEF OrderItems
  <1> HIDE DEF row
  <1>4. ASSUME NEW k \in Lines
        PROVE  LineSound(row.line[k])
    <2>1. CASE cart[k] = NoLine
      <3>1. took[k] = Nothing
        BY <2>1 DEF Plans
      <3>2. ComponentsOf(cart, took, k) = Nothing /\ cart[k].product = None
        BY <2>1 DEF ComponentsOf, NoLine
      <3> QED
        BY <1>2, <3>1, <3>2, NothingBack DEF LineSound
    <2>2. CASE cart[k] # NoLine
      <3>1. cart[k].product \in Products /\ cart[k].quantity \in Nat \ {0}
        BY <1>1, <2>2 DEF CartLine
      <3>2. cart[k].product # None
        BY <3>1, StockAssumption
      <3>3. ~ SameProduct(cart)
        BY <3>2 DEF SameProduct, LinesApart, Lines
      <3>4. CASE IsComposite(cart[k].product)
        <4>1. recipe[cart[k].product] \in Menu
          BY <3>1, <3>4 DEF Sound, Written, IsComposite
        <4>2. took[k] \in Ways(recipe[cart[k].product], cart[k].quantity)
          BY <2>2, <3>4 DEF Plans
        <4>3. took[k] # Nothing
          BY <3>1, <4>1, <4>2, WayTakes
        <4>4. ComponentsOf(cart, took, k) = took[k]
          BY <2>2, <3>3, <3>4 DEF ComponentsOf
        <4> QED
          BY <1>2, <3>2, <4>3, <4>4 DEF LineSound, Back
      <3>5. CASE ~ IsComposite(cart[k].product)
        <4>1. took[k] = Only(cart[k].product, cart[k].quantity)
          BY <2>2, <3>5 DEF Plans
        <4>2. ComponentsOf(cart, took, k) = Nothing
          BY <3>5 DEF ComponentsOf
        <4> QED
          BY <1>2, <3>2, <4>1, <4>2 DEF LineSound, Back
      <3> QED
        BY <3>4, <3>5
    <2> QED
      BY <2>1, <2>2
  <1>5. row.line[1].product = row.line[2].product => row.line[1].product = None
    BY <1>2 DEF LinesApart, Lines
  <1> QED
    BY <1>2, <1>4, <1>5 DEF OrderSound, row

\* What becomes of the bill line of a row does not change what it gives back.
LEMMA BillSound ==
  ASSUME NEW row, NEW new, LineSound(row), row.product # None,
         new.product = row.product, new.quantity = row.quantity,
         new.took = row.took, new.components = row.components
  PROVE  LineSound(new)
  BY DEF LineSound, Back

\* The shelves open with nothing placed.
LEMMA SoundInit == Init => Sound
  <1> SUFFICES ASSUME Init PROVE Sound
    OBVIOUS
  <1>1. TypeOK
    BY SafeInit DEF Safe
  <1>2. \A k \in Lines : NoOrder.line[k] = EmptyLine
    BY DEF NoOrder
  <1>3. EmptyLine.product = None /\ EmptyLine.components = Nothing
        /\ EmptyLine.took = Nothing /\ EmptyLine.bill = "none"
    BY DEF EmptyLine
  <1>4. LineSound(EmptyLine)
    BY <1>3, NothingBack DEF LineSound
  <1>5. OrderSound(NoOrder)
    BY <1>2, <1>3, <1>4 DEF OrderSound, Lines
  <1>6. Placed = {}
    BY DEF Init, Placed
  <1> QED
    BY <1>1, <1>5, <1>6, FS_EmptySet DEF Init, Sound, Written, Idle

\* A line of a bill is marked: the order stays sound.
LEMMA MarkSound ==
  ASSUME Sound, NEW o \in Orders, NEW k \in Lines, NEW b,
         order[o].line[k].bill = "billed",
         order' = [order EXCEPT ![o].line[k].bill = b]
  PROVE  OrderSound(order'[o])
  <1> DEFINE row == order[o]
  <1>1. row \in OrderRow /\ row.line[k] \in LineRow
    BY DEF Sound, TypeOK, OrderRow
  <1>2. /\ order'[o].status = row.status
        /\ order'[o].line[k] = [row.line[k] EXCEPT !.bill = b]
        /\ \A j \in Lines \ {k} : order'[o].line[j] = row.line[j]
    BY <1>1 DEF Sound, TypeOK, OrderRow
  <1>3. OrderSound(row)
    BY DEF Sound
  <1>4. row.line[k].product # None /\ row.status = "delivered"
    BY <1>3 DEF OrderSound, LineSound
  <1>5. /\ order'[o].line[k].product = row.line[k].product
        /\ order'[o].line[k].quantity = row.line[k].quantity
        /\ order'[o].line[k].took = row.line[k].took
        /\ order'[o].line[k].components = row.line[k].components
    BY <1>1, <1>2 DEF LineRow
  <1> HIDE DEF row
  <1>6. LineSound(order'[o].line[k])
    BY <1>3, <1>4, <1>5, BillSound DEF OrderSound
  <1>7. \A j \in Lines : LineSound(order'[o].line[j])
    BY <1>2, <1>3, <1>6 DEF OrderSound
  <1>8. \A j \in Lines : order'[o].line[j].product = row.line[j].product
    BY <1>2, <1>5
  <1> QED
    BY <1>2, <1>3, <1>4, <1>7, <1>8 DEF OrderSound, Lines

\* A delivery bills the lines of a product: the order stays sound.
LEMMA DeliverSound ==
  ASSUME Sound, NEW o \in Orders, Deliver(o)
  PROVE  OrderSound(order'[o])
  <1> DEFINE row == order[o]
  <1>1. row \in OrderRow /\ \A k \in Lines : row.line[k] \in LineRow
    BY DEF Sound, TypeOK, OrderRow
  <1>2. /\ order'[o].status = "delivered"
        /\ \A k \in Lines : order'[o].line[k] = Billed(row.line[k])
    BY <1>1 DEF Sound, TypeOK, OrderRow, Deliver
  <1>3. OrderSound(row)
    BY DEF Sound
  <1> HIDE DEF row
  <1>4. ASSUME NEW k \in Lines
        PROVE  LineSound(Billed(row.line[k])) /\ Billed(row.line[k]).product = row.line[k].product
    <2>1. CASE row.line[k].product = None
      BY <1>3, <2>1 DEF Billed, OrderSound
    <2>2. CASE row.line[k].product # None
      <3>1. Billed(row.line[k]) = [row.line[k] EXCEPT !.bill = "billed"]
        BY <2>2 DEF Billed
      <3>2. /\ Billed(row.line[k]).product = row.line[k].product
            /\ Billed(row.line[k]).quantity = row.line[k].quantity
            /\ Billed(row.line[k]).took = row.line[k].took
            /\ Billed(row.line[k]).components = row.line[k].components
        BY <1>1, <3>1 DEF LineRow
      <3> QED
        BY <1>3, <2>2, <3>2, BillSound DEF OrderSound
    <2> QED
      BY <2>1, <2>2
  <1> QED
    BY <1>2, <1>3, <1>4 DEF OrderSound, Lines

\* A cancellation of an order that was not delivered leaves its lines alone.
LEMMA CancelSound ==
  ASSUME Sound, NEW o \in Orders, CancelOrder(o)
  PROVE  OrderSound(order'[o])
  <1>1. order[o] \in OrderRow /\ OrderSound(order[o])
    BY DEF Sound, TypeOK
  <1>2. order'[o].line = order[o].line /\ order'[o].status = "cancelled"
    BY <1>1 DEF Sound, TypeOK, OrderRow, CancelOrder
  <1>3. order[o].status # "delivered"
    BY DEF CancelOrder
  <1> QED
    BY <1>1, <1>2, <1>3 DEF OrderSound

\* Every step keeps the orders sound.
LEMMA SoundNext == LinesApart /\ Sound /\ TypeOK' /\ [Next]_vars => Sound'
  <1> SUFFICES ASSUME LinesApart, Sound, TypeOK', [Next]_vars PROVE Sound'
    OBVIOUS
  <1> DEFINE OneChanges(o) == \E new : order' = [order EXCEPT ![o] = new]
  <1>1. ASSUME NEW o \in Orders, OneChanges(o), OrderSound(order'[o]),
               UNCHANGED <<recipe, call>>
        PROVE  Sound'
    <2>1. order \in [Orders -> OrderRow]
      BY DEF Sound, TypeOK
    <2>2. \A x \in Orders : x # o => order'[x] = order[x]
      BY <1>1, <2>1
    <2>3. Placed' \subseteq Placed \cup {o}
      BY <2>2 DEF Placed
    <2>4. IsFiniteSet(Placed')
      BY <2>3, FS_AddElement, FS_Subset DEF Sound
    <2> QED
      BY <1>1, <2>2, <2>4 DEF Sound
  <1>2. ASSUME NEW o \in Orders, Accept(o) PROVE Sound'
    <2> DEFINE Both(first, second) ==
          [k \in Lines |-> IF k = 1 THEN first ELSE second]
    <2>1. PICK cart \in Carts :
            \E first \in Plans(cart[1]), second \in Plans(cart[2]) :
              order' = [order EXCEPT ![o] = OrderItems(cart, Both(first, second))]
      BY <1>2 DEF Accept
    <2>2. PICK first \in Plans(cart[1]), second \in Plans(cart[2]) :
            order' = [order EXCEPT ![o] = OrderItems(cart, Both(first, second))]
      BY <2>1
    <2>3. cart[1] \in CartLine /\ cart[2] \in CartLine
      BY StockAssumption DEF Lines
    <2>4. first \in Quantities /\ second \in Quantities
      BY <2>3, PlanType DEF Sound
    <2>5. Both(first, second) \in [Lines -> Quantities]
          /\ \A k \in Lines : Both(first, second)[k] \in Plans(cart[k])
      BY <2>4 DEF Lines
    <2> HIDE DEF Both
    <2>6. OrderSound(OrderItems(cart, Both(first, second)))
      BY <2>5, PlacedSound
    <2>7. order'[o] = OrderItems(cart, Both(first, second)) /\ OneChanges(o)
      BY <2>2 DEF Sound, TypeOK
    <2> QED
      BY <1>1, <1>2, <2>6, <2>7 DEF Accept
  <1>3. ASSUME NEW o \in Orders, CancelOrder(o) PROVE Sound'
    <2>1. OneChanges(o)
      BY <1>3 DEF CancelOrder
    <2> QED
      BY <1>1, <1>3, <2>1, CancelSound DEF CancelOrder
  <1>4. ASSUME NEW o \in Orders, Deliver(o) PROVE Sound'
    <2>1. OneChanges(o)
      BY <1>4 DEF Deliver
    <2> QED
      BY <1>1, <1>4, <2>1, DeliverSound DEF Deliver
  <1>5. ASSUME NEW o \in Orders, NEW k \in Lines, Refund(o, k) \/ RefundLost(o, k)
        PROVE  Sound'
    <2>1. PICK b \in {"returned", "writtenOff"} :
             order' = [order EXCEPT ![o].line[k].bill = b]
      BY <1>5 DEF Refund, RefundLost
    <2>2. OneChanges(o)
      BY <2>1
    <2>3. order[o].line[k].bill = "billed" /\ UNCHANGED <<recipe, call>>
      BY <1>5 DEF Refund, RefundLost
    <2> QED
      BY <1>1, <2>1, <2>2, <2>3, MarkSound
  <1>6. ASSUME order' = order, recipe' \in [Products -> Written],
               \A c \in Callers : call'[c].recipe \in Written
        PROVE  Sound'
    BY <1>6 DEF Sound, Placed
  <1>7. ASSUME NEW c \in Callers, NEW p \in Products, NEW d \in Deltas,
               RecordRead(c, p, d)
        PROVE  Sound'
    <2>1. Recording(p, d).recipe \in Written
      BY DEF Recording, Written
    <2> QED
      BY <1>6, <1>7, <2>1 DEF RecordRead, Sound, TypeOK
  <1>8. ASSUME NEW c \in Callers, NEW p \in Products, NEW r \in Written,
               ReplaceRead(c, p, r)
        PROVE  Sound'
    <2>1. Replacing(p, r).recipe \in Written
      BY DEF Replacing
    <2> QED
      BY <1>6, <1>8, <2>1 DEF ReplaceRead, Sound, TypeOK
  <1>9. ASSUME NEW c \in Callers, RecordCommit(c) \/ ReplaceCommit(c) \/ Fail(c)
        PROVE  Sound'
    <2>1. Idle.recipe \in Written
      BY DEF Idle, Written
    <2>2. \A x \in Callers : call'[x].recipe \in Written
      BY <1>9, <2>1 DEF RecordCommit, ReplaceCommit, Fail, Sound, TypeOK
    <2>3. recipe' \in [Products -> Written]
      BY <1>9 DEF RecordCommit, ReplaceCommit, Fail, Sound
    <2>4. order' = order
      BY <1>9 DEF RecordCommit, ReplaceCommit, Fail
    <2> QED
      BY <1>6, <2>2, <2>3, <2>4
  <1>10. CASE UNCHANGED vars
    BY <1>6, <1>10 DEF vars, Sound
  <1> HIDE DEF OneChanges
  <1> QED
    BY <1>2, <1>3, <1>4, <1>5, <1>7, <1>8, <1>9, <1>10 DEF Next, Written

\* The orders are sound in every reachable state.
LEMMA SoundAlways == LinesApart /\ Spec => []Sound
  <1> SUFFICES ASSUME LinesApart PROVE Spec => []Sound
    OBVIOUS
  <1>1. Sound /\ TypeOK' /\ [Next]_vars => Sound'
    BY SoundNext
  <1> QED
    BY <1>1, SoundInit, TypeCorrect, PTL DEF Spec

\* A line of an order is of its type.
LEMMA LineType ==
  ASSUME TypeOK, NEW o \in Orders, NEW k \in Lines
  PROVE  /\ order[o] \in OrderRow
         /\ order[o].line[k] \in LineRow
         /\ order[o].line[k].took \in Quantities
  BY DEF TypeOK, OrderRow, LineRow

\* Nothing more is given back.
LEMMA PlusNothing ==
  ASSUME NEW f \in Quantities
  PROVE  Plus(f, Nothing) = f /\ Plus(Nothing, f) = f
  BY DEF Quantities, Plus, Nothing

\* A cancellation gives back what the lines took.
LEMMA CancelReturns ==
  ASSUME Sound, Sound', NEW o \in Orders, CancelOrder(o)
  PROVE  /\ stock' = Plus(stock, Plus(order[o].line[1].took, order[o].line[2].took))
         /\ \A k \in Lines :
              /\ ~ Returned(o, k)
              /\ order'[o].line[k] = order[o].line[k]
              /\ Returned(o, k)' <=> order[o].line[k].product # None
              /\ order[o].line[k].product = None => order[o].line[k].took = Nothing
         /\ order[o].status = "accepted" /\ order'[o].status = "cancelled"
         /\ \A x \in Orders \ {o} : order'[x] = order[x]
  <1>1. order[o] \in OrderRow /\ OrderSound(order[o])
    BY DEF Sound, TypeOK
  <1>2. order'[o].line = order[o].line /\ order'[o].status = "cancelled"
    BY <1>1 DEF Sound, TypeOK, OrderRow, CancelOrder
  <1>3. order[o].status = "accepted"
    BY DEF CancelOrder
  <1>4. \A k \in Lines : order[o].line[k].bill = "none"
    BY <1>1, <1>3 DEF OrderSound
  <1>5. stock' = Plus(stock, Plus(order[o].line[1].took, order[o].line[2].took))
    BY <1>1 DEF CancelOrder, OrderSound, LineSound, Lines
  <1>6. \A x \in Orders \ {o} : order'[x] = order[x]
    BY DEF CancelOrder, Sound, TypeOK
  <1>7. ASSUME NEW k \in Lines
        PROVE  /\ ~ Returned(o, k)
               /\ Returned(o, k)' <=> order[o].line[k].product # None
               /\ order[o].line[k].product = None => order[o].line[k].took = Nothing
    BY <1>1, <1>2, <1>3, <1>4 DEF Returned, OrderSound, LineSound
  <1> QED
    BY <1>2, <1>3, <1>5, <1>6, <1>7

\* A refund gives back what its line took: no other line is of its product.
LEMMA RefundReturns ==
  ASSUME Sound, NEW o \in Orders, NEW k \in Lines, Refund(o, k)
  PROVE  /\ stock' = Plus(stock, order[o].line[k].took)
         /\ ~ Returned(o, k) /\ Returned(o, k)'
         /\ \A j \in Lines : order'[o].line[j].took = order[o].line[j].took
         /\ \A j \in Lines \ {k} : Returned(o, j)' <=> Returned(o, j)
         /\ order[o].status = "delivered" /\ order'[o].status = "delivered"
         /\ \A x \in Orders \ {o} : order'[x] = order[x]
  <1> DEFINE row == order[o]
  <1>1. row \in OrderRow /\ row.line[k] \in LineRow /\ OrderSound(row)
    BY DEF Sound, TypeOK, OrderRow
  <1>2. order' = [order EXCEPT ![o].line[k].bill = "returned"]
    BY DEF Refund
  <1>3. /\ order'[o].status = row.status
        /\ order'[o].line[k] = [row.line[k] EXCEPT !.bill = "returned"]
        /\ \A j \in Lines \ {k} : order'[o].line[j] = row.line[j]
        /\ \A x \in Orders \ {o} : order'[x] = order[x]
    BY <1>1, <1>2 DEF Sound, TypeOK, OrderRow
  <1>4. /\ order'[o].line[k].bill = "returned"
        /\ order'[o].line[k].took = row.line[k].took
    BY <1>1, <1>3 DEF LineRow
  <1>5. row.line[k].bill = "billed"
    BY DEF Refund
  <1>6. PICK j \in Lines : /\ row.line[j].product = row.line[k].product
                           /\ stock' = Plus(stock, Back(row.line[j]))
    BY DEF Refund
  <1> HIDE DEF row
  <1>7. row.status = "delivered" /\ row.line[k].product # None
    BY <1>1, <1>5 DEF OrderSound, LineSound
  <1>8. j = k
    BY <1>1, <1>6, <1>7 DEF OrderSound, Lines
  <1>9. stock' = Plus(stock, row.line[k].took)
    BY <1>1, <1>6, <1>8 DEF OrderSound, LineSound
  <1>10. ~ Returned(o, k) /\ Returned(o, k)'
    BY <1>4, <1>5, <1>7 DEF Returned, row
  <1>11. \A i \in Lines \ {k} : Returned(o, i)' <=> Returned(o, i)
    BY <1>3 DEF Returned, row
  <1> QED
    BY <1>3, <1>4, <1>7, <1>9, <1>10, <1>11 DEF row

\* The other steps return nothing, and change no line that was there.
LEMMA NoReturn ==
  ASSUME Sound, Sound', [Next]_vars,
         ~ \E o \in Orders : CancelOrder(o) \/ \E k \in Lines : Refund(o, k)
  PROVE  \A o \in Orders, k \in Lines : Returned(o, k)' <=> Returned(o, k)
  <1>1. ASSUME NEW o \in Orders, Accept(o)
        PROVE  \A x \in Orders, k \in Lines : Returned(x, k)' <=> Returned(x, k)
    <2>1. PICK cart \in Carts :
            \E took : order' = [order EXCEPT ![o] = OrderItems(cart, took)]
      BY <1>1 DEF Accept
    <2>2. PICK took : order' = [order EXCEPT ![o] = OrderItems(cart, took)]
      BY <2>1
    <2>3. /\ order'[o] = OrderItems(cart, took)
          /\ \A x \in Orders \ {o} : order'[x] = order[x]
      BY <2>2 DEF Sound, TypeOK
    <2>4. order'[o].status = "accepted" /\ \A k \in Lines : order'[o].line[k].bill = "none"
      BY <2>3 DEF OrderItems
    <2>5. order[o].status = "none" /\ \A k \in Lines : order[o].line[k].bill = "none"
      BY <1>1 DEF Accept, NoOrder, EmptyLine
    <2> QED
      BY <2>3, <2>4, <2>5 DEF Returned
  <1>2. ASSUME NEW o \in Orders, Deliver(o)
        PROVE  \A x \in Orders, k \in Lines : Returned(x, k)' <=> Returned(x, k)
    <2>1. /\ order'[o].status = "delivered"
          /\ \A k \in Lines : order'[o].line[k] = Billed(order[o].line[k])
          /\ \A x \in Orders \ {o} : order'[x] = order[x]
      BY <1>2 DEF Deliver, Sound, TypeOK, OrderRow
    <2>2. order[o].status = "accepted"
      BY <1>2 DEF Deliver
    <2>3. \A k \in Lines : order[o].line[k].bill = "none"
      BY <2>2 DEF Sound, OrderSound
    <2>4. \A k \in Lines : order[o].line[k] \in LineRow
      BY DEF Sound, TypeOK, OrderRow
    <2>5. \A k \in Lines : order'[o].line[k].bill # "returned"
      BY <2>1, <2>3, <2>4 DEF Billed, LineRow
    <2> QED
      BY <2>1, <2>2, <2>3, <2>5 DEF Returned
  <1>3. ASSUME NEW o \in Orders, NEW k \in Lines, RefundLost(o, k)
        PROVE  \A x \in Orders, j \in Lines : Returned(x, j)' <=> Returned(x, j)
    <2>1. order[o] \in OrderRow /\ order[o].line[k] \in LineRow
      BY DEF Sound, TypeOK, OrderRow
    <2>2. order[o].line[k].bill = "billed"
          /\ order' = [order EXCEPT ![o].line[k].bill = "writtenOff"]
      BY <1>3 DEF RefundLost
    <2>3. /\ order'[o].status = order[o].status
          /\ order'[o].line[k] = [order[o].line[k] EXCEPT !.bill = "writtenOff"]
          /\ \A j \in Lines \ {k} : order'[o].line[j] = order[o].line[j]
          /\ \A x \in Orders \ {o} : order'[x] = order[x]
      BY <2>1, <2>2 DEF Sound, TypeOK, OrderRow
    <2>4. order'[o].line[k].bill = "writtenOff"
      BY <2>1, <2>3 DEF LineRow
    <2>5. order[o].status = "delivered"
      BY <2>2 DEF Sound, OrderSound
    <2> QED
      BY <2>2, <2>3, <2>4, <2>5 DEF Returned
  <1>4. CASE order' = order
    BY <1>4 DEF Returned
  <1> QED
    BY <1>1, <1>2, <1>3, <1>4
       DEF Next, vars, RecordRead, ReplaceRead, RecordCommit, ReplaceCommit, Fail

\* A return puts back exactly what the lines took off the shelf, whatever
\* recipes were replaced since, as long as no cart names a product twice.
THEOREM ReturnsAlwaysExact == LinesApart /\ Spec => ReturnsExact
  <1> SUFFICES ASSUME LinesApart PROVE Spec => ReturnsExact
    OBVIOUS
  <1> DEFINE Exact(o) ==
        (\E k \in Lines : Returned(o, k)' /\ ~ Returned(o, k)) =>
          stock' = Plus(stock, Plus(GivenBack(o, 1), GivenBack(o, 2)))
  <1>1. Sound /\ Sound' /\ [Next]_vars => [\A o \in Orders : Exact(o)]_vars
    <2> SUFFICES ASSUME Sound, Sound', [Next]_vars PROVE \A o \in Orders : Exact(o)
      OBVIOUS
    <2>1. ASSUME NEW o \in Orders, CancelOrder(o) PROVE \A x \in Orders : Exact(x)
      <3>1. \A k \in Lines : GivenBack(o, k) = order[o].line[k].took
        BY <2>1, CancelReturns DEF GivenBack
      <3>2. Exact(o)
        BY <2>1, <3>1, CancelReturns DEF Lines
      <3>3. \A x \in Orders \ {o} : order'[x] = order[x]
        BY <2>1, CancelReturns
      <3>4. \A x \in Orders \ {o} : Exact(x)
        BY <3>3 DEF Returned
      <3> QED
        BY <3>2, <3>4
    <2>2. ASSUME NEW o \in Orders, NEW k \in Lines, Refund(o, k)
          PROVE  \A x \in Orders : Exact(x)
      <3>1. GivenBack(o, k) = order[o].line[k].took
        BY <2>2, RefundReturns DEF GivenBack
      <3>2. \A j \in Lines \ {k} : GivenBack(o, j) = Nothing
        BY <2>2, RefundReturns DEF GivenBack
      <3>3. order[o].line[k].took \in Quantities
        BY LineType DEF Sound
      <3>4. Plus(GivenBack(o, 1), GivenBack(o, 2)) = order[o].line[k].took
        <4>1. CASE k = 1
          BY <3>1, <3>2, <3>3, <4>1, PlusNothing DEF Lines
        <4>2. CASE k = 2
          BY <3>1, <3>2, <3>3, <4>2, PlusNothing DEF Lines
        <4> QED
          BY <4>1, <4>2 DEF Lines
      <3>5. Exact(o)
        BY <2>2, <3>4, RefundReturns
      <3>6. \A x \in Orders \ {o} : order'[x] = order[x]
        BY <2>2, RefundReturns
      <3>7. \A x \in Orders \ {o} : Exact(x)
        BY <3>6 DEF Returned
      <3> QED
        BY <3>5, <3>7
    <2>3. CASE ~ \E o \in Orders : CancelOrder(o) \/ \E k \in Lines : Refund(o, k)
      BY <2>3, NoReturn
    <2> QED
      BY <2>1, <2>2, <2>3
  <1> QED
    BY <1>1, SoundAlways, PTL DEF Spec, ReturnsExact

(***************************************************************************)
(* The shelves are accounted for.                                          *)
(***************************************************************************)
\* What an order has off the shelf.
Outs(p) == [o \in Orders |-> Out(o, 1, p) + Out(o, 2, p)]

\* It is a number of units.
LEMMA OutType ==
  ASSUME TypeOK, NEW o \in Orders, NEW p \in Products
  PROVE  /\ \A k \in Lines : Out(o, k, p) \in Nat
         /\ Outs(p)[o] = Out(o, 1, p) + Out(o, 2, p)
         /\ Outs(p)[o] \in Int
  <1>1. \A k \in Lines : Out(o, k, p) \in Nat
    BY LineType DEF Out, Quantities
  <1> QED
    BY <1>1 DEF Outs, Lines

OutTyped == \A o \in Orders, p \in Products :
              /\ \A k \in Lines : Out(o, k, p) \in Nat
              /\ Outs(p)[o] = Out(o, 1, p) + Out(o, 2, p)
              /\ Outs(p)[o] \in Int

\* The same in the next state.
LEMMA OutTypeNext == TypeOK' => OutTyped'
  <1>1. TypeOK => OutTyped
    BY OutType DEF OutTyped
  <1> QED
    BY <1>1, PTL

\* An order that was placed changes: so does what is sold.
LEMMA SoldChanges ==
  ASSUME Sound, Sound', NEW o \in Placed, order'[o] # NoOrder,
         \A x \in Orders \ {o} : order'[x] = order[x], NEW p \in Products
  PROVE  /\ Sold(p)' = Sold(p) + (Outs(p)'[o] - Outs(p)[o])
         /\ Sold(p) \in Int
  <1>1. o \in Orders /\ Placed' = Placed /\ Placed \subseteq Orders
    BY DEF Placed
  <1>2. \A x \in Orders : Outs(p)[x] \in Int /\ Outs(p)'[x] \in Int
    BY OutType, OutTypeNext DEF Sound, OutTyped
  <1>3. \A x \in Orders \ {o} : Outs(p)'[x] = Outs(p)[x]
    BY DEF Outs, Out, Returned
  <1>4. IsFiniteSet(Placed)
    BY DEF Sound
  <1>5. Sold(p) = SumOver(Outs(p), Placed) /\ Sold(p)' = SumOver(Outs(p)', Placed')
    BY DEF Sold, Outs
  <1> QED
    BY <1>1, <1>2, <1>3, <1>4, <1>5, SumChange, SumType

\* An order is placed: what it takes is sold.
LEMMA SoldPlaces ==
  ASSUME Sound, Sound', NEW o \in Orders, order[o] = NoOrder, order'[o] # NoOrder,
         \A x \in Orders \ {o} : order'[x] = order[x], NEW p \in Products
  PROVE  /\ Sold(p)' = Sold(p) + Outs(p)'[o]
         /\ Sold(p) \in Int
  <1>1. Placed' = Placed \cup {o} /\ o \notin Placed /\ Placed \subseteq Orders
    BY DEF Placed
  <1>2. \A x \in Orders : Outs(p)[x] \in Int /\ Outs(p)'[x] \in Int
    BY OutType, OutTypeNext DEF Sound, OutTyped
  <1>3. \A x \in Orders \ {o} : Outs(p)'[x] = Outs(p)[x]
    BY DEF Outs, Out, Returned
  <1>4. IsFiniteSet(Placed)
    BY DEF Sound
  <1>5. Sold(p) = SumOver(Outs(p), Placed) /\ Sold(p)' = SumOver(Outs(p)', Placed')
    BY DEF Sold, Outs
  <1>6. \A x \in Placed : Outs(p)'[x] = Outs(p)[x]
    BY <1>1, <1>3
  <1>7. SumOver(Outs(p)', Placed) = SumOver(Outs(p), Placed)
    BY <1>4, <1>6, SumSame
  <1>8. SumOver(Outs(p)', Placed \cup {o})
          = Outs(p)'[o] + SumOver(Outs(p)', Placed)
    BY <1>1, <1>2, <1>4, SumAdd
  <1>9. Sold(p) \in Int
    BY <1>1, <1>2, <1>4, <1>5, SumType
  <1>10. Outs(p)'[o] \in Int
    BY <1>2
  <1> QED
    BY <1>1, <1>5, <1>7, <1>8, <1>9, <1>10

\* No order changes what it has off the shelf: what is sold stays.
LEMMA SoldStays ==
  ASSUME Sound, order' = order, NEW p \in Products
  PROVE  Sold(p)' = Sold(p)
  BY DEF Sold, Placed, Out, Returned

\* An accept takes off the shelf what its order has out.
LEMMA AcceptAccounts ==
  ASSUME Sound, Sound', NEW o \in Orders, Accept(o), NEW p \in Products
  PROVE  Gap(p)' = Gap(p)
  <1> DEFINE Both(first, second) ==
        [k \in Lines |-> IF k = 1 THEN first ELSE second]
  <1>1. PICK cart \in Carts :
          \E first \in Plans(cart[1]), second \in Plans(cart[2]) :
            /\ stock' = [q \in Products |-> stock[q] - (first[q] + second[q])]
            /\ order' = [order EXCEPT ![o] = OrderItems(cart, Both(first, second))]
    BY DEF Accept
  <1>2. PICK first \in Plans(cart[1]), second \in Plans(cart[2]) :
          /\ stock' = [q \in Products |-> stock[q] - (first[q] + second[q])]
          /\ order' = [order EXCEPT ![o] = OrderItems(cart, Both(first, second))]
    BY <1>1
  <1>3. cart[1] \in CartLine /\ cart[2] \in CartLine
    BY StockAssumption DEF Lines
  <1>4. first[p] \in Nat /\ second[p] \in Nat
    BY <1>3, PlanType DEF Sound, Quantities
  <1>5. Both(first, second)[1] = first /\ Both(first, second)[2] = second
    BY DEF Lines
  <1> HIDE DEF Both
  <1>6. /\ order'[o] = OrderItems(cart, Both(first, second))
        /\ \A x \in Orders \ {o} : order'[x] = order[x]
    BY <1>2 DEF Sound, TypeOK
  <1>7. /\ order'[o].status = "accepted"
        /\ order'[o].line[1].took = first /\ order'[o].line[2].took = second
        /\ order'[o].line[1].bill = "none" /\ order'[o].line[2].bill = "none"
    BY <1>5, <1>6 DEF OrderItems, Lines
  <1>8. Out(o, 1, p)' = first[p] /\ Out(o, 2, p)' = second[p]
    BY <1>7 DEF Out, Returned
  <1>9. Outs(p)'[o] = first[p] + second[p]
    BY <1>8 DEF Outs
  <1>10. order[o] = NoOrder /\ order'[o] # NoOrder
    BY <1>7 DEF Accept, NoOrder
  <1>11. Sold(p)' = Sold(p) + (first[p] + second[p]) /\ Sold(p) \in Int
    BY <1>6, <1>9, <1>10, SoldPlaces
  <1>12. stock'[p] = stock[p] - (first[p] + second[p]) /\ stock[p] \in Int
    BY <1>2 DEF Sound, TypeOK
  <1>13. moved' = moved /\ moved[p] \in Int /\ OpeningStock[p] \in Int
    BY StockAssumption DEF Accept, Sound, TypeOK
  <1> QED
    BY <1>4, <1>11, <1>12, <1>13 DEF Gap

\* A cancellation puts back what its order has out.
LEMMA CancelAccounts ==
  ASSUME Sound, Sound', NEW o \in Orders, CancelOrder(o), NEW p \in Products
  PROVE  Gap(p)' = Gap(p)
  <1> DEFINE a == order[o].line[1].took[p]
             b == order[o].line[2].took[p]
  <1>1. a \in Nat /\ b \in Nat
    BY LineType DEF Sound, Quantities, Lines
  <1>2. stock'[p] = stock[p] + (a + b) /\ stock[p] \in Int
    <2>1. stock' = Plus(stock, Plus(order[o].line[1].took, order[o].line[2].took))
      BY CancelReturns
    <2> QED
      BY <2>1 DEF Plus, Sound, TypeOK
  <1>3. Out(o, 1, p) = a /\ Out(o, 2, p) = b
    BY CancelReturns DEF Out, Lines
  <1>4. \A k \in Lines : Out(o, k, p)' = 0
    <2> SUFFICES ASSUME NEW k \in Lines PROVE Out(o, k, p)' = 0
      OBVIOUS
    <2>1. CASE order[o].line[k].product = None
      BY <2>1, CancelReturns DEF Out, Nothing
    <2>2. CASE order[o].line[k].product # None
      BY <2>2, CancelReturns DEF Out
    <2> QED
      BY <2>1, <2>2
  <1>5. Outs(p)[o] = a + b /\ Outs(p)'[o] = 0
    BY <1>3, <1>4 DEF Outs, Lines
  <1>6. o \in Placed /\ order'[o] # NoOrder
    BY CancelReturns DEF Placed, NoOrder
  <1>7. /\ Sold(p)' = Sold(p) + (Outs(p)'[o] - Outs(p)[o])
        /\ Sold(p) \in Int
    <2>1. \A x \in Orders \ {o} : order'[x] = order[x]
      BY CancelReturns
    <2> QED
      BY <1>6, <2>1, SoldChanges
  <1>8. moved' = moved /\ moved[p] \in Int /\ OpeningStock[p] \in Int
    BY StockAssumption DEF CancelOrder, Sound, TypeOK
  <1> HIDE DEF a, b
  <1> QED
    BY <1>1, <1>2, <1>5, <1>7, <1>8 DEF Gap

\* A refund puts back what its line has out.
LEMMA RefundAccounts ==
  ASSUME Sound, Sound', NEW o \in Orders, NEW k \in Lines, Refund(o, k),
         NEW p \in Products
  PROVE  Gap(p)' = Gap(p)
  <1> DEFINE a == order[o].line[k].took[p]
  <1>1. a \in Nat
    BY LineType DEF Sound, Quantities
  <1>2. stock'[p] = stock[p] + a /\ stock[p] \in Int
    <2>1. stock' = Plus(stock, order[o].line[k].took)
      BY RefundReturns
    <2> QED
      BY <2>1 DEF Plus, Sound, TypeOK
  <1>3. Out(o, k, p) = a /\ Out(o, k, p)' = 0
    BY RefundReturns DEF Out
  <1>4. \A j \in Lines \ {k} : Out(o, j, p)' = Out(o, j, p)
    <2> SUFFICES ASSUME NEW j \in Lines \ {k} PROVE Out(o, j, p)' = Out(o, j, p)
      OBVIOUS
    <2>1. /\ order'[o].line[j].took = order[o].line[j].took
          /\ Returned(o, j)' <=> Returned(o, j)
      BY RefundReturns
    <2> QED
      BY <2>1 DEF Out
  <1>5. Out(o, 1, p) \in Nat /\ Out(o, 2, p) \in Nat
    BY OutType DEF Sound, Lines
  <1>6. Outs(p)'[o] - Outs(p)[o] = 0 - a
    <2>1. /\ Outs(p)[o] = Out(o, 1, p) + Out(o, 2, p)
          /\ Outs(p)'[o] = Out(o, 1, p)' + Out(o, 2, p)'
      BY DEF Outs
    <2> HIDE DEF a
    <2>2. CASE k = 1
      <3>1. Out(o, 2, p)' = Out(o, 2, p)
        BY <1>4, <2>2 DEF Lines
      <3> QED
        BY <1>1, <1>3, <1>5, <2>1, <2>2, <3>1
    <2>3. CASE k = 2
      <3>1. Out(o, 1, p)' = Out(o, 1, p)
        BY <1>4, <2>3 DEF Lines
      <3> QED
        BY <1>1, <1>3, <1>5, <2>1, <2>3, <3>1
    <2> QED
      BY <2>2, <2>3 DEF Lines
  <1>7. o \in Placed /\ order'[o] # NoOrder
    BY RefundReturns DEF Placed, NoOrder
  <1>8. /\ Sold(p)' = Sold(p) + (Outs(p)'[o] - Outs(p)[o])
        /\ Sold(p) \in Int
    <2>1. \A x \in Orders \ {o} : order'[x] = order[x]
      BY RefundReturns
    <2> QED
      BY <1>7, <2>1, SoldChanges
  <1>9. moved' = moved /\ moved[p] \in Int /\ OpeningStock[p] \in Int
    BY StockAssumption DEF Refund, Sound, TypeOK
  <1> HIDE DEF a
  <1> QED
    BY <1>1, <1>2, <1>6, <1>8, <1>9 DEF Gap

\* A delivery, and a refund that recovers nothing, leave the shelf alone, and
\* what the order has out.
LEMMA BillAccounts ==
  ASSUME Sound, Sound', [Next]_vars, NEW o \in Orders,
         Deliver(o) \/ \E k \in Lines : RefundLost(o, k), NEW p \in Products
  PROVE  Gap(p)' = Gap(p)
  <1>1. UNCHANGED <<stock, moved>>
    BY DEF Deliver, RefundLost
  <1>2. /\ order'[o].status = "delivered"
        /\ \A k \in Lines : order'[o].line[k].took = order[o].line[k].took
        /\ \A x \in Orders \ {o} : order'[x] = order[x]
        /\ order[o].status # "none"
    <2>1. order[o] \in OrderRow /\ \A k \in Lines : order[o].line[k] \in LineRow
      BY DEF Sound, TypeOK, OrderRow
    <2>2. CASE Deliver(o)
      <3>1. /\ order'[o].status = "delivered"
            /\ \A k \in Lines : order'[o].line[k] = Billed(order[o].line[k])
            /\ \A x \in Orders \ {o} : order'[x] = order[x]
        BY <2>1, <2>2 DEF Deliver, Sound, TypeOK, OrderRow
      <3>2. \A k \in Lines : order'[o].line[k].took = order[o].line[k].took
        BY <2>1, <3>1 DEF Billed, LineRow
      <3> QED
        BY <2>2, <3>1, <3>2 DEF Deliver
    <2>3. ASSUME NEW k \in Lines, RefundLost(o, k)
          PROVE  /\ order'[o].status = "delivered"
                 /\ \A j \in Lines : order'[o].line[j].took = order[o].line[j].took
                 /\ \A x \in Orders \ {o} : order'[x] = order[x]
                 /\ order[o].status # "none"
      <3>1. /\ order'[o].status = order[o].status
            /\ order'[o].line[k] = [order[o].line[k] EXCEPT !.bill = "writtenOff"]
            /\ \A j \in Lines \ {k} : order'[o].line[j] = order[o].line[j]
            /\ \A x \in Orders \ {o} : order'[x] = order[x]
        BY <2>1, <2>3 DEF RefundLost, Sound, TypeOK, OrderRow
      <3>2. order'[o].line[k].took = order[o].line[k].took
        BY <2>1, <3>1 DEF LineRow
      <3>3. order[o].status = "delivered"
        BY <2>3 DEF RefundLost, Sound, OrderSound
      <3> QED
        BY <3>1, <3>2, <3>3
    <2> QED
      BY <2>2, <2>3
  <1>3. ~ \E x \in Orders : CancelOrder(x) \/ \E k \in Lines : Refund(x, k)
    <2>1. \A x \in Orders : CancelOrder(x) => x = o /\ order'[x].status = "cancelled"
      BY <1>2 DEF CancelOrder, Sound, TypeOK, OrderRow
    <2>2. ASSUME NEW x \in Orders, NEW k \in Lines, Refund(x, k) PROVE FALSE
      <3>1. ~ Returned(x, k) /\ Returned(x, k)'
        BY <2>2, RefundReturns
      <3>2. x = o
        BY <1>2, <3>1 DEF Returned
      <3>3. CASE Deliver(o)
        BY <2>2, <3>2, <3>3 DEF Deliver, Refund, Sound, OrderSound
      <3>4. ASSUME NEW j \in Lines, RefundLost(o, j) PROVE FALSE
        <4>1. order[o].line[j] \in LineRow /\ order[o].line[k].bill = "billed"
          BY <2>2, <3>2 DEF Refund, Sound, TypeOK, OrderRow
        <4>2. order'[o].line[j] = [order[o].line[j] EXCEPT !.bill = "writtenOff"]
              /\ \A i \in Lines \ {j} : order'[o].line[i] = order[o].line[i]
          BY <3>4 DEF RefundLost, Sound, TypeOK, OrderRow
        <4>3. order'[o].line[j].bill = "writtenOff"
          BY <4>1, <4>2 DEF LineRow
        <4>4. order'[o].line[k].bill # "returned"
          BY <4>1, <4>2, <4>3
        <4> QED
          BY <1>2, <3>1, <3>2, <4>4 DEF Returned
      <3> QED
        BY <3>3, <3>4
    <2> QED
      BY <1>2, <2>1, <2>2
  <1>4. \A k \in Lines : Out(o, k, p)' = Out(o, k, p)
    <2> SUFFICES ASSUME NEW k \in Lines PROVE Out(o, k, p)' = Out(o, k, p)
      OBVIOUS
    <2>1. Returned(o, k)' <=> Returned(o, k)
      BY <1>3, NoReturn
    <2> QED
      BY <1>2, <2>1 DEF Out
  <1>5. Outs(p)'[o] = Outs(p)[o] /\ Outs(p)[o] \in Int
    <2>1. Outs(p)'[o] = Outs(p)[o]
      BY <1>4 DEF Outs, Lines
    <2> QED
      BY <2>1, OutType DEF Sound
  <1>6. o \in Placed /\ order'[o] # NoOrder
    BY <1>2 DEF Placed, NoOrder
  <1>7. Sold(p)' = Sold(p)
    BY <1>2, <1>5, <1>6, SoldChanges
  <1> QED
    BY <1>1, <1>7 DEF Gap

\* A movement that read the stock there still is adds what it writes down.
LEMMA MovementAccounts ==
  ASSUME Sound, NEW c \in Callers, RecordCommit(c), ~ Stale(c), NEW p \in Products
  PROVE  Gap(p)' = Gap(p)
  <1>1. /\ call[c].delta \in Int /\ call[c].next \in Int
        /\ stock \in [Products -> Int] /\ moved \in [Products -> Int]
    BY DEF Sound, TypeOK, CallState
  <1>2. Sold(p)' = Sold(p)
    BY SoldStays DEF RecordCommit
  <1>3. OpeningStock[p] \in Int
    BY StockAssumption
  <1>4. Sold(p) \in Int
    <2>1. \A x \in Placed : Outs(p)[x] \in Int
      BY OutType DEF Sound, Placed
    <2>2. Sold(p) = SumOver(Outs(p), Placed)
      BY DEF Sold, Outs
    <2> QED
      BY <2>1, <2>2, SumType DEF Sound
  <1>5. CASE p = call[c].product
    <2>1. stock[p] = call[c].next - call[c].delta
      BY <1>5 DEF Stale, RecordCommit
    <2>2. stock'[p] = call[c].next /\ moved'[p] = moved[p] + call[c].delta
      BY <1>1, <1>5 DEF RecordCommit
    <2> QED
      BY <1>1, <1>2, <1>3, <1>4, <2>1, <2>2 DEF Gap
  <1>6. CASE p # call[c].product
    <2>1. stock'[p] = stock[p] /\ moved'[p] = moved[p]
      BY <1>1, <1>6 DEF RecordCommit
    <2> QED
      BY <1>2, <2>1 DEF Gap
  <1> QED
    BY <1>5, <1>6

\* Only a movement that commits a stale read makes units appear or vanish.
THEOREM StockAlwaysAccountedFor == LinesApart /\ Spec => StockAccountedFor
  <1> SUFFICES ASSUME LinesApart PROVE Spec => StockAccountedFor
    OBVIOUS
  <1> DEFINE Accounted == \/ \E c \in Callers : Stale(c) /\ call'[c] # call[c]
                          \/ \A p \in Products : Gap(p)' = Gap(p)
  <1>1. Sound /\ Sound' /\ [Next]_vars => [Accounted]_vars
    <2> SUFFICES ASSUME Sound, Sound', [Next]_vars PROVE Accounted
      OBVIOUS
    <2>1. ASSUME NEW o \in Orders, Accept(o) PROVE Accounted
      BY <2>1, AcceptAccounts
    <2>2. ASSUME NEW o \in Orders, CancelOrder(o) PROVE Accounted
      BY <2>2, CancelAccounts
    <2>3. ASSUME NEW o \in Orders, NEW k \in Lines, Refund(o, k) PROVE Accounted
      BY <2>3, RefundAccounts
    <2>4. ASSUME NEW o \in Orders, Deliver(o) \/ \E k \in Lines : RefundLost(o, k)
          PROVE  Accounted
      BY <2>4, BillAccounts
    <2>5. ASSUME NEW c \in Callers, RecordCommit(c) PROVE Accounted
      <3>1. CASE Stale(c)
        <4>1. call'[c] = Idle /\ call[c].step = "record"
          BY <2>5 DEF RecordCommit, Sound, TypeOK
        <4>2. call'[c] # call[c]
          BY <4>1 DEF Idle
        <4> QED
          BY <3>1, <4>2
      <3>2. CASE ~ Stale(c)
        BY <2>5, <3>2, MovementAccounts
      <3> QED
        BY <3>1, <3>2
    <2>6. CASE UNCHANGED <<stock, order, moved>>
      <3>1. \A p \in Products : Gap(p)' = Gap(p)
        BY <2>6, SoldStays DEF Gap
      <3> QED
        BY <3>1
    <2> HIDE DEF Accounted
    <2> QED
      BY <2>1, <2>2, <2>3, <2>4, <2>5, <2>6
         DEF Next, vars, RecordRead, ReplaceRead, ReplaceCommit, Fail
  <1> QED
    BY <1>1, SoundAlways, PTL DEF Spec, StockAccountedFor
=============================================================================
