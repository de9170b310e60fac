-------------------------------- MODULE Cart --------------------------------
(***************************************************************************)
(* One user's cart and the orders made from it: CartService, and            *)
(* OrdersService.createOrderFromCart.  The requests of one user run         *)
(* concurrently (two tabs, a double click, a retry); the carts of different *)
(* users have no row in common.                                             *)
(***************************************************************************)
EXTENDS Store, FiniteSetsExt

CONSTANTS
    Types,       \* ticket types; each belongs to an event of its own
    Rows,        \* identities of cart rows
    TypeOf,      \* TypeOf[w]: the ticket type row w is for
    PlacedRows,  \* PlacedRows[w]: quantity of w if it is in the cart at the start, else 0
    Stock,       \* Stock[t]: what TicketType.available says; no sale changes it
    MaxQuantity, \* bound: the largest quantity a request asks for
    NoType       \* orderType[o] of an order that was not made from this cart

ASSUME RowsAssumption == IsFiniteSet(Rows) /\ Rows # {} /\ IsFiniteSet(Types)
ASSUME TypeOfAssumption == TypeOf \in [Rows -> Types]
ASSUME PlacedRowsAssumption == PlacedRows \in [Rows -> Nat]
ASSUME StockAssumption == Stock \in [Types -> Nat] /\ MaxQuantity \in Nat
ASSUME NoTypeAssumption == NoType \notin Types

VARIABLES
    qty,        \* qty[w]: CartItem.quantity, 0 if w is not stored
    fresh,      \* identities no request has used yet
    orderType,  \* orderType[o]: what the order is for
    lastOrder,  \* sequence number of the latest order of the day
    row,        \* row[r]: the row request r has read, or built
    lines,      \* lines[r][t]: quantity r has read and not yet made an order of
    made        \* made[r]: the orders r made

cartVars == <<qty, fresh, orderType, lastOrder>>
checkoutVars == <<lines, made>>

InCart(t) == {w \in Rows : TypeOf[w] = t /\ qty[w] > 0}
Total(t) == MapThenSumSet(LAMBDA w : qty[w], InCart(t))
Totals == [t \in Types |-> Total(t)]
CartIsEmpty == \A w \in Rows : qty[w] = 0

\* What the cart's requests leave alone.
CartFrame == UNCHANGED <<orderVars, txnVars, ticketVars, moneyVars, ord, tgt,
                         left, todo, orderType, lastOrder, checkoutVars>>

(***************************************************************************)
(* addToCart: an existing row of the type is raised, or a row is built.     *)
(***************************************************************************)
Addable(t, n, total) == n <= Stock[t] /\ total <= Stock[t]

AddRead(r) ==
    /\ Kind[r] = "addToCart" /\ pc[r] = "idle"
    /\ \E t \in Types, n \in 1 .. MaxQuantity :
        \/ \E w \in InCart(t) :
            /\ row' = [row EXCEPT ![r] = w]
            /\ num' = [num EXCEPT ![r] = qty[w] + n]
            /\ Goto(r, IF Addable(t, n, qty[w] + n) THEN "rowSave" ELSE "error")
            /\ UNCHANGED fresh
        \/ \E w \in fresh :
            /\ TypeOf[w] = t /\ InCart(t) = {}
            /\ fresh' = fresh \ {w}
            /\ row' = [row EXCEPT ![r] = w]
            /\ num' = [num EXCEPT ![r] = n]
            /\ Goto(r, IF Addable(t, n, n) THEN "rowInsert" ELSE "error")
    /\ CartFrame /\ UNCHANGED qty

InsertRow(r) ==
    /\ pc[r] = "rowInsert"
    /\ qty' = [qty EXCEPT ![row[r]] = num[r]]
    /\ Goto(r, "ok")
    /\ CartFrame /\ UNCHANGED <<fresh, row, num>>

\* save() of a row that was read: an error if it was deleted since.
SaveRow(r) ==
    /\ pc[r] = "rowSave"
    /\ \/ /\ qty[row[r]] > 0
          /\ qty' = [qty EXCEPT ![row[r]] = num[r]]
          /\ Goto(r, "ok")
       \/ /\ qty[row[r]] = 0
          /\ Goto(r, "error")
          /\ UNCHANGED qty
    /\ CartFrame /\ UNCHANGED <<fresh, row, num>>

(***************************************************************************)
(* updateCartItem and removeFromCart.                                       *)
(***************************************************************************)
\* The quantity the row has is added to what is available.
Updatable(w, n) == n <= Stock[TypeOf[w]] + qty[w]

UpdateRead(r) ==
    /\ Kind[r] = "updateCart" /\ pc[r] = "idle"
    /\ \E w \in Rows, n \in 0 .. MaxQuantity :
        /\ qty[w] > 0
        /\ row' = [row EXCEPT ![r] = w]
        /\ num' = [num EXCEPT ![r] = n]
        /\ Goto(r, IF ~Updatable(w, n) THEN "error"
                   ELSE IF n = 0 THEN "rowDelete"
                   ELSE IF n = qty[w] THEN "ok" ELSE "rowSave")
    /\ CartFrame /\ UNCHANGED <<qty, fresh>>

DeleteRow(r) ==
    /\ \/ pc[r] = "rowDelete" /\ UNCHANGED row
       \/ /\ Kind[r] = "removeFromCart" /\ pc[r] = "idle"
          /\ \E w \in Rows : row' = [row EXCEPT ![r] = w]
    /\ qty' = [qty EXCEPT ![row'[r]] = 0]
    /\ Goto(r, "ok")
    /\ CartFrame /\ UNCHANGED <<fresh, num>>

(***************************************************************************)
(* createOrderFromCart: the cart is read, one order per event is stored     *)
(* under a number of its own, and every row of the user is deleted.         *)
(***************************************************************************)
ReadCart(r) ==
    /\ lines' = [lines EXCEPT ![r] = Totals]
    /\ Goto(r, IF CartIsEmpty THEN "error" ELSE "orderNumber")
    /\ UNCHANGED <<orderVars, txnVars, ticketVars, moneyVars, localVars,
                   cartVars, row, made>>

BeginCheckout(r) ==
    /\ Kind[r] = "checkout" /\ pc[r] = "idle"
    /\ ReadCart(r)

\* generateOrderNumber: one more than the highest number of the day.
ReadOrderNumber(r) ==
    /\ pc[r] = "orderNumber"
    /\ num' = [num EXCEPT ![r] = lastOrder + 1]
    /\ Goto(r, "orderSave")
    /\ UNCHANGED <<orderVars, txnVars, ticketVars, moneyVars, ord, tgt, left,
                   todo, cartVars, row, checkoutVars>>

\* orderNumber is unique: another request stored this number first.
OrderNumberTaken(r) == num[r] <= lastOrder

\* Mutant: the order of a group takes the rows of one unit only.
OneOf(r, t) == 1

OrderUnits(r, t) == lines[r][t]

SaveOrder(r) ==
    /\ pc[r] = "orderSave" /\ ~OrderNumberTaken(r)
    /\ lastOrder' = num[r]
    /\ \E o \in Orders, t \in Types :
        /\ orderStatus[o] = "none" /\ lines[r][t] > 0
        /\ orderStatus' = [orderStatus EXCEPT ![o] = "pending_payment"]
        /\ units' = [units EXCEPT ![o] = OrderUnits(r, t)]
        /\ orderType' = [orderType EXCEPT ![o] = t]
        /\ lines' = [lines EXCEPT ![r][t] = 0]
        /\ made' = [made EXCEPT ![r] = @ \cup {o}]
        /\ Goto(r, IF \A u \in Types \ {t} : lines[r][u] = 0
                   THEN "clearCart" ELSE "orderNumber")
    /\ UNCHANGED <<txnVars, ticketVars, moneyVars, localVars, qty, fresh, row>>

\* The orders stored before stay, and so does the cart.
OrderClash(r) ==
    /\ pc[r] = "orderSave" /\ OrderNumberTaken(r)
    /\ Answer(r, "error")
    /\ UNCHANGED <<orderVars, txnVars, ticketVars, moneyVars, cartVars, row,
                   checkoutVars>>

\* deleteMany by user: rows that were never read go as well.
ClearCart(r, after) ==
    /\ pc[r] = "clearCart"
    /\ qty' = [w \in Rows |-> 0]
    /\ Answer(r, after)
    /\ UNCHANGED <<orderVars, txnVars, ticketVars, moneyVars, fresh, orderType,
                   lastOrder, row, checkoutVars>>

CartInit ==
    /\ qty = PlacedRows
    /\ fresh = {w \in Rows : PlacedRows[w] = 0}
    /\ orderType = [o \in Orders |-> NoType]
    /\ lastOrder = 0
    /\ row = [r \in Requests |-> CHOOSE w \in Rows : TRUE]
    /\ lines = [r \in Requests |-> [t \in Types |-> 0]]
    /\ made = [r \in Requests |-> {}]
=============================================================================
