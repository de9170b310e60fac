------------------------------ MODULE Checkout ------------------------------
(***************************************************************************)
(* The checkout as a whole: a cart, the orders made from it, instant        *)
(* payment (POST /payments/process-instant: charge first, then make the     *)
(* orders), and the handlers of OrderPayment on the same orders,            *)
(* transactions and tickets.                                                *)
(***************************************************************************)
EXTENDS OrderPayment, Cart

VARIABLES
    due,     \* due[r]: the cart's total that instant payment r is charged
    txnNum,  \* txnNum[r]: the transaction number r computed first
    edited   \* the instant payments during whose charge a row of the cart was
             \* added, changed or removed; no handler reads it

instantVars == <<due, txnNum, edited>>
newVars == <<cartVars, row, checkoutVars, instantVars>>
checkVars == <<payVars, newVars>>

\* What a step of an instant payment leaves alone, the cart included.
KeepCart == UNCHANGED <<cartVars, row, checkoutVars>>

(***************************************************************************)
(* PaymentsService.processInstantPayment                                    *)
(***************************************************************************)
\* generateTransactionId comes first; the document is saved at the end.
BeginInstant(r) ==
    /\ Kind[r] = "instant" /\ pc[r] = "idle"
    /\ txnNum' = [txnNum EXCEPT ![r] = lastTxn + 1]
    /\ Answer(r, "quote")
    /\ KeepCart
    /\ UNCHANGED <<orderVars, txnVars, ticketVars, moneyVars, overdue, due, edited>>

\* The sum over the cart's rows, every unit at the price one.
CartTotal == MapThenSumSet(LAMBDA t : Totals[t], Types)

\* The cart is read for its total.  The charge follows, if the payment method
\* is found and is a Culqi one with a key.
Quote(r) ==
    /\ pc[r] = "quote"
    /\ due' = [due EXCEPT ![r] = CartTotal]
    /\ \E usable \in BOOLEAN :
        Answer(r, IF CartIsEmpty \/ ~usable THEN "error" ELSE "instantCharge")
    /\ KeepCart
    /\ UNCHANGED <<orderVars, txnVars, ticketVars, moneyVars, overdue, txnNum, edited>>

\* What is not approved is thrown, and nothing is stored.
InstantCharge(r) ==
    /\ pc[r] = "instantCharge"
    /\ \E taken, approved \in BOOLEAN :
        /\ Reported(taken, approved)
        /\ captured' = [captured EXCEPT ![r] = taken]
        /\ Answer(r, IF approved THEN "orderCart" ELSE "error")
    /\ KeepCart
    /\ UNCHANGED <<orderVars, txnVars, ticketVars, refunds, overdue, instantVars>>

\* createOrderFromCart reads the cart again, whatever it holds by now.
OrderCart(r) ==
    /\ pc[r] = "orderCart"
    /\ ReadCart(r)
    /\ UNCHANGED <<overdue, instantVars>>

\* Mutant: the primary order only.
PrimaryOrder(r) == {CHOOSE o \in made[r] : TRUE}

PaidOrders(r) == made[r]

\* The transaction is stored, completed, with the orders' ids.
SaveInstantTxn(r) ==
    /\ pc[r] = "txnSave" /\ txnNum[r] > lastTxn
    /\ lastTxn' = txnNum[r]
    /\ txnStatus' = [txnStatus EXCEPT ![r] = "completed"]
    /\ txnCharge' = [txnCharge EXCEPT ![r] = TRUE]
    /\ txnOrders' = [txnOrders EXCEPT ![r] = made[r]]
    /\ todo' = [todo EXCEPT ![r] = PaidOrders(r)]
    /\ Goto(r, "nextOrder")
    /\ KeepCart
    /\ UNCHANGED <<orderVars, ticketVars, moneyVars, overdue, instantVars,
                   ord, tgt, num, left>>

\* Its number was taken: the orders and the charge have no transaction.
InstantTxnClash(r) ==
    /\ pc[r] = "txnSave" /\ txnNum[r] <= lastTxn
    /\ Answer(r, "error")
    /\ KeepCart
    /\ UNCHANGED <<orderVars, txnVars, ticketVars, moneyVars, overdue, instantVars>>

\* The next order is PAID, and its tickets are generated.
PayNextOrder(r) ==
    /\ pc[r] = "nextOrder"
    /\ \E o \in todo[r] :
        /\ ord' = [ord EXCEPT ![r] = o]
        /\ todo' = [todo EXCEPT ![r] = @ \ {o}]
        /\ left' = [left EXCEPT ![r] = units[o]]
        /\ WriteStatus(o, "paid")
    /\ Goto(r, "ticketNumber")
    /\ KeepCart
    /\ UNCHANGED <<units, txnVars, ticketVars, moneyVars, overdue, instantVars,
                   tgt, num>>

\* An error leaves the loop over the orders as well.
InstantTickets(r) ==
    /\ Kind[r] = "instant"
    /\ \/ ReadTicketNumber(r)
       \/ SaveTicket(r, IF todo[r] = {} THEN "ok" ELSE "nextOrder")
       \/ TicketClash(r, "error")
    /\ KeepCart
    /\ UNCHANGED <<overdue, instantVars>>

(***************************************************************************)
(* refundPayment: the loop over the transaction's orders.                   *)
(***************************************************************************)
RefundOrder(r) ==
    /\ pc[r] = "refundOrder"
    /\ \E o \in todo[r] :
        /\ ord' = [ord EXCEPT ![r] = o]
        /\ todo' = [todo EXCEPT ![r] = @ \ {o}]
        /\ WriteStatus(o, "refunded")
    /\ Goto(r, "cancelTickets")
    /\ KeepCart
    /\ UNCHANGED <<units, txnVars, ticketVars, moneyVars, overdue, instantVars,
                   tgt, num, left>>

\* TicketsService.cancelTicketsForOrder.
CancelTickets(r) ==
    /\ pc[r] = "cancelTickets"
    /\ active' = [active EXCEPT ![ord[r]] = 0]
    /\ Answer(r, IF todo[r] = {} THEN "ok" ELSE "refundOrder")
    /\ KeepCart
    /\ UNCHANGED <<orderVars, txnVars, lastTicket, issued, moneyVars, overdue,
                   instantVars>>

(***************************************************************************)
(* The specification                                                        *)
(***************************************************************************)
CartStep(r) ==
    \/ InsertRow(r) \/ SaveRow(r)
    \/ pc[r] = "rowDelete" /\ DeleteRow(r)
    \/ ReadOrderNumber(r) \/ SaveOrder(r) \/ OrderClash(r)
    \/ ClearCart(r, IF Kind[r] = "instant" THEN "txnSave" ELSE "ok")

CartBegin(r) ==
    \/ AddRead(r) \/ UpdateRead(r) \/ BeginCheckout(r)
    \/ pc[r] = "idle" /\ DeleteRow(r)

InstantStep(r) ==
    \/ Quote(r) \/ InstantCharge(r) \/ OrderCart(r)
    \/ SaveInstantTxn(r) \/ InstantTxnClash(r)
    \/ PayNextOrder(r) \/ InstantTickets(r)
    \/ RefundOrder(r) \/ CancelTickets(r)

\* A database call of these handlers is rejected: none has a catch block that
\* writes.
CheckoutCallFails(r) ==
    /\ \/ pc[r] \in {"rowInsert", "rowSave", "rowDelete", "orderNumber",
                     "orderSave", "clearCart", "orderCart", "txnSave",
                     "nextOrder", "refundOrder", "cancelTickets"}
       \/ Kind[r] = "instant" /\ pc[r] \in {"ticketNumber", "ticketSave"}
    /\ Answer(r, "error")
    /\ KeepCart
    /\ UNCHANGED <<orderVars, txnVars, ticketVars, moneyVars, overdue, instantVars>>

CheckInit ==
    /\ PayInit /\ CartInit
    /\ due = [r \in Requests |-> 0]
    /\ txnNum = [r \in Requests |-> 0]
    /\ edited = {}

OrderSide == PayEvents /\ UNCHANGED newVars

\* The instant payments that have quoted the cart's total and not read the
\* cart for their orders yet.
QuotedStages == {"instantCharge", "orderCart"}
Quoted == {q \in Requests : pc[q] \in QuotedStages}

CartSide ==
    /\ \E r \in Requests : CartBegin(r) \/ CartStep(r)
    /\ edited' = IF qty' = qty \/ CartIsEmpty' THEN edited ELSE edited \cup Quoted
    /\ UNCHANGED <<overdue, due, txnNum>>

CheckQuiet ==
    /\ \A r \in Requests : ~InFlight(r)
    /\ UNCHANGED checkVars

CheckNext ==
    \/ OrderSide
    \/ CartSide
    \/ \E r \in Requests : BeginInstant(r) \/ InstantStep(r) \/ CheckoutCallFails(r)
    \/ CheckQuiet

CheckSpec == CheckInit /\ [][CheckNext]_checkVars

(***************************************************************************)
(* Properties                                                               *)
(***************************************************************************)
CheckLabels == Labels \cup
    {"rowInsert", "rowSave", "rowDelete", "orderNumber", "orderSave",
     "clearCart", "quote", "instantCharge", "orderCart", "txnSave",
     "nextOrder", "cancelTickets"}

\* The types of the collections and of the requests' local state.
CheckTypeOK ==
    /\ DataTypeOK(CheckLabels)
    /\ qty \in [Rows -> Nat] /\ fresh \in SUBSET Rows
    /\ orderType \in [Orders -> Types \cup {NoType}]
    /\ lastOrder \in Nat
    /\ row \in [Requests -> Rows]
    /\ lines \in [Requests -> [Types -> Nat]]
    /\ made \in [Requests -> SUBSET Orders]
    /\ due \in [Requests -> Nat] /\ txnNum \in [Requests -> Nat]
    /\ edited \in SUBSET Requests

PaidFor(o) == \E r \in Requests : captured[r] /\ (ord[r] = o \/ o \in made[r])

\* PAID and CONFIRMED orders were paid for, by a payment of that order or by
\* the instant payment that made it, whatever else ran on the same order.
PaidOrderWasCharged ==
    \A o \in Orders : orderStatus[o] \in {"paid", "confirmed"} => PaidFor(o)

\* An instant payment answered normally made orders, gave out every ticket of
\* every one of them, and its transaction names exactly these orders.
InstantIsDelivered ==
    \A r \in Requests : Kind[r] = "instant" /\ pc[r] = "ok" =>
        /\ made[r] # {} /\ txnOrders[r] = made[r]
        /\ \A o \in Orders : issued[r][o] = IF o \in made[r] THEN units[o] ELSE 0
        /\ txnStatus[r] \notin {"none", "processing", "failed"}

\* What the orders of r are for, and what it has not made an order of yet.
OrdersTotal(r) == MapThenSumSet(LAMBDA o : units[o], made[r])
LinesTotal(r) == MapThenSumSet(LAMBDA t : lines[r][t], Types)

\* An instant payment answered normally was charged the total of the orders
\* it made, unless a row was added, changed or removed in between: the cart
\* is read for the total, and again after the charge for the orders.  No
\* other overlap tells them apart: checkouts and other instant payments
\* delete all rows at once, and additions before the quote or after the
\* second reading do not matter.
ChargeCoversOrders ==
    \A r \in Requests : Kind[r] = "instant" /\ pc[r] = "ok" /\ r \notin edited =>
        due[r] = OrdersTotal(r)

\* An order is REFUNDED only if the provider gave money back for the
\* transaction that names it.
RefundedOrderWasRefunded ==
    \A o \in Orders : orderStatus[o] = "refunded" =>
        \E t \in Requests : o \in txnOrders[t] /\ refunds[t] > 0

(***************************************************************************)
(* The inductive invariant behind the properties above.  FrameInv,          *)
(* StageInv, RefundInv and TicketInv of OrderPayment hold as they are; the  *)
(* conjuncts here say what the cart's and the instant payments' handlers    *)
(* add.                                                                     *)
(***************************************************************************)
\* Which endpoints the labels belong to.
QuoteStages == {"quote", "instantCharge", "orderCart"}
MakeStages == {"orderNumber", "orderSave"}
SettleStages == {"nextOrder"} \cup TicketStages
PayLabels == {"txnNumber", "txnInsert", "charge", "settleApproved",
              "settleDeclined", "markPaid", "recordFailure", "expireRead",
              "expireSave"}

KindInv ==
    \A r \in Requests :
        /\ pc[r] \in PayLabels => Kind[r] = "pay"
        /\ pc[r] = "confirmSave" => Kind[r] = "confirm"
        /\ pc[r] = "cancelSave" => Kind[r] = "cancel"
        /\ pc[r] \in {"refundCall", "refundSave", "refundOrder", "cancelTickets"}
             => Kind[r] = "refund"
        /\ pc[r] = "hookSave" => Kind[r] = "refundHook"
        /\ pc[r] \in {"rowInsert", "rowSave", "rowDelete"}
             => Kind[r] \in {"addToCart", "updateCart"}
        /\ pc[r] \in MakeStages \cup {"clearCart"} => Kind[r] \in {"checkout", "instant"}
        /\ pc[r] \in TicketStages => Kind[r] \in {"pay", "instant"}
        /\ pc[r] \in QuoteStages \cup {"txnSave", "nextOrder"} => Kind[r] = "instant"

\* Only payments have a transaction, a charge and tickets of their own.
OthersInv ==
    \A r \in Requests : Kind[r] \notin {"pay", "instant"} =>
        /\ txnStatus[r] = "none" /\ ~captured[r]
        /\ \A o \in Orders : issued[r][o] = 0

\* An order that does not exist is for no ticket; orders that are referred to
\* exist.
OrderInv ==
    /\ \A o \in Orders : orderStatus[o] = "none" => units[o] = 0
    /\ \A r \in Requests : \A o \in made[r] \cup txnOrders[r] \cup todo[r] :
            orderStatus[o] # "none"
    /\ \A r \in Requests : pc[r] = "cancelTickets" =>
            ord[r] \in Orders /\ orderStatus[ord[r]] # "none"

\* How far an instant payment is: the charge comes first, then the orders, the
\* transaction that names them, and the tickets of one order after the other.
Instant(r) ==
    /\ ord[r] \in made[r] \cup {NoOrder} /\ todo[r] \subseteq made[r]
    /\ pc[r] \in {"idle", "quote", "instantCharge"} => ~captured[r]
    /\ pc[r] \in {"orderCart", "clearCart", "txnSave"} \cup MakeStages \cup SettleStages
         => captured[r]
    /\ pc[r] \in {"idle"} \cup QuoteStages => made[r] = {}
    /\ pc[r] \in MakeStages => \E t \in Types : lines[r][t] > 0
    /\ pc[r] \in {"clearCart", "txnSave"} \cup SettleStages => made[r] # {}
    /\ pc[r] \in {"idle", "clearCart", "txnSave"} \cup QuoteStages \cup MakeStages =>
         txnOrders[r] = {} /\ \A o \in Orders : issued[r][o] = 0
    /\ pc[r] \in SettleStages =>
         txnOrders[r] = made[r] /\ txnStatus[r] \notin {"none", "processing", "failed"}
    /\ pc[r] \in TicketStages => left[r] > 0 /\ ord[r] \in made[r] \ todo[r]
    /\ pc[r] \in SettleStages => \A o \in Orders :
         issued[r][o] = IF o \notin made[r] \ todo[r] THEN 0
                        ELSE IF pc[r] \in TicketStages /\ o = ord[r]
                             THEN units[o] - left[r] ELSE units[o]

InstantInv == \A r \in Requests : Kind[r] = "instant" => Instant(r)

\* A refund still visits orders of a transaction that was refunded.
VisitInv ==
    \A r \in Requests : pc[r] \in {"refundOrder", "cancelTickets"} =>
        todo[r] \subseteq txnOrders[tgt[r]] /\ refunds[tgt[r]] > 0

\* Somebody paid for the order that is about to be confirmed.
PaidForInv == \A r \in Requests : pc[r] = "confirmSave" => PaidFor(ord[r])

CheckInv ==
    /\ CheckTypeOK
    /\ FrameInv
    /\ StageInv
    /\ RefundInv
    /\ TicketInv
    /\ KindInv
    /\ OthersInv
    /\ OrderInv
    /\ InstantInv
    /\ VisitInv
    /\ PaidForInv
    /\ PaidOrderWasCharged
    /\ InstantIsDelivered
    /\ RefundedOrderWasRefunded

\* Where an instant payment's charge is while it makes its orders, if no row
\* was written meanwhile: the cart is what was charged or empty; then what is
\* due is what the orders are for and what is still read.
MadeStages == {"clearCart", "txnSave", "ok"} \cup SettleStages

Due(r) ==
    /\ pc[r] \in QuotedStages => CartIsEmpty \/ due[r] = CartTotal
    /\ pc[r] \in MakeStages => due[r] = OrdersTotal(r) + LinesTotal(r)
    /\ pc[r] \in MadeStages => due[r] = OrdersTotal(r)

DueInv ==
    \A r \in Requests : Kind[r] = "instant" =>
        IsFiniteSet(made[r]) /\ (r \in edited \/ Due(r))

\* The whole checkout implements the ledger, orders being placed from carts.
CheckoutImplementsLedger == Ledger!Spec
===============================================================================
