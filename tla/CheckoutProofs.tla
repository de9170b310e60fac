--------------------------- MODULE CheckoutProofs ---------------------------
(***************************************************************************)
(* Theorems about Checkout, for any sets of orders, requests, cart rows and *)
(* ticket types, and any quantities.  The lemmas of OrderPaymentProofs on   *)
(* the handlers both modules have are used as they are.                     *)
(***************************************************************************)
EXTENDS Checkout, OrderPaymentProofs, Sums

USE DEF payVars, storeVars, orderVars, txnVars, ticketVars, moneyVars,
        frameVars, localVars, Goto, Answer, newVars, cartVars,
        checkoutVars, instantVars, KeepCart, CartFrame

(***************************************************************************)
(* Most steps of the cart and of an instant payment only take a request     *)
(* from one label to another, as far as orders, transactions, tickets and   *)
(* money are concerned.                                                     *)
(***************************************************************************)
Moves(r) ==
    /\ pc' = [pc EXCEPT ![r] = pc'[r]]
    /\ UNCHANGED <<orderVars, txnVars, ticketVars, moneyVars, ord, tgt, left,
                   todo, lines, made>>

\* The labels of such a move.
MovesFrom(r) ==
    \/ /\ pc[r] = "idle"
       /\ \/ /\ Kind[r] \in {"addToCart", "updateCart"}
             /\ pc'[r] \in {"rowInsert", "rowSave", "rowDelete"}
          \/ Kind[r] \in {"addToCart", "updateCart", "removeFromCart"} /\ pc'[r] \in {"ok", "error"}
          \/ Kind[r] = "instant" /\ pc'[r] = "quote"
    \/ pc[r] \in {"rowInsert", "rowSave", "rowDelete"} /\ pc'[r] \in {"ok", "error"}
    \/ pc[r] = "orderNumber" /\ pc'[r] = "orderSave"
    \/ pc[r] = "clearCart" /\ pc'[r] = IF Kind[r] = "instant" THEN "txnSave" ELSE "ok"
    \/ pc[r] = "quote" /\ pc'[r] = "instantCharge"
    \/ pc[r] = "ticketNumber" /\ pc'[r] = "ticketSave" /\ Kind[r] = "instant"
    \/ /\ pc[r] \in {"rowInsert", "rowSave", "rowDelete", "refundOrder", "cancelTickets",
                     "clearCart"} \cup MakeStages \cup QuoteStages \cup {"txnSave", "nextOrder"}
       /\ pc'[r] = "error"
    \/ Kind[r] = "instant" /\ pc[r] \in TicketStages /\ pc'[r] = "error"

\* These steps are such moves.
LEMMA QuietMoves ==
  ASSUME CheckTypeOK, NEW r \in Requests,
         \/ AddRead(r) \/ UpdateRead(r) \/ InsertRow(r) \/ SaveRow(r) \/ DeleteRow(r)
         \/ ReadOrderNumber(r) \/ OrderClash(r)
         \/ ClearCart(r, IF Kind[r] = "instant" THEN "txnSave" ELSE "ok")
         \/ BeginInstant(r) \/ Quote(r) \/ InstantTxnClash(r) \/ CheckoutCallFails(r)
         \/ Kind[r] = "instant" /\ KeepCart /\ ReadTicketNumber(r)
         \/ Kind[r] = "instant" /\ KeepCart /\ TicketClash(r, "error")
  PROVE  Moves(r) /\ MovesFrom(r)
<1> USE DEF CheckTypeOK, DataTypeOK, Moves, MovesFrom
<1>1. CASE AddRead(r)
  BY <1>1 DEF AddRead
<1>2. CASE UpdateRead(r)
  BY <1>2 DEF UpdateRead
<1>3. CASE InsertRow(r) \/ SaveRow(r)
  BY <1>3 DEF InsertRow, SaveRow
<1>4. CASE DeleteRow(r)
  BY <1>4 DEF DeleteRow
<1>5. CASE ReadOrderNumber(r) \/ OrderClash(r)
  BY <1>5 DEF ReadOrderNumber, OrderClash, MakeStages
<1>6. CASE ClearCart(r, IF Kind[r] = "instant" THEN "txnSave" ELSE "ok")
  BY <1>6 DEF ClearCart
<1>7. CASE BeginInstant(r)
  BY <1>7 DEF BeginInstant
<1>8. CASE Quote(r)
  BY <1>8 DEF Quote, QuoteStages
<1>9. CASE InstantTxnClash(r)
  BY <1>9 DEF InstantTxnClash
<1>10. CASE CheckoutCallFails(r)
  BY <1>10 DEF CheckoutCallFails, MakeStages, QuoteStages, TicketStages
<1>11. CASE Kind[r] = "instant" /\ KeepCart /\ ReadTicketNumber(r)
  BY <1>11 DEF ReadTicketNumber
<1>12. CASE Kind[r] = "instant" /\ KeepCart /\ TicketClash(r, "error")
  BY <1>12 DEF TicketClash, TicketStages
<1> QED
  BY <1>1, <1>2, <1>3, <1>4, <1>5, <1>6, <1>7, <1>8, <1>9, <1>10, <1>11,
     <1>12

\* A ticket that an instant payment stores.
InstantTicket(r) ==
    /\ Kind[r] = "instant"
    /\ SaveTicket(r, IF todo[r] = {} THEN "ok" ELSE "nextOrder")
    /\ KeepCart

\* A step of the checkout is one of the handlers of OrderPayment, a move, or
\* one of the steps that store something.
LEMMA CheckSteps ==
  ASSUME CheckTypeOK, [CheckNext]_checkVars
  PROVE  \/ PayEvents /\ UNCHANGED newVars
         \/ \E r \in Requests : Moves(r) /\ MovesFrom(r)
         \/ \E r \in Requests :
              \/ BeginCheckout(r) \/ OrderCart(r) \/ InstantCharge(r) \/ SaveOrder(r)
              \/ SaveInstantTxn(r) \/ PayNextOrder(r)
              \/ InstantTicket(r) \/ RefundOrder(r) \/ CancelTickets(r)
         \/ UNCHANGED checkVars
<1>1. CASE OrderSide
  BY <1>1 DEF OrderSide
<1>2. CASE CartSide
  <2>1. PICK r \in Requests : CartBegin(r) \/ CartStep(r)
    BY <1>2 DEF CartSide
  <2>2. CASE BeginCheckout(r) \/ SaveOrder(r)
    BY <2>2
  <2>3. CASE ~(BeginCheckout(r) \/ SaveOrder(r))
    <3>1. Moves(r) /\ MovesFrom(r)
      <4> HIDE DEF CartFrame
      <4> QED
        BY <2>1, <2>3, QuietMoves DEF CartBegin, CartStep
    <3> QED
      BY <3>1
  <2> QED
    BY <2>2, <2>3
<1>3. ASSUME NEW r \in Requests, BeginInstant(r) \/ InstantStep(r) \/ CheckoutCallFails(r)
      PROVE  \/ Moves(r) /\ MovesFrom(r)
             \/ OrderCart(r) \/ InstantCharge(r)
             \/ SaveInstantTxn(r) \/ PayNextOrder(r)
             \/ InstantTicket(r) \/ RefundOrder(r) \/ CancelTickets(r)
  BY <1>3, QuietMoves DEF InstantStep, InstantTickets, InstantTicket
<1> QED
  BY <1>1, <1>2, <1>3 DEF CheckNext, CheckQuiet

(***************************************************************************)
(* Types.  What a cart holds of a type, and in all, is a number: a sum over *)
(* the finitely many rows, and over the finitely many types.                *)
(***************************************************************************)
LEMMA TotalType ==
  ASSUME qty \in [Rows -> Nat]
  PROVE  Totals \in [Types -> Nat]
<1> SUFFICES ASSUME NEW t \in Types PROVE Total(t) \in Nat
  BY DEF Totals
<1>1. IsFiniteSet(InCart(t)) /\ \A w \in InCart(t) : qty[w] \in Nat
  BY RowsAssumption, FS_Subset DEF InCart
<1> QED
  <2>1. SumOf(qty, InCart(t)) \in Nat
    BY <1>1, SumType
  <2> QED
    BY <2>1, Zenon DEF Total, SumOf

\* So is what the whole cart comes to.
LEMMA DueType ==
  ASSUME qty \in [Rows -> Nat]
  PROVE  CartTotal \in Nat
<1>1. \A t \in Types : Totals[t] \in Nat
  BY TotalType
<1> QED
  <2>1. SumOf(Totals, Types) \in Nat
    BY <1>1, RowsAssumption, SumType
  <2> QED
    BY <2>1, Zenon DEF CartTotal, SumOf

\* Every step keeps the types.
LEMMA NextCheckType ==
  ASSUME CheckTypeOK, FrameInv, TicketInv, InstantInv, OrderInv, [CheckNext]_checkVars
  PROVE  CheckTypeOK'
<1>0. CASE OrderSide
  <2>1. Labels \subseteq CheckLabels
    BY DEF CheckLabels
  <2>2. DataTypeOK(CheckLabels)'
    BY <1>0, <2>1, NextData DEF OrderSide, PayNext, CheckTypeOK
  <2> QED
    BY <1>0, <2>2 DEF OrderSide, CheckTypeOK
<1> DEFINE CartSteps == UNCHANGED <<overdue, due, txnNum>> /\ edited' \in SUBSET Requests
<1> USE DEF CheckTypeOK, DataTypeOK, CheckLabels, Labels, Final, OrderStatus,
            PaymentStatus
<1>1. ASSUME NEW r \in Requests, AddRead(r), CartSteps
      PROVE CheckTypeOK'
  <2>1. PICK t \in Types, n \in 1 .. MaxQuantity :
          \/ \E w \in InCart(t) :
              /\ row' = [row EXCEPT ![r] = w] /\ num' = [num EXCEPT ![r] = qty[w] + n]
              /\ pc' = [pc EXCEPT ![r] = IF Addable(t, n, qty[w] + n) THEN "rowSave" ELSE "error"]
              /\ fresh' = fresh
          \/ \E w \in fresh :
              /\ row' = [row EXCEPT ![r] = w] /\ num' = [num EXCEPT ![r] = n]
              /\ pc' = [pc EXCEPT ![r] = IF Addable(t, n, n) THEN "rowInsert" ELSE "error"]
              /\ fresh' = fresh \ {w}
    BY <1>1 DEF AddRead
  <2>2. n \in Nat /\ InCart(t) \subseteq Rows
    BY StockAssumption DEF InCart
  <2>3. qty \in [Rows -> Nat] /\ num \in [Requests -> Nat] /\ pc \in [Requests -> CheckLabels]
    OBVIOUS
  <2>4. /\ row' \in [Requests -> Rows] /\ num' \in [Requests -> Nat]
        /\ pc' \in [Requests -> CheckLabels] /\ fresh' \in SUBSET Rows
    <3> HIDE DEF DataTypeOK
    <3>1. \A w \in InCart(t) : w \in Rows /\ qty[w] + n \in Nat
      BY <2>2, <2>3
    <3>2. PICK w \in Rows, m \in Nat :
            row' = [row EXCEPT ![r] = w] /\ num' = [num EXCEPT ![r] = m]
      BY <2>1, <2>2, <3>1
    <3>3. pc' \in [Requests -> CheckLabels]
      BY <2>1, <2>3
    <3>4. fresh' \in SUBSET Rows
      BY <2>1
    <3> QED
      BY <2>3, <3>2, <3>3, <3>4
  <2> QED
    BY <1>1, <2>4 DEF AddRead
<1>2. ASSUME NEW r \in Requests, UpdateRead(r), CartSteps
      PROVE CheckTypeOK'
  BY <1>2, StockAssumption DEF UpdateRead
<1>3. ASSUME NEW r \in Requests, BeginCheckout(r), CartSteps
      PROVE CheckTypeOK'
  BY <1>3, TotalType DEF BeginCheckout, ReadCart
<1>4. ASSUME NEW r \in Requests, InsertRow(r), CartSteps
      PROVE CheckTypeOK'
  BY <1>4 DEF InsertRow
<1>6. ASSUME NEW r \in Requests, SaveRow(r), CartSteps
      PROVE CheckTypeOK'
  <2>1. num[r] \in Nat /\ pc \in [Requests -> CheckLabels]
    OBVIOUS
  <2>2. qty' \in [Rows -> Nat] /\ pc' \in [Requests -> CheckLabels]
    <3> HIDE DEF DataTypeOK
    <3> QED
      BY <1>6, <2>1 DEF SaveRow
  <2> QED
    BY <1>6, <2>2 DEF SaveRow
<1>21. ASSUME NEW r \in Requests, ReadOrderNumber(r), CartSteps
      PROVE CheckTypeOK'
  BY <1>21 DEF ReadOrderNumber
<1>22. ASSUME NEW r \in Requests, OrderClash(r), CartSteps
      PROVE CheckTypeOK'
  BY <1>22 DEF OrderClash
<1>5. ASSUME NEW r \in Requests, DeleteRow(r), CartSteps
      PROVE CheckTypeOK'
  <2>1. PICK w \in Rows : /\ row' = [row EXCEPT ![r] = w] \/ row' = row
                         /\ qty' = [qty EXCEPT ![w] = 0]
    BY <1>5 DEF DeleteRow
  <2>2. row' \in [Requests -> Rows] /\ qty' \in [Rows -> Nat]
    <3> HIDE DEF DataTypeOK
    <3> QED
      BY <2>1
  <2> QED
    BY <1>5, <2>2 DEF DeleteRow
<1>7. ASSUME NEW r \in Requests, SaveOrder(r), CartSteps
      PROVE CheckTypeOK'
  <2>1. PICK o \in Orders, t \in Types :
          /\ orderStatus' = [orderStatus EXCEPT ![o] = "pending_payment"]
          /\ units' = [units EXCEPT ![o] = lines[r][t]]
          /\ orderType' = [orderType EXCEPT ![o] = t]
          /\ lines' = [lines EXCEPT ![r][t] = 0]
          /\ made' = [made EXCEPT ![r] = @ \cup {o}]
          /\ pc' = [pc EXCEPT ![r] = IF \A u \in Types \ {t} : lines[r][u] = 0
                                     THEN "clearCart" ELSE "orderNumber"]
    BY <1>7 DEF SaveOrder, OrderUnits
  <2>2. lines[r][t] \in Nat
    OBVIOUS
  <2>3. lines' \in [Requests -> [Types -> Nat]]
    BY <2>1
  <2>4. pc' \in [Requests -> CheckLabels]
    BY <2>1
  <2>5. /\ orderStatus' \in [Orders -> OrderStatus \cup {"none"}]
        /\ units' \in [Orders -> Nat]
    BY <2>1, <2>2
  <2>6. /\ orderType' \in [Orders -> Types \cup {NoType}]
        /\ made' \in [Requests -> SUBSET Orders]
    BY <2>1
  <2>7. lastOrder' \in Nat
    BY <1>7 DEF SaveOrder
  <2> QED
    BY <1>7, <2>3, <2>4, <2>5, <2>6, <2>7 DEF SaveOrder
<1>8. ASSUME NEW r \in Requests, NEW after \in {"txnSave", "ok"}, ClearCart(r, after),
             CartSteps
      PROVE CheckTypeOK'
  BY <1>8 DEF ClearCart
<1>9. ASSUME NEW r \in Requests, BeginInstant(r) PROVE CheckTypeOK'
  BY <1>9 DEF BeginInstant
<1>10. ASSUME NEW r \in Requests, Quote(r) PROVE CheckTypeOK'
  <2>1. CartTotal \in Nat
    BY DueType
  <2>2. due' = [due EXCEPT ![r] = CartTotal]
    BY <1>10 DEF Quote
  <2>3. due' \in [Requests -> Nat]
    BY <2>1, <2>2
  <2>4. pc' \in [Requests -> CheckLabels]
    BY <1>10 DEF Quote
  <2> QED
    BY <1>10, <2>3, <2>4 DEF Quote
<1>11. ASSUME NEW r \in Requests, InstantCharge(r) PROVE CheckTypeOK'
  BY <1>11 DEF InstantCharge
<1>12. ASSUME NEW r \in Requests, OrderCart(r) PROVE CheckTypeOK'
  BY <1>12, TotalType DEF OrderCart, ReadCart
<1>13. ASSUME NEW r \in Requests, SaveInstantTxn(r) PROVE CheckTypeOK'
  BY <1>13 DEF SaveInstantTxn, PaidOrders
<1>14. ASSUME NEW r \in Requests, InstantTxnClash(r) PROVE CheckTypeOK'
  BY <1>14 DEF InstantTxnClash
<1>15. ASSUME NEW r \in Requests, PayNextOrder(r) PROVE CheckTypeOK'
  BY <1>15 DEF PayNextOrder, WriteStatus
<1>16. ASSUME NEW r \in Requests, InstantTickets(r) PROVE CheckTypeOK'
  <2>1. CASE ReadTicketNumber(r)
    BY <1>16, <2>1 DEF InstantTickets, ReadTicketNumber
  <2>3. CASE TicketClash(r, "error")
    BY <1>16, <2>3 DEF InstantTickets, TicketClash
  <2>2. CASE SaveTicket(r, IF todo[r] = {} THEN "ok" ELSE "nextOrder")
    <3>1. left[r] \in Nat /\ left[r] > 0 /\ ord[r] \in Orders /\ num[r] \in Nat
      BY <1>16, <2>2 DEF InstantTickets, SaveTicket, InstantInv, Instant,
         TicketStages
    <3>2. left' \in [Requests -> Nat] /\ lastTicket' \in Nat
      BY <2>2, <3>1 DEF SaveTicket, StoreTicket
    <3>3. active' \in [Orders -> Nat]
      BY <2>2, <3>1 DEF SaveTicket, StoreTicket
    <3>4. issued' \in [Requests -> [Orders -> Nat]]
      BY <2>2, <3>1 DEF SaveTicket, StoreTicket
    <3>5. pc' \in [Requests -> CheckLabels]
      BY <2>2 DEF SaveTicket
    <3> QED
      BY <1>16, <2>2, <3>2, <3>3, <3>4, <3>5 DEF InstantTickets, SaveTicket
  <2> QED
    BY <1>16, <2>1, <2>2, <2>3 DEF InstantTickets
<1>17. ASSUME NEW r \in Requests, RefundOrder(r) PROVE CheckTypeOK'
  BY <1>17 DEF RefundOrder, WriteStatus
<1>18. ASSUME NEW r \in Requests, CancelTickets(r) PROVE CheckTypeOK'
  BY <1>18 DEF CancelTickets, OrderInv
<1>19. ASSUME NEW r \in Requests, CheckoutCallFails(r) PROVE CheckTypeOK'
  BY <1>19 DEF CheckoutCallFails
<1>20. CASE UNCHANGED checkVars
  BY <1>20 DEF checkVars
<1> QED
  <2>1. ASSUME NEW r \in Requests, CartBegin(r) \/ CartStep(r),
               CartSteps
        PROVE CheckTypeOK'
    BY <2>1, <1>1, <1>2, <1>3, <1>4, <1>5, <1>6, <1>7, <1>8, <1>21,
       <1>22, Zenon DEF CartBegin, CartStep
  <2>2. ASSUME NEW r \in Requests, BeginInstant(r) \/ InstantStep(r) \/ CheckoutCallFails(r)
        PROVE CheckTypeOK'
    BY <2>2, <1>9, <1>10, <1>11, <1>12, <1>13, <1>14, <1>15, <1>16, <1>17, <1>18,
       <1>19, Zenon DEF InstantStep
  <2>3. CASE CartSide
    <3>1. CartSteps
      BY <2>3 DEF CartSide, Quoted
    <3> QED
      BY <2>1, <2>3, <3>1 DEF CartSide
  <2> QED
    BY <1>0, <1>20, <2>2, <2>3 DEF CheckNext, CheckQuiet

\* Orders in work exist.
LEMMA FrameKept ==
  ASSUME CheckTypeOK, KindInv, OrderInv, InstantInv, FrameInv,
         [CheckNext]_checkVars
  PROVE  FrameInv'
<1>1. CASE PayEvents /\ UNCHANGED newVars
  BY <1>1, NextFrame DEF PayNext, CheckTypeOK
<1> USE DEF CheckTypeOK, DataTypeOK, FrameInv, KindInv, OrderInv, InstantInv, Instant, OrderStages,
            MakeStages, QuoteStages, SettleStages, TicketStages, PaidStages, OtherStages,
            NoTxnStages, Final, PaymentStatus, OrderStatus
<1>2. ASSUME NEW r \in Requests, Moves(r), MovesFrom(r) PROVE FrameInv'
  BY <1>2 DEF Moves, MovesFrom
<1>3. ASSUME NEW r \in Requests, BeginCheckout(r) PROVE FrameInv'
  BY <1>3 DEF BeginCheckout, ReadCart
<1>4. ASSUME NEW r \in Requests, OrderCart(r) PROVE FrameInv'
  BY <1>4 DEF OrderCart, ReadCart
<1>5. ASSUME NEW r \in Requests, InstantCharge(r) PROVE FrameInv'
  BY <1>5 DEF InstantCharge, Reported
<1>6. ASSUME NEW r \in Requests, SaveOrder(r) PROVE FrameInv'
  BY <1>6 DEF SaveOrder, OrderUnits
<1>7. ASSUME NEW r \in Requests, SaveInstantTxn(r) PROVE FrameInv'
  BY <1>7 DEF SaveInstantTxn, PaidOrders
<1>8. ASSUME NEW r \in Requests, PayNextOrder(r) PROVE FrameInv'
  BY <1>8 DEF PayNextOrder, WriteStatus
<1>9. ASSUME NEW r \in Requests, InstantTicket(r) PROVE FrameInv'
  BY <1>9 DEF InstantTicket, SaveTicket, StoreTicket, LastUnit
<1>10. ASSUME NEW r \in Requests, RefundOrder(r) PROVE FrameInv'
  BY <1>10 DEF RefundOrder, WriteStatus
<1>11. ASSUME NEW r \in Requests, CancelTickets(r) PROVE FrameInv'
  BY <1>11 DEF CancelTickets
<1>12. CASE UNCHANGED checkVars
  BY <1>12 DEF checkVars
<1> QED
  BY <1>1, <1>2, <1>3, <1>4, <1>5, <1>6, <1>7, <1>8,
     <1>9, <1>10, <1>11, <1>12, CheckSteps

\* Transactions and charges of the handlers of OrderPayment.
LEMMA StageKept ==
  ASSUME CheckTypeOK, KindInv, OthersInv, InstantInv, FrameInv, RefundInv, StageInv,
         [CheckNext]_checkVars
  PROVE  StageInv'
<1>1. CASE PayEvents /\ UNCHANGED newVars
  BY <1>1, NextStage DEF PayNext, CheckTypeOK
<1> USE DEF CheckTypeOK, DataTypeOK, StageInv, KindInv, OthersInv, InstantInv, Instant,
            MakeStages, QuoteStages, SettleStages, TicketStages, PaidStages, OtherStages,
            NoTxnStages, Final, PaymentStatus, OrderStatus
<1>2. ASSUME NEW r \in Requests, Moves(r), MovesFrom(r) PROVE StageInv'
  BY <1>2 DEF Moves, MovesFrom
<1>3. ASSUME NEW r \in Requests, BeginCheckout(r) PROVE StageInv'
  BY <1>3 DEF BeginCheckout, ReadCart
<1>4. ASSUME NEW r \in Requests, OrderCart(r) PROVE StageInv'
  BY <1>4 DEF OrderCart, ReadCart
<1>5. ASSUME NEW r \in Requests, InstantCharge(r) PROVE StageInv'
  BY <1>5 DEF InstantCharge, Reported
<1>6. ASSUME NEW r \in Requests, SaveOrder(r) PROVE StageInv'
  BY <1>6 DEF SaveOrder, OrderUnits
<1>7. ASSUME NEW r \in Requests, SaveInstantTxn(r) PROVE StageInv'
  BY <1>7 DEF SaveInstantTxn, PaidOrders
<1>8. ASSUME NEW r \in Requests, PayNextOrder(r) PROVE StageInv'
  BY <1>8 DEF PayNextOrder, WriteStatus
<1>9. ASSUME NEW r \in Requests, InstantTicket(r) PROVE StageInv'
  BY <1>9 DEF InstantTicket, SaveTicket, StoreTicket, LastUnit
<1>10. ASSUME NEW r \in Requests, RefundOrder(r) PROVE StageInv'
  BY <1>10 DEF RefundOrder, WriteStatus
<1>11. ASSUME NEW r \in Requests, CancelTickets(r) PROVE StageInv'
  <2>1. Kind[r] = "refund"
    BY <1>11 DEF CancelTickets
  <2>2. txnStatus[r] = "none" /\ ~captured[r]
    BY <2>1
  <2> QED
    BY <1>11, <2>1, <2>2 DEF CancelTickets
<1>12. CASE UNCHANGED checkVars
  BY <1>12 DEF checkVars
<1> QED
  BY <1>1, <1>2, <1>3, <1>4, <1>5, <1>6, <1>7, <1>8,
     <1>9, <1>10, <1>11, <1>12, CheckSteps

\* An event that was posted stays so.
LEMMA AnnouncedStays ==
  ASSUME CheckTypeOK, [CheckNext]_checkVars, NEW t \in Requests, Announced(t)
  PROVE  Announced(t)'
<1>1. CASE PayEvents /\ UNCHANGED newVars
  BY <1>1, AnnouncedKept DEF PayNext, CheckTypeOK
<1>2. PICK h \in Requests : Kind[h] = "refundHook" /\ pc[h] # "idle" /\ tgt[h] = t
  BY DEF Announced
<1>3. SUFFICES ASSUME ~(PayEvents /\ UNCHANGED newVars)
               PROVE  pc'[h] # "idle" /\ tgt'[h] = t
  BY <1>1, <1>2 DEF Announced
<1> USE <1>2 DEF CheckTypeOK, DataTypeOK
<1>4. ASSUME NEW r \in Requests, Moves(r), MovesFrom(r)
      PROVE  pc'[h] # "idle" /\ tgt'[h] = t
  BY <1>4 DEF Moves, MovesFrom
<1>5. ASSUME NEW r \in Requests,
             \/ BeginCheckout(r) \/ OrderCart(r) \/ InstantCharge(r) \/ SaveOrder(r)
             \/ SaveInstantTxn(r) \/ PayNextOrder(r)
             \/ InstantTicket(r) \/ RefundOrder(r) \/ CancelTickets(r)
      PROVE  pc'[h] # "idle" /\ tgt'[h] = t
  BY <1>5 DEF BeginCheckout, OrderCart, ReadCart, InstantCharge, SaveOrder,
     SaveInstantTxn, PayNextOrder, InstantTicket, SaveTicket, RefundOrder,
     CancelTickets
<1>6. CASE UNCHANGED checkVars
  BY <1>6 DEF checkVars
<1> QED
  BY <1>3, <1>4, <1>5, <1>6, CheckSteps

\* Refunds.
LEMMA RefundKept ==
  ASSUME CheckTypeOK, StageInv, RefundInv,
         [CheckNext]_checkVars
  PROVE  RefundInv'
<1>1. CASE PayEvents /\ UNCHANGED newVars
  BY <1>1, NextRefund DEF PayNext, CheckTypeOK
<1> USE DEF CheckTypeOK, DataTypeOK, RefundInv, StageInv,
            MakeStages, QuoteStages, SettleStages, TicketStages, PaidStages, OtherStages,
            NoTxnStages, Final, PaymentStatus, OrderStatus
<1>0. \A t \in Requests : Announced(t) => Announced(t)'
  BY AnnouncedStays
<1>2. ASSUME NEW r \in Requests, Moves(r), MovesFrom(r) PROVE RefundInv'
  BY <1>0, <1>2 DEF Moves, MovesFrom
<1>3. ASSUME NEW r \in Requests, BeginCheckout(r) PROVE RefundInv'
  BY <1>0, <1>3 DEF BeginCheckout, ReadCart
<1>4. ASSUME NEW r \in Requests, OrderCart(r) PROVE RefundInv'
  BY <1>0, <1>4 DEF OrderCart, ReadCart
<1>5. ASSUME NEW r \in Requests, InstantCharge(r) PROVE RefundInv'
  BY <1>0, <1>5 DEF InstantCharge, Reported
<1>6. ASSUME NEW r \in Requests, SaveOrder(r) PROVE RefundInv'
  BY <1>0, <1>6 DEF SaveOrder, OrderUnits
<1>7. ASSUME NEW r \in Requests, SaveInstantTxn(r) PROVE RefundInv'
  BY <1>0, <1>7 DEF SaveInstantTxn, PaidOrders
<1>8. ASSUME NEW r \in Requests, PayNextOrder(r) PROVE RefundInv'
  BY <1>0, <1>8 DEF PayNextOrder, WriteStatus
<1>9. ASSUME NEW r \in Requests, InstantTicket(r) PROVE RefundInv'
  BY <1>0, <1>9 DEF InstantTicket, SaveTicket, StoreTicket, LastUnit
<1>10. ASSUME NEW r \in Requests, RefundOrder(r) PROVE RefundInv'
  BY <1>0, <1>10 DEF RefundOrder, WriteStatus
<1>11. ASSUME NEW r \in Requests, CancelTickets(r) PROVE RefundInv'
  BY <1>0, <1>11 DEF CancelTickets
<1>12. CASE UNCHANGED checkVars
  BY <1>0, <1>12 DEF checkVars
<1> QED
  BY <1>1, <1>2, <1>3, <1>4, <1>5, <1>6, <1>7, <1>8,
     <1>9, <1>10, <1>11, <1>12, CheckSteps

\* The tickets of processPayment.
LEMMA TicketKept ==
  ASSUME CheckTypeOK, KindInv, OthersInv, InstantInv, FrameInv, TicketInv,
         [CheckNext]_checkVars
  PROVE  TicketInv'
<1>1. CASE PayEvents /\ UNCHANGED newVars
  BY <1>1, NextTicket DEF PayNext, CheckTypeOK
<1> USE DEF CheckTypeOK, DataTypeOK, TicketInv, KindInv, OthersInv, InstantInv, Instant, FrameInv, OrderStages,
            MakeStages, QuoteStages, SettleStages, TicketStages, PaidStages, OtherStages,
            NoTxnStages, Final, PaymentStatus, OrderStatus
<1>2. ASSUME NEW r \in Requests, Moves(r), MovesFrom(r) PROVE TicketInv'
  <2>1. /\ pc'[r] \notin NoTxnStages \cup {"charge", "settleApproved",
                                          "settleDeclined", "markPaid"}
        /\ Kind[r] = "pay" => pc'[r] \notin TicketStages
    BY <1>2 DEF MovesFrom
  <2>2. /\ \A q \in Requests : q # r => pc'[q] = pc[q]
        /\ UNCHANGED <<issued, units, ord, left>>
    BY <1>2 DEF Moves
  <2> QED
    BY <2>1, <2>2
<1>3. ASSUME NEW r \in Requests, BeginCheckout(r) PROVE TicketInv'
  BY <1>3 DEF BeginCheckout, ReadCart
<1>4. ASSUME NEW r \in Requests, OrderCart(r) PROVE TicketInv'
  BY <1>4 DEF OrderCart, ReadCart
<1>5. ASSUME NEW r \in Requests, InstantCharge(r) PROVE TicketInv'
  BY <1>5 DEF InstantCharge, Reported
<1>6. ASSUME NEW r \in Requests, SaveOrder(r) PROVE TicketInv'
  BY <1>6 DEF SaveOrder, OrderUnits
<1>7. ASSUME NEW r \in Requests, SaveInstantTxn(r) PROVE TicketInv'
  BY <1>7 DEF SaveInstantTxn, PaidOrders
<1>8. ASSUME NEW r \in Requests, PayNextOrder(r) PROVE TicketInv'
  BY <1>8 DEF PayNextOrder, WriteStatus
<1>9. ASSUME NEW r \in Requests, InstantTicket(r) PROVE TicketInv'
  BY <1>9 DEF InstantTicket, SaveTicket, StoreTicket, LastUnit
<1>10. ASSUME NEW r \in Requests, RefundOrder(r) PROVE TicketInv'
  BY <1>10 DEF RefundOrder, WriteStatus
<1>11. ASSUME NEW r \in Requests, CancelTickets(r) PROVE TicketInv'
  <2>1. Kind[r] = "refund"
    BY <1>11 DEF CancelTickets
  <2>2. \A o \in Orders : issued[r][o] = 0
    BY <2>1
  <2> QED
    BY <1>11, <2>1, <2>2 DEF CancelTickets
<1>12. CASE UNCHANGED checkVars
  BY <1>12 DEF checkVars
<1> QED
  BY <1>1, <1>2, <1>3, <1>4, <1>5, <1>6, <1>7, <1>8,
     <1>9, <1>10, <1>11, <1>12, CheckSteps

(***************************************************************************)
(* What the handlers of OrderPayment do to the rest.                        *)
(***************************************************************************)

\* A request stays with the labels of its endpoint.
LEMMA PayKinds ==
  ASSUME CheckTypeOK, KindInv, PayEvents, UNCHANGED newVars
  PROVE  KindInv'
<1> USE DEF CheckTypeOK, DataTypeOK, KindInv, MakeStages, QuoteStages, SettleStages, TicketStages, PaidStages,
            OtherStages, NoTxnStages, OrderStages, PayLabels, Final
<1>1. ASSUME NEW r \in Requests, PayRead(r) PROVE KindInv'
  BY <1>1 DEF PayRead
<1>2. ASSUME NEW r \in Requests, ConfirmRead(r) PROVE KindInv'
  BY <1>2 DEF ConfirmRead
<1>3. ASSUME NEW r \in Requests, CancelRead(r) PROVE KindInv'
  BY <1>3 DEF CancelRead
<1>4. ASSUME NEW r \in Requests, RefundRead(r) PROVE KindInv'
  BY <1>4 DEF RefundRead
<1>5. ASSUME NEW r \in Requests, HookRead(r) PROVE KindInv'
  BY <1>5 DEF HookRead
<1>6. ASSUME NEW r \in Requests, ReadTxnNumber(r) \/ InsertTxn(r) \/ TxnClash(r) PROVE KindInv'
  BY <1>6 DEF ReadTxnNumber, InsertTxn, StoreTxn, TxnClash
<1>7. ASSUME NEW r \in Requests, Charge(r) PROVE KindInv'
  BY <1>7 DEF Charge
<1>8. ASSUME NEW r \in Requests, SettleApproved(r) \/ SettleDeclined(r) \/ SettleFails(r) PROVE KindInv'
  BY <1>8 DEF SettleApproved, SettleDeclined, SettleFails, SettledStatus
<1>9. ASSUME NEW r \in Requests, MarkPaid(r) PROVE KindInv'
  BY <1>9 DEF MarkPaid, WriteStatus
<1>10. ASSUME NEW r \in Requests, RecordFailure(r) PROVE KindInv'
  BY <1>10 DEF RecordFailure, MarkFailed
<1>11. ASSUME NEW r \in Requests, IssueTickets(r) PROVE KindInv'
  BY <1>11 DEF IssueTickets, ReadTicketNumber, SaveTicket, StoreTicket,
     LastUnit, TicketClash
<1>12. ASSUME NEW r \in Requests, ExpireRead(r) \/ ExpireSave(r) PROVE KindInv'
  BY <1>12 DEF ExpireRead, ExpireSave, WriteStatus
<1>13. ASSUME NEW r \in Requests, ConfirmSave(r) \/ CancelSave(r) PROVE KindInv'
  BY <1>13 DEF ConfirmSave, CancelSave, WriteStatus
<1>14. ASSUME NEW r \in Requests, RefundCall(r) PROVE KindInv'
  BY <1>14 DEF RefundCall, AfterRefund
<1>15. ASSUME NEW r \in Requests, RefundSave(r) PROVE KindInv'
  BY <1>15 DEF RefundSave, RefundStatus
<1>16. ASSUME NEW r \in Requests, HookSave(r) PROVE KindInv'
  BY <1>16 DEF HookSave
<1>17. ASSUME NEW r \in Requests, CallFails(r) PROVE KindInv'
  BY <1>17 DEF CallFails
<1>18. ASSUME NEW o \in Orders, TimePasses(o) PROVE KindInv'
  BY <1>18 DEF TimePasses
<1>19. ASSUME NEW t \in Requests, ProviderRefund(t) PROVE KindInv'
  BY <1>19 DEF ProviderRefund
<1>20. CASE Crash
  BY <1>20 DEF Crash, InFlight
<1> QED
  BY <1>1, <1>2, <1>3, <1>4, <1>5, <1>6, <1>7, <1>8, <1>9,
     <1>10, <1>11, <1>12, <1>13, <1>14, <1>15, <1>16, <1>17, <1>18,
     <1>19, <1>20
     DEF PayEvents, Begin, Step, Fails

\* Orders stay, charges and refunds too; a charged request keeps its order.
Booked ==
    /\ units' = units /\ txnOrders' = txnOrders
    /\ \A o \in Orders :
        /\ orderStatus'[o] = "none" <=> orderStatus[o] = "none"
        /\ orderStatus'[o] = "refunded" => orderStatus[o] = "refunded"
    /\ \A r \in Requests :
        /\ refunds'[r] >= refunds[r]
        /\ captured[r] => captured'[r] /\ ord'[r] = ord[r]

\* These handlers keep the books.
LEMMA PayBooks ==
  ASSUME CheckTypeOK, FrameInv, StageInv, PayEvents, UNCHANGED newVars
  PROVE  Booked
<1> USE DEF CheckTypeOK, DataTypeOK, Booked, FrameInv, StageInv, MakeStages, QuoteStages, SettleStages, TicketStages, PaidStages,
            OtherStages, NoTxnStages, OrderStages, PayLabels, Final
<1>1. ASSUME NEW r \in Requests, PayRead(r) PROVE Booked
  BY <1>1 DEF PayRead
<1>2. ASSUME NEW r \in Requests, ConfirmRead(r) PROVE Booked
  BY <1>2 DEF ConfirmRead
<1>3. ASSUME NEW r \in Requests, CancelRead(r) PROVE Booked
  BY <1>3 DEF CancelRead
<1>4. ASSUME NEW r \in Requests, RefundRead(r) PROVE Booked
  BY <1>4 DEF RefundRead
<1>5. ASSUME NEW r \in Requests, HookRead(r) PROVE Booked
  BY <1>5 DEF HookRead
<1>6. ASSUME NEW r \in Requests, ReadTxnNumber(r) \/ InsertTxn(r) \/ TxnClash(r) PROVE Booked
  BY <1>6 DEF ReadTxnNumber, InsertTxn, StoreTxn, TxnClash
<1>7. ASSUME NEW r \in Requests, Charge(r) PROVE Booked
  BY <1>7 DEF Charge
<1>8. ASSUME NEW r \in Requests, SettleApproved(r) \/ SettleDeclined(r) \/ SettleFails(r) PROVE Booked
  BY <1>8 DEF SettleApproved, SettleDeclined, SettleFails, SettledStatus
<1>9. ASSUME NEW r \in Requests, MarkPaid(r) PROVE Booked
  BY <1>9 DEF MarkPaid, WriteStatus
<1>10. ASSUME NEW r \in Requests, RecordFailure(r) PROVE Booked
  BY <1>10 DEF RecordFailure, MarkFailed
<1>11. ASSUME NEW r \in Requests, IssueTickets(r) PROVE Booked
  BY <1>11 DEF IssueTickets, ReadTicketNumber, SaveTicket, StoreTicket,
     LastUnit, TicketClash
<1>12. ASSUME NEW r \in Requests, ExpireRead(r) \/ ExpireSave(r) PROVE Booked
  BY <1>12 DEF ExpireRead, ExpireSave, WriteStatus
<1>13. ASSUME NEW r \in Requests, ConfirmSave(r) \/ CancelSave(r) PROVE Booked
  BY <1>13 DEF ConfirmSave, CancelSave, WriteStatus
<1>14. ASSUME NEW r \in Requests, RefundCall(r) PROVE Booked
  BY <1>14 DEF RefundCall, AfterRefund
<1>15. ASSUME NEW r \in Requests, RefundSave(r) PROVE Booked
  BY <1>15 DEF RefundSave, RefundStatus
<1>16. ASSUME NEW r \in Requests, HookSave(r) PROVE Booked
  BY <1>16 DEF HookSave
<1>17. ASSUME NEW r \in Requests, CallFails(r) PROVE Booked
  BY <1>17 DEF CallFails
<1>18. ASSUME NEW o \in Orders, TimePasses(o) PROVE Booked
  BY <1>18 DEF TimePasses
<1>19. ASSUME NEW t \in Requests, ProviderRefund(t) PROVE Booked
  BY <1>19 DEF ProviderRefund
<1>20. CASE Crash
  BY <1>20 DEF Crash, InFlight
<1> QED
  BY <1>1, <1>2, <1>3, <1>4, <1>5, <1>6, <1>7, <1>8, <1>9,
     <1>10, <1>11, <1>12, <1>13, <1>14, <1>15, <1>16, <1>17, <1>18,
     <1>19, <1>20
     DEF PayEvents, Begin, Step, Fails

\* Only payments are charged and given tickets, and a transaction exists from
\* then on.
OthersKept ==
    \A r \in Requests :
        /\ Kind[r] # "pay" => captured'[r] = captured[r] /\ issued'[r] = issued[r]
        /\ Kind[r] # "pay" => \/ txnStatus'[r] = txnStatus[r]
                              \/ /\ txnStatus[r] # "none"
                                 /\ txnStatus'[r] \in {"refunded", "partial_refund"}

\* What is not a payment is not charged.
LEMMA PayOthers ==
  ASSUME CheckTypeOK, KindInv, StageInv, RefundInv, PayEvents, UNCHANGED newVars
  PROVE  OthersKept
<1> USE DEF CheckTypeOK, DataTypeOK, OthersKept, KindInv, StageInv, RefundInv,
            MakeStages, QuoteStages, SettleStages, TicketStages, PaidStages,
            OtherStages, NoTxnStages, OrderStages, PayLabels, Final
<1>1. ASSUME NEW r \in Requests, PayRead(r) PROVE OthersKept
  BY <1>1 DEF PayRead
<1>2. ASSUME NEW r \in Requests, ConfirmRead(r) PROVE OthersKept
  BY <1>2 DEF ConfirmRead
<1>3. ASSUME NEW r \in Requests, CancelRead(r) PROVE OthersKept
  BY <1>3 DEF CancelRead
<1>4. ASSUME NEW r \in Requests, RefundRead(r) PROVE OthersKept
  BY <1>4 DEF RefundRead
<1>5. ASSUME NEW r \in Requests, HookRead(r) PROVE OthersKept
  BY <1>5 DEF HookRead
<1>6. ASSUME NEW r \in Requests, ReadTxnNumber(r) \/ InsertTxn(r) \/ TxnClash(r) PROVE OthersKept
  BY <1>6 DEF ReadTxnNumber, InsertTxn, StoreTxn, TxnClash
<1>7. ASSUME NEW r \in Requests, Charge(r) PROVE OthersKept
  BY <1>7 DEF Charge
<1>8. ASSUME NEW r \in Requests, SettleApproved(r) \/ SettleDeclined(r) \/ SettleFails(r) PROVE OthersKept
  BY <1>8 DEF SettleApproved, SettleDeclined, SettleFails, SettledStatus
<1>9. ASSUME NEW r \in Requests, MarkPaid(r) PROVE OthersKept
  BY <1>9 DEF MarkPaid, WriteStatus
<1>10. ASSUME NEW r \in Requests, RecordFailure(r) PROVE OthersKept
  BY <1>10 DEF RecordFailure, MarkFailed
<1>11. ASSUME NEW r \in Requests, IssueTickets(r) PROVE OthersKept
  BY <1>11 DEF IssueTickets, ReadTicketNumber, SaveTicket, StoreTicket,
     LastUnit, TicketClash
<1>12. ASSUME NEW r \in Requests, ExpireRead(r) \/ ExpireSave(r) PROVE OthersKept
  BY <1>12 DEF ExpireRead, ExpireSave, WriteStatus
<1>13. ASSUME NEW r \in Requests, ConfirmSave(r) \/ CancelSave(r) PROVE OthersKept
  BY <1>13 DEF ConfirmSave, CancelSave, WriteStatus
<1>14. ASSUME NEW r \in Requests, RefundCall(r) PROVE OthersKept
  BY <1>14 DEF RefundCall, AfterRefund
<1>15. ASSUME NEW r \in Requests, RefundSave(r) PROVE OthersKept
  BY <1>15 DEF RefundSave, RefundStatus
<1>16. ASSUME NEW r \in Requests, HookSave(r) PROVE OthersKept
  BY <1>16 DEF HookSave
<1>17. ASSUME NEW r \in Requests, CallFails(r) PROVE OthersKept
  BY <1>17 DEF CallFails
<1>18. ASSUME NEW o \in Orders, TimePasses(o) PROVE OthersKept
  BY <1>18 DEF TimePasses
<1>19. ASSUME NEW t \in Requests, ProviderRefund(t) PROVE OthersKept
  BY <1>19 DEF ProviderRefund
<1>20. CASE Crash
  BY <1>20 DEF Crash, InFlight
<1> QED
  BY <1>1, <1>2, <1>3, <1>4, <1>5, <1>6, <1>7, <1>8, <1>9,
     <1>10, <1>11, <1>12, <1>13, <1>14, <1>15, <1>16, <1>17, <1>18,
     <1>19, <1>20
     DEF PayEvents, Begin, Step, Fails

\* Where the handlers of OrderPayment take a request.
FramesKept ==
    \A r \in Requests :
        /\ Kind[r] = "instant" \/ pc[r] # "idle" => ord'[r] = ord[r]
        /\ Kind[r] = "instant" => pc'[r] \in {pc[r], "crashed"} /\ left'[r] = left[r]
        /\ \/ tgt'[r] = tgt[r] /\ todo'[r] = todo[r]
           \/ pc[r] = "idle" /\ pc'[r] \notin {"refundOrder", "cancelTickets"}
                /\ todo'[r] = todo[r]
           \/ Kind[r] = "refund" /\ pc[r] = "refundSave" /\ tgt'[r] = tgt[r]
                /\ todo'[r] = txnOrders[tgt[r]]
        /\ pc'[r] = "refundOrder" => pc[r] \in {"refundOrder", "refundSave"}
        /\ pc[r] = "refundSave" => todo'[r] = txnOrders[tgt[r]] \/ pc'[r] # "refundOrder"
        /\ pc'[r] = "cancelTickets" => pc[r] = "cancelTickets"
        /\ pc'[r] = "confirmSave" => pc[r] = "confirmSave" \/ orderStatus[ord'[r]] = "paid"

\* These handlers take other requests only so far.
LEMMA PayFrames ==
  ASSUME CheckTypeOK, KindInv, PayEvents, UNCHANGED newVars
  PROVE  FramesKept
<1> USE DEF CheckTypeOK, DataTypeOK, FramesKept, KindInv, Confirmable,
            MakeStages, QuoteStages, SettleStages, TicketStages, PaidStages,
            OtherStages, NoTxnStages, OrderStages, PayLabels, Final
<1>1. ASSUME NEW r \in Requests, PayRead(r) PROVE FramesKept
  BY <1>1 DEF PayRead
<1>2. ASSUME NEW r \in Requests, ConfirmRead(r) PROVE FramesKept
  BY <1>2 DEF ConfirmRead
<1>3. ASSUME NEW r \in Requests, CancelRead(r) PROVE FramesKept
  BY <1>3 DEF CancelRead
<1>4. ASSUME NEW r \in Requests, RefundRead(r) PROVE FramesKept
  BY <1>4 DEF RefundRead
<1>5. ASSUME NEW r \in Requests, HookRead(r) PROVE FramesKept
  BY <1>5 DEF HookRead
<1>6. ASSUME NEW r \in Requests, ReadTxnNumber(r) \/ InsertTxn(r) \/ TxnClash(r) PROVE FramesKept
  BY <1>6 DEF ReadTxnNumber, InsertTxn, StoreTxn, TxnClash
<1>7. ASSUME NEW r \in Requests, Charge(r) PROVE FramesKept
  BY <1>7 DEF Charge
<1>8. ASSUME NEW r \in Requests, SettleApproved(r) \/ SettleDeclined(r) \/ SettleFails(r) PROVE FramesKept
  BY <1>8 DEF SettleApproved, SettleDeclined, SettleFails, SettledStatus
<1>9. ASSUME NEW r \in Requests, MarkPaid(r) PROVE FramesKept
  BY <1>9 DEF MarkPaid, WriteStatus
<1>10. ASSUME NEW r \in Requests, RecordFailure(r) PROVE FramesKept
  BY <1>10 DEF RecordFailure, MarkFailed
<1>11. ASSUME NEW r \in Requests, IssueTickets(r) PROVE FramesKept
  <2>1. /\ UNCHANGED <<ord, tgt, todo>> /\ Kind[r] = "pay"
        /\ pc'[r] \notin {"refundOrder", "cancelTickets", "confirmSave"}
        /\ pc[r] # "refundSave"
    BY <1>11 DEF IssueTickets, ReadTicketNumber, SaveTicket, TicketClash
  <2>2. \A q \in Requests : q # r => pc'[q] = pc[q] /\ left'[q] = left[q]
    BY <1>11 DEF IssueTickets, ReadTicketNumber, SaveTicket, StoreTicket,
       TicketClash
  <2> QED
    BY <2>1, <2>2
<1>12. ASSUME NEW r \in Requests, ExpireRead(r) \/ ExpireSave(r) PROVE FramesKept
  BY <1>12 DEF ExpireRead, ExpireSave, WriteStatus
<1>13. ASSUME NEW r \in Requests, ConfirmSave(r) \/ CancelSave(r) PROVE FramesKept
  BY <1>13 DEF ConfirmSave, CancelSave, WriteStatus
<1>14. ASSUME NEW r \in Requests, RefundCall(r) PROVE FramesKept
  BY <1>14 DEF RefundCall, AfterRefund
<1>15. ASSUME NEW r \in Requests, RefundSave(r) PROVE FramesKept
  BY <1>15 DEF RefundSave, RefundStatus
<1>16. ASSUME NEW r \in Requests, HookSave(r) PROVE FramesKept
  BY <1>16 DEF HookSave
<1>17. ASSUME NEW r \in Requests, CallFails(r) PROVE FramesKept
  BY <1>17 DEF CallFails
<1>18. ASSUME NEW o \in Orders, TimePasses(o) PROVE FramesKept
  BY <1>18 DEF TimePasses
<1>19. ASSUME NEW t \in Requests, ProviderRefund(t) PROVE FramesKept
  BY <1>19 DEF ProviderRefund
<1>20. CASE Crash
  BY <1>20 DEF Crash, InFlight
<1> QED
  BY <1>1, <1>2, <1>3, <1>4, <1>5, <1>6, <1>7, <1>8, <1>9,
     <1>10, <1>11, <1>12, <1>13, <1>14, <1>15, <1>16, <1>17, <1>18,
     <1>19, <1>20
     DEF PayEvents, Begin, Step, Fails

(***************************************************************************)
(* The inductive step for the conjuncts that Checkout adds.                 *)
(***************************************************************************)

\* Requests stay with the labels of their endpoints.
LEMMA KindKept ==
  ASSUME CheckTypeOK, KindInv,
         [CheckNext]_checkVars
  PROVE  KindInv'
<1> USE DEF CheckTypeOK, DataTypeOK, KindInv, PayLabels, MakeStages, QuoteStages, SettleStages, TicketStages, Final
<1>1. CASE PayEvents /\ UNCHANGED newVars
  BY <1>1, PayKinds
<1>2. ASSUME NEW r \in Requests, Moves(r), MovesFrom(r) PROVE KindInv'
  BY <1>2 DEF Moves, MovesFrom
<1>3. ASSUME NEW r \in Requests, BeginCheckout(r) PROVE KindInv'
  BY <1>3 DEF BeginCheckout, ReadCart
<1>4. ASSUME NEW r \in Requests, OrderCart(r) PROVE KindInv'
  BY <1>4 DEF OrderCart, ReadCart
<1>5. ASSUME NEW r \in Requests, InstantCharge(r) PROVE KindInv'
  BY <1>5 DEF InstantCharge, Reported
<1>6. ASSUME NEW r \in Requests, SaveOrder(r) PROVE KindInv'
  BY <1>6 DEF SaveOrder, OrderUnits
<1>7. ASSUME NEW r \in Requests, SaveInstantTxn(r) PROVE KindInv'
  BY <1>7 DEF SaveInstantTxn, PaidOrders
<1>8. ASSUME NEW r \in Requests, PayNextOrder(r) PROVE KindInv'
  BY <1>8 DEF PayNextOrder, WriteStatus
<1>9. ASSUME NEW r \in Requests, InstantTicket(r) PROVE KindInv'
  BY <1>9 DEF InstantTicket, SaveTicket, StoreTicket, LastUnit
<1>10. ASSUME NEW r \in Requests, RefundOrder(r) PROVE KindInv'
  BY <1>10 DEF RefundOrder, WriteStatus
<1>11. ASSUME NEW r \in Requests, CancelTickets(r) PROVE KindInv'
  BY <1>11 DEF CancelTickets
<1>12. CASE UNCHANGED checkVars
  BY <1>12 DEF checkVars
<1> QED
  BY <1>1, <1>2, <1>3, <1>4, <1>5, <1>6, <1>7, <1>8,
     <1>9, <1>10, <1>11, <1>12, CheckSteps

\* Only payments are charged and issue tickets.
LEMMA OthersKeep ==
  ASSUME CheckTypeOK, KindInv, StageInv, RefundInv, InstantInv, OthersInv,
         [CheckNext]_checkVars
  PROVE  OthersInv'
<1> USE DEF CheckTypeOK, DataTypeOK, OthersInv, KindInv, MakeStages, QuoteStages, SettleStages, TicketStages, Final
<1>1. CASE PayEvents /\ UNCHANGED newVars
  BY <1>1, PayOthers DEF OthersKept
<1>2. ASSUME NEW r \in Requests, Moves(r), MovesFrom(r) PROVE OthersInv'
  BY <1>2 DEF Moves, MovesFrom
<1>3. ASSUME NEW r \in Requests, BeginCheckout(r) PROVE OthersInv'
  BY <1>3 DEF BeginCheckout, ReadCart
<1>4. ASSUME NEW r \in Requests, OrderCart(r) PROVE OthersInv'
  BY <1>4 DEF OrderCart, ReadCart
<1>5. ASSUME NEW r \in Requests, InstantCharge(r) PROVE OthersInv'
  BY <1>5 DEF InstantCharge, Reported
<1>6. ASSUME NEW r \in Requests, SaveOrder(r) PROVE OthersInv'
  BY <1>6 DEF SaveOrder, OrderUnits
<1>7. ASSUME NEW r \in Requests, SaveInstantTxn(r) PROVE OthersInv'
  BY <1>7 DEF SaveInstantTxn, PaidOrders
<1>8. ASSUME NEW r \in Requests, PayNextOrder(r) PROVE OthersInv'
  BY <1>8 DEF PayNextOrder, WriteStatus
<1>9. ASSUME NEW r \in Requests, InstantTicket(r) PROVE OthersInv'
  BY <1>9 DEF InstantTicket, SaveTicket, StoreTicket, LastUnit
<1>10. ASSUME NEW r \in Requests, RefundOrder(r) PROVE OthersInv'
  BY <1>10 DEF RefundOrder, WriteStatus
<1>11. ASSUME NEW r \in Requests, CancelTickets(r) PROVE OthersInv'
  BY <1>11 DEF CancelTickets
<1>12. CASE UNCHANGED checkVars
  BY <1>12 DEF checkVars
<1> QED
  BY <1>1, <1>2, <1>3, <1>4, <1>5, <1>6, <1>7, <1>8,
     <1>9, <1>10, <1>11, <1>12, CheckSteps

\* Orders that are referred to exist, and stay.
LEMMA OrdersKept ==
  ASSUME CheckTypeOK, KindInv, FrameInv, StageInv, InstantInv, OrderInv,
         [CheckNext]_checkVars
  PROVE  OrderInv'
<1> USE DEF CheckTypeOK, DataTypeOK, OrderInv, KindInv, InstantInv, Instant, MakeStages, QuoteStages, SettleStages, TicketStages, Final
<1>1. CASE PayEvents /\ UNCHANGED newVars
  <2>1. Booked /\ FramesKept /\ made' = made
    BY <1>1, PayBooks, PayFrames
  <2>2. \A o \in Orders : orderStatus'[o] = "none" => units'[o] = 0
    BY <2>1 DEF Booked
  <2>3. \A r \in Requests : todo'[r] = todo[r] \/ todo'[r] = txnOrders[tgt[r]]
    BY <2>1 DEF FramesKept
  <2>4. \A r \in Requests : \A o \in made'[r] \cup txnOrders'[r] \cup todo'[r] :
          o \in Orders /\ orderStatus[o] # "none"
    <3> TAKE r \in Requests
    <3>1. tgt[r] \in Requests /\ made'[r] = made[r] /\ txnOrders'[r] = txnOrders[r]
      BY <2>1 DEF Booked
    <3>2. \A q \in Requests : \A o \in made[q] \cup txnOrders[q] \cup todo[q] :
            o \in Orders /\ orderStatus[o] # "none"
      OBVIOUS
    <3> HIDE DEF OrderInv, CheckTypeOK
    <3> QED
      BY <2>3, <3>1, <3>2
  <2>5. \A r \in Requests : \A o \in made'[r] \cup txnOrders'[r] \cup todo'[r] :
          orderStatus'[o] # "none"
    BY <2>1, <2>4 DEF Booked
  <2>6. \A r \in Requests : pc'[r] = "cancelTickets" =>
          ord'[r] \in Orders /\ orderStatus'[ord'[r]] # "none"
    <3> TAKE r \in Requests
    <3> HAVE pc'[r] = "cancelTickets"
    <3>1. pc[r] = "cancelTickets" /\ ord'[r] = ord[r]
      BY <2>1 DEF FramesKept
    <3>2. ord[r] \in Orders /\ orderStatus[ord[r]] # "none"
      BY <3>1
    <3> QED
      BY <2>1, <3>1, <3>2 DEF Booked
  <2> QED
    BY <2>2, <2>5, <2>6
<1>2. ASSUME NEW r \in Requests, Moves(r), MovesFrom(r) PROVE OrderInv'
  BY <1>2 DEF Moves, MovesFrom
<1>3. ASSUME NEW r \in Requests, BeginCheckout(r) PROVE OrderInv'
  BY <1>3 DEF BeginCheckout, ReadCart
<1>4. ASSUME NEW r \in Requests, OrderCart(r) PROVE OrderInv'
  BY <1>4 DEF OrderCart, ReadCart
<1>5. ASSUME NEW r \in Requests, InstantCharge(r) PROVE OrderInv'
  BY <1>5 DEF InstantCharge, Reported
<1>6. ASSUME NEW r \in Requests, SaveOrder(r) PROVE OrderInv'
  BY <1>6 DEF SaveOrder, OrderUnits
<1>7. ASSUME NEW r \in Requests, SaveInstantTxn(r) PROVE OrderInv'
  BY <1>7 DEF SaveInstantTxn, PaidOrders
<1>8. ASSUME NEW r \in Requests, PayNextOrder(r) PROVE OrderInv'
  BY <1>8 DEF PayNextOrder, WriteStatus
<1>9. ASSUME NEW r \in Requests, InstantTicket(r) PROVE OrderInv'
  BY <1>9 DEF InstantTicket, SaveTicket, StoreTicket, LastUnit
<1>10. ASSUME NEW r \in Requests, RefundOrder(r) PROVE OrderInv'
  BY <1>10 DEF RefundOrder, WriteStatus
<1>11. ASSUME NEW r \in Requests, CancelTickets(r) PROVE OrderInv'
  BY <1>11 DEF CancelTickets
<1>12. CASE UNCHANGED checkVars
  BY <1>12 DEF checkVars
<1> QED
  BY <1>1, <1>2, <1>3, <1>4, <1>5, <1>6, <1>7, <1>8,
     <1>9, <1>10, <1>11, <1>12, CheckSteps

\* What was paid for stays so.
LEMMA PaidForKept ==
  ASSUME CheckTypeOK, KindInv, FrameInv, StageInv, OthersInv, InstantInv,
         [CheckNext]_checkVars
  PROVE  \A o \in Orders : PaidFor(o) => PaidFor(o)'
<1> USE DEF CheckTypeOK, DataTypeOK, PaidFor, KindInv, OthersInv, InstantInv, Instant, MakeStages, QuoteStages, SettleStages, TicketStages, Final
<1>1. CASE PayEvents /\ UNCHANGED newVars
  BY <1>1, PayBooks DEF Booked
<1>2. ASSUME NEW r \in Requests, Moves(r), MovesFrom(r) PROVE \A o \in Orders : PaidFor(o) => PaidFor(o)'
  BY <1>2 DEF Moves, MovesFrom
<1>3. ASSUME NEW r \in Requests, BeginCheckout(r) PROVE \A o \in Orders : PaidFor(o) => PaidFor(o)'
  BY <1>3 DEF BeginCheckout, ReadCart
<1>4. ASSUME NEW r \in Requests, OrderCart(r) PROVE \A o \in Orders : PaidFor(o) => PaidFor(o)'
  BY <1>4 DEF OrderCart, ReadCart
<1>5. ASSUME NEW r \in Requests, InstantCharge(r) PROVE \A o \in Orders : PaidFor(o) => PaidFor(o)'
  BY <1>5 DEF InstantCharge, Reported
<1>6. ASSUME NEW r \in Requests, SaveOrder(r) PROVE \A o \in Orders : PaidFor(o) => PaidFor(o)'
  BY <1>6 DEF SaveOrder, OrderUnits
<1>7. ASSUME NEW r \in Requests, SaveInstantTxn(r) PROVE \A o \in Orders : PaidFor(o) => PaidFor(o)'
  BY <1>7 DEF SaveInstantTxn, PaidOrders
<1>8. ASSUME NEW r \in Requests, PayNextOrder(r) PROVE \A o \in Orders : PaidFor(o) => PaidFor(o)'
  <2>1. captured[r] /\ ord[r] \in made[r] \cup {NoOrder}
    BY <1>8 DEF PayNextOrder
  <2>2. UNCHANGED <<captured, made>> /\ \A q \in Requests : q # r => ord'[q] = ord[q]
    BY <1>8 DEF PayNextOrder
  <2> TAKE o \in Orders
  <2> HAVE PaidFor(o)
  <2>3. PICK q \in Requests : captured[q] /\ (ord[q] = o \/ o \in made[q])
    OBVIOUS
  <2>4. q = r => o \in made[r]
    BY <2>1, <2>3, NoOrderAssumption
  <2>5. captured'[q] /\ (ord'[q] = o \/ o \in made'[q])
    BY <2>2, <2>3, <2>4
  <2> QED
    BY <2>5
<1>9. ASSUME NEW r \in Requests, InstantTicket(r) PROVE \A o \in Orders : PaidFor(o) => PaidFor(o)'
  BY <1>9 DEF InstantTicket, SaveTicket, StoreTicket, LastUnit
<1>10. ASSUME NEW r \in Requests, RefundOrder(r) PROVE \A o \in Orders : PaidFor(o) => PaidFor(o)'
  <2>1. ~captured[r]
    BY <1>10 DEF RefundOrder
  <2>2. UNCHANGED <<captured, made>> /\ \A q \in Requests : q # r => ord'[q] = ord[q]
    BY <1>10 DEF RefundOrder
  <2> QED
    BY <2>1, <2>2
<1>11. ASSUME NEW r \in Requests, CancelTickets(r) PROVE \A o \in Orders : PaidFor(o) => PaidFor(o)'
  BY <1>11 DEF CancelTickets
<1>12. CASE UNCHANGED checkVars
  BY <1>12 DEF checkVars
<1> QED
  BY <1>1, <1>2, <1>3, <1>4, <1>5, <1>6, <1>7, <1>8,
     <1>9, <1>10, <1>11, <1>12, CheckSteps

(***************************************************************************)
(* Instant payments.  What a cart that is not empty holds is for sale: some *)
(* type has rows with units, so there is an order to make.                  *)
(***************************************************************************)
LEMMA SomethingToOrder ==
  ASSUME qty \in [Rows -> Nat], ~CartIsEmpty
  PROVE  \E t \in Types : Totals[t] > 0
<1>1. PICK w \in Rows : qty[w] > 0
  BY DEF CartIsEmpty
<1> DEFINE t == TypeOf[w]
<1>2. t \in Types /\ w \in InCart(t)
  BY <1>1, TypeOfAssumption DEF InCart
<1>3. IsFiniteSet(InCart(t)) /\ \A v \in InCart(t) : qty[v] \in Nat
  BY RowsAssumption, FS_Subset DEF InCart
<1>4. SumOf(qty, InCart(t)) # 0
  BY <1>1, <1>2, <1>3, SumIsZero
<1>5. Totals[t] = SumOf(qty, InCart(t))
  BY <1>2, Zenon DEF Totals, Total, SumOf
<1>6. Totals[t] \in Nat
  BY <1>2, TotalType
<1> QED
  BY <1>2, <1>4, <1>5, <1>6

\* A step of another request leaves the state of instant payment q alone; a
\* refund may be recorded in its transaction.
Untouched(q) ==
    /\ pc'[q] \in {pc[q], "crashed"}
    /\ \A o \in made[q] : units'[o] = units[o]
    /\ made'[q] = made[q] /\ lines'[q] = lines[q] /\ ord'[q] = ord[q]
    /\ todo'[q] = todo[q] /\ left'[q] = left[q] /\ captured'[q] = captured[q]
    /\ issued'[q] = issued[q] /\ txnOrders'[q] = txnOrders[q]
    /\ txnStatus'[q] = txnStatus[q] \/ txnStatus'[q] \in {"refunded", "partial_refund"}

\* Such a step keeps what is known of an instant payment.
LEMMA InstantStays ==
  ASSUME CheckTypeOK, NEW q \in Requests, Instant(q), Untouched(q)
  PROVE  Instant(q)'
<1>1. CASE pc'[q] = pc[q]
  <2>1. /\ ord'[q] \in made'[q] \cup {NoOrder} /\ todo'[q] \subseteq made'[q]
        /\ pc'[q] \in {"idle", "quote", "instantCharge"} => ~captured'[q]
        /\ pc'[q] \in {"orderCart", "clearCart", "txnSave"} \cup MakeStages \cup SettleStages
             => captured'[q]
        /\ pc'[q] \in {"idle"} \cup QuoteStages => made'[q] = {}
        /\ pc'[q] \in MakeStages => \E t \in Types : lines'[q][t] > 0
        /\ pc'[q] \in {"clearCart", "txnSave"} \cup SettleStages => made'[q] # {}
        /\ pc'[q] \in {"idle", "clearCart", "txnSave"} \cup QuoteStages \cup MakeStages =>
             txnOrders'[q] = {} /\ \A o \in Orders : issued'[q][o] = 0
        /\ pc'[q] \in TicketStages => left'[q] > 0 /\ ord'[q] \in made'[q] \ todo'[q]
    BY <1>1 DEF Instant, Untouched
  <2>2. pc'[q] \in SettleStages =>
             txnOrders'[q] = made'[q] /\ txnStatus'[q] \notin {"none", "processing", "failed"}
    BY <1>1 DEF Instant, Untouched
  <2>3. pc'[q] \in SettleStages => \A o \in Orders :
             issued'[q][o] = IF o \notin made'[q] \ todo'[q] THEN 0
                             ELSE IF pc'[q] \in TicketStages /\ o = ord'[q]
                                  THEN units'[o] - left'[q] ELSE units'[o]
    BY <1>1 DEF Instant, Untouched
  <2> QED
    BY <2>1, <2>2, <2>3 DEF Instant
<1>2. CASE pc'[q] = "crashed"
  BY <1>2 DEF Instant, Untouched, MakeStages, SettleStages, QuoteStages, TicketStages
<1> QED
  BY <1>1, <1>2 DEF Untouched

Delivered(q) ==
    pc[q] = "ok" =>
        /\ made[q] # {} /\ txnOrders[q] = made[q]
        /\ \A o \in Orders : issued[q][o] = IF o \in made[q] THEN units[o] ELSE 0
        /\ txnStatus[q] \notin {"none", "processing", "failed"}

\* It also keeps what an answered one delivered.
LEMMA DeliveredStays ==
  ASSUME CheckTypeOK, NEW q \in Requests, Delivered(q), Untouched(q)
  PROVE  Delivered(q)'
BY DEF Delivered, Untouched

\* Instant payments go from stage to stage, and deliver.
LEMMA InstantKept ==
  ASSUME CheckTypeOK, KindInv, FrameInv, StageInv, RefundInv, OrderInv, InstantInv,
         InstantIsDelivered, [CheckNext]_checkVars
  PROVE  InstantInv' /\ InstantIsDelivered'
<1> SUFFICES ASSUME NEW q \in Requests, Kind[q] = "instant"
             PROVE  Instant(q)' /\ Delivered(q)'
  BY DEF InstantInv, InstantIsDelivered, Delivered
<1>0. Instant(q) /\ Delivered(q)
  BY DEF InstantInv, InstantIsDelivered, Delivered
<1> USE <1>0 DEF CheckTypeOK, DataTypeOK
<1>1. CASE PayEvents /\ UNCHANGED newVars
  <2>1. Booked /\ OthersKept /\ FramesKept
    BY <1>1, PayBooks, PayOthers, PayFrames
  <2>2. Untouched(q)
    BY <1>1, <2>1 DEF Untouched, Booked, OthersKept, FramesKept
  <2> QED
    BY <2>2, InstantStays, DeliveredStays
<1>2. ASSUME NEW r \in Requests, Moves(r), MovesFrom(r) PROVE Instant(q)' /\ Delivered(q)'
  <2>1. CASE q # r
    <3>1. Untouched(q)
      BY <1>2, <2>1 DEF Untouched, Moves
    <3> QED
      BY <3>1, InstantStays, DeliveredStays
  <2>2. CASE q = r
    <3>1. UNCHANGED <<units, made, lines, ord, todo, left, captured, issued, txnOrders, txnStatus>>
      BY <1>2 DEF Moves
    <3>2. \/ pc[q] = "idle" /\ pc'[q] = "quote"
          \/ pc[q] = "orderNumber" /\ pc'[q] = "orderSave"
          \/ pc[q] = "clearCart" /\ pc'[q] = "txnSave"
          \/ pc[q] = "quote" /\ pc'[q] = "instantCharge"
          \/ pc[q] = "ticketNumber" /\ pc'[q] = "ticketSave"
          \/ pc'[q] = "error"
      BY <1>2, <2>2 DEF MovesFrom, KindInv
    <3> QED
      BY <3>1, <3>2 DEF Instant, Delivered, QuoteStages, MakeStages, SettleStages, TicketStages
  <2> QED
    BY <2>1, <2>2
<1>3. ASSUME NEW r \in Requests, BeginCheckout(r) PROVE Instant(q)' /\ Delivered(q)'
  <2>1. CASE q # r
    <3>1. Untouched(q)
      BY <1>3, <2>1 DEF Untouched, BeginCheckout, ReadCart
    <3> QED
      BY <3>1, InstantStays, DeliveredStays
  <2> QED
    BY <1>3, <2>1 DEF BeginCheckout
<1>4. ASSUME NEW r \in Requests, OrderCart(r) PROVE Instant(q)' /\ Delivered(q)'
  <2>1. CASE q # r
    <3>1. Untouched(q)
      BY <1>4, <2>1 DEF Untouched, OrderCart, ReadCart
    <3> QED
      BY <3>1, InstantStays, DeliveredStays
  <2>2. CASE q = r
    <3>1. UNCHANGED <<units, made, ord, todo, left, captured, issued, txnOrders, txnStatus>>
      BY <1>4 DEF OrderCart, ReadCart
    <3>2. /\ pc[q] = "orderCart" /\ pc'[q] \in {"error", "orderNumber"}
          /\ pc'[q] = "orderNumber" => \E t \in Types : lines'[q][t] > 0
      BY <1>4, <2>2, SomethingToOrder DEF OrderCart, ReadCart
    <3> QED
      BY <3>1, <3>2 DEF Instant, Delivered, QuoteStages, MakeStages, SettleStages, TicketStages
  <2> QED
    BY <2>1, <2>2
<1>5. ASSUME NEW r \in Requests, InstantCharge(r) PROVE Instant(q)' /\ Delivered(q)'
  <2>1. CASE q # r
    <3>1. Untouched(q)
      BY <1>5, <2>1 DEF Untouched, InstantCharge
    <3> QED
      BY <3>1, InstantStays, DeliveredStays
  <2>2. CASE q = r
    <3>1. UNCHANGED <<units, made, lines, ord, todo, left, issued, txnOrders, txnStatus>>
      BY <1>5 DEF InstantCharge
    <3>2. /\ pc[q] = "instantCharge" /\ pc'[q] \in {"error", "orderCart"}
          /\ pc'[q] = "orderCart" => captured'[q]
      BY <1>5, <2>2 DEF InstantCharge, Reported
    <3> QED
      BY <3>1, <3>2 DEF Instant, Delivered, QuoteStages, MakeStages, SettleStages, TicketStages
  <2> QED
    BY <2>1, <2>2
<1>6. ASSUME NEW r \in Requests, SaveOrder(r) PROVE Instant(q)' /\ Delivered(q)'
  <2>1. CASE q # r
    <3>1. Untouched(q)
      BY <1>6, <2>1 DEF Untouched, SaveOrder, OrderInv
    <3> QED
      BY <3>1, InstantStays, DeliveredStays
  <2>2. CASE q = r
    <3>1. UNCHANGED <<ord, todo, left, captured, issued, txnOrders, txnStatus>>
      BY <1>6 DEF SaveOrder
    <3>2. /\ pc[q] = "orderSave" /\ pc'[q] \in {"clearCart", "orderNumber"}
          /\ made[q] \subseteq made'[q] /\ made'[q] # {}
      BY <1>6, <2>2 DEF SaveOrder
    <3>3. pc'[q] = "orderNumber" => \E u \in Types : lines'[q][u] > 0
      <4>1. PICK t \in Types : /\ lines' = [lines EXCEPT ![r][t] = 0]
                              /\ pc' = [pc EXCEPT ![r] = IF \A u \in Types \ {t} : lines[r][u] = 0
                                                         THEN "clearCart" ELSE "orderNumber"]
        BY <1>6 DEF SaveOrder
      <4>2. ASSUME pc'[q] = "orderNumber" PROVE \E u \in Types : lines'[q][u] > 0
        <5>1. PICK u \in Types \ {t} : lines[r][u] # 0
          BY <2>2, <4>1, <4>2
        <5>2. lines[r][u] \in Nat /\ lines'[r][u] = lines[r][u]
          BY <4>1
        <5> QED
          BY <2>2, <5>1, <5>2
      <4> QED
        BY <4>2
    <3> QED
      BY <3>1, <3>2, <3>3 DEF Instant, Delivered, QuoteStages, MakeStages, SettleStages, TicketStages
  <2> QED
    BY <2>1, <2>2
<1>7. ASSUME NEW r \in Requests, SaveInstantTxn(r) PROVE Instant(q)' /\ Delivered(q)'
  <2>1. CASE q # r
    <3>1. Untouched(q)
      BY <1>7, <2>1 DEF Untouched, SaveInstantTxn
    <3> QED
      BY <3>1, InstantStays, DeliveredStays
  <2>2. CASE q = r
    <3>1. UNCHANGED <<units, made, lines, ord, left, captured, issued>>
      BY <1>7 DEF SaveInstantTxn
    <3>2. /\ pc[q] = "txnSave" /\ pc'[q] = "nextOrder" /\ todo'[q] = made[q]
          /\ txnOrders'[q] = made[q] /\ txnStatus'[q] = "completed"
      BY <1>7, <2>2 DEF SaveInstantTxn, PaidOrders
    <3> QED
      BY <3>1, <3>2 DEF Instant, Delivered, QuoteStages, MakeStages, SettleStages, TicketStages
  <2> QED
    BY <2>1, <2>2
<1>8. ASSUME NEW r \in Requests, PayNextOrder(r) PROVE Instant(q)' /\ Delivered(q)'
  <2>1. CASE q # r
    <3>1. Untouched(q)
      BY <1>8, <2>1 DEF Untouched, PayNextOrder
    <3> QED
      BY <3>1, InstantStays, DeliveredStays
  <2>2. CASE q = r
    <3>1. UNCHANGED <<units, made, lines, captured, issued, txnOrders, txnStatus>>
      BY <1>8 DEF PayNextOrder
    <3>2. PICK o \in todo[q] : /\ ord'[q] = o /\ todo'[q] = todo[q] \ {o} /\ left'[q] = units[o]
                               /\ pc[q] = "nextOrder" /\ pc'[q] = "ticketNumber"
      BY <1>8, <2>2 DEF PayNextOrder
    <3>3. o \in made[q] /\ o \in Orders /\ units[o] > 0
      BY <3>2 DEF Instant, OrderInv, FrameInv
    <3>4. \A x \in Orders : issued'[q][x] =
            IF x \notin made'[q] \ todo'[q] THEN 0
            ELSE IF x = ord'[q] THEN units'[x] - left'[q] ELSE units'[x]
      BY <3>1, <3>2, <3>3 DEF Instant, QuoteStages, MakeStages, SettleStages, TicketStages
    <3> QED
      BY <3>1, <3>2, <3>3, <3>4 DEF Instant, Delivered, QuoteStages, MakeStages, SettleStages, TicketStages
  <2> QED
    BY <2>1, <2>2
<1>9. ASSUME NEW r \in Requests, InstantTicket(r) PROVE Instant(q)' /\ Delivered(q)'
  <2>1. CASE q # r
    <3>1. Untouched(q)
      BY <1>9, <2>1 DEF Untouched, InstantTicket, SaveTicket, StoreTicket
    <3> QED
      BY <3>1, InstantStays, DeliveredStays
  <2>2. CASE q = r
    <3>1. UNCHANGED <<units, made, lines, ord, todo, captured, txnOrders, txnStatus>>
      BY <1>9 DEF InstantTicket, SaveTicket
    <3>2. /\ pc[q] = "ticketSave" /\ left' = [left EXCEPT ![q] = @ - 1]
          /\ pc'[q] = IF left[q] = 1 THEN IF todo[q] = {} THEN "ok" ELSE "nextOrder"
                     ELSE "ticketNumber"
          /\ issued' = [issued EXCEPT ![q][ord[q]] = @ + 1]
      BY <1>9, <2>2 DEF InstantTicket, SaveTicket, StoreTicket, LastUnit
    <3>3. left[q] \in Nat /\ left[q] > 0 /\ ord[q] \in made[q] \ todo[q] /\ ord[q] \in Orders
      BY <3>2 DEF Instant, TicketStages
    <3>4. /\ left'[q] = left[q] - 1
          /\ \A x \in Orders : issued'[q][x] = IF x = ord[q] THEN issued[q][x] + 1 ELSE issued[q][x]
      BY <3>2
    <3>5. \A x \in Orders : issued'[q][x] =
            IF x \notin made[q] \ todo[q] THEN 0
            ELSE IF x = ord[q] THEN units[x] - left'[q] ELSE units[x]
      BY <3>2, <3>3, <3>4 DEF Instant, SettleStages, TicketStages
    <3>6. txnOrders[q] = made[q] /\ made[q] # {} /\ captured[q]
          /\ txnStatus[q] \notin {"none", "processing", "failed"}
      BY <3>2 DEF Instant, SettleStages, TicketStages
    <3>7. CASE left[q] = 1
      <4>1. pc'[q] \in {"ok", "nextOrder"} /\ (pc'[q] = "ok" => todo[q] = {})
        BY <3>2, <3>7
      <4>2. \A x \in Orders : issued'[q][x] = IF x \notin made[q] \ todo[q] THEN 0 ELSE units[x]
        BY <3>3, <3>4, <3>5, <3>7
      <4> QED
        BY <3>1, <3>6, <4>1, <4>2 DEF Instant, Delivered, QuoteStages, MakeStages, SettleStages, TicketStages
    <3>8. CASE left[q] # 1
      <4>1. pc'[q] = "ticketNumber" /\ left'[q] > 0
        BY <3>2, <3>3, <3>4, <3>8
      <4> QED
        BY <3>1, <3>3, <3>5, <3>6, <4>1 DEF Instant, Delivered, QuoteStages, MakeStages, SettleStages, TicketStages
    <3> QED
      BY <3>7, <3>8
  <2> QED
    BY <2>1, <2>2
<1>10. ASSUME NEW r \in Requests, RefundOrder(r) PROVE Instant(q)' /\ Delivered(q)'
  <2>1. CASE q # r
    <3>1. Untouched(q)
      BY <1>10, <2>1 DEF Untouched, RefundOrder
    <3> QED
      BY <3>1, InstantStays, DeliveredStays
  <2> QED
    BY <1>10, <2>1 DEF RefundOrder, KindInv
<1>11. ASSUME NEW r \in Requests, CancelTickets(r) PROVE Instant(q)' /\ Delivered(q)'
  <2>1. CASE q # r
    <3>1. Untouched(q)
      BY <1>11, <2>1 DEF Untouched, CancelTickets
    <3> QED
      BY <3>1, InstantStays, DeliveredStays
  <2> QED
    BY <1>11, <2>1 DEF CancelTickets, KindInv
<1>12. CASE UNCHANGED checkVars
  BY <1>12 DEF checkVars, Instant, Delivered
<1> QED
  BY <1>1, <1>2, <1>3, <1>4, <1>5, <1>6, <1>7, <1>8, <1>9, <1>10, <1>11, <1>12, CheckSteps

\* The orders a refund still visits are those of the refunded transaction.
LEMMA VisitKept ==
  ASSUME CheckTypeOK, KindInv, FrameInv, StageInv, RefundInv, TicketInv, OrderInv,
         InstantInv, VisitInv,
         [CheckNext]_checkVars
  PROVE  VisitInv'
<1> USE DEF CheckTypeOK, DataTypeOK, VisitInv, KindInv, RefundInv, InstantInv, Instant,
            QuoteStages, MakeStages, SettleStages, TicketStages, Final
<1>1. CASE PayEvents /\ UNCHANGED newVars
  <2>1. Booked /\ FramesKept
    BY <1>1, PayBooks, PayFrames
  <2> SUFFICES ASSUME NEW r \in Requests, pc'[r] \in {"refundOrder", "cancelTickets"}
               PROVE  todo'[r] \subseteq txnOrders'[tgt'[r]] /\ refunds'[tgt'[r]] > 0
    OBVIOUS
  <2>2. pc[r] \in {"refundSave", "refundOrder", "cancelTickets"} /\ tgt'[r] = tgt[r]
    BY <2>1 DEF FramesKept
  <2>3. todo'[r] = todo[r] \/ todo'[r] = txnOrders[tgt[r]]
    BY <2>1 DEF FramesKept
  <2>4. todo'[r] \subseteq txnOrders[tgt[r]] /\ refunds[tgt[r]] > 0
    BY <2>1, <2>2, <2>3 DEF FramesKept
  <2>5. /\ tgt[r] \in Requests /\ txnOrders'[tgt[r]] = txnOrders[tgt[r]]
        /\ refunds'[tgt[r]] >= refunds[tgt[r]] /\ refunds[tgt[r]] \in Nat
    BY <2>1 DEF Booked
  <2>6. refunds' \in [Requests -> Nat]
    <3>1. CheckTypeOK'
      BY NextCheckType
    <3> QED
      BY <3>1
  <2>7. refunds'[tgt[r]] \in Nat
    BY <2>5, <2>6
  <2> QED
    BY <2>2, <2>4, <2>5, <2>7
<1>2. ASSUME NEW r \in Requests, Moves(r), MovesFrom(r) PROVE VisitInv'
  BY <1>2 DEF Moves, MovesFrom
<1>3. ASSUME NEW r \in Requests, BeginCheckout(r) PROVE VisitInv'
  BY <1>3 DEF BeginCheckout, ReadCart
<1>4. ASSUME NEW r \in Requests, OrderCart(r) PROVE VisitInv'
  BY <1>4 DEF OrderCart, ReadCart
<1>5. ASSUME NEW r \in Requests, InstantCharge(r) PROVE VisitInv'
  BY <1>5 DEF InstantCharge, Reported
<1>6. ASSUME NEW r \in Requests, SaveOrder(r) PROVE VisitInv'
  BY <1>6 DEF SaveOrder, OrderUnits
<1>7. ASSUME NEW r \in Requests, SaveInstantTxn(r) PROVE VisitInv'
  BY <1>7 DEF SaveInstantTxn, PaidOrders
<1>8. ASSUME NEW r \in Requests, PayNextOrder(r) PROVE VisitInv'
  BY <1>8 DEF PayNextOrder, WriteStatus
<1>9. ASSUME NEW r \in Requests, InstantTicket(r) PROVE VisitInv'
  BY <1>9 DEF InstantTicket, SaveTicket, StoreTicket, LastUnit
<1>10. ASSUME NEW r \in Requests, RefundOrder(r) PROVE VisitInv'
  BY <1>10 DEF RefundOrder, WriteStatus
<1>11. ASSUME NEW r \in Requests, CancelTickets(r) PROVE VisitInv'
  BY <1>11 DEF CancelTickets
<1>12. CASE UNCHANGED checkVars
  BY <1>12 DEF checkVars
<1> QED
  BY <1>1, <1>2, <1>3, <1>4, <1>5, <1>6, <1>7, <1>8,
     <1>9, <1>10, <1>11, <1>12, CheckSteps

\* CONFIRMED is about to be written only on what was read as PAID; PAID is
\* written by who charged for the order, CONFIRMED by who read PAID.
PaidStatuses == {"paid", "confirmed"}
ConfirmsPaid ==
    /\ \A r \in Requests : pc'[r] = "confirmSave" =>
          /\ ord'[r] \in Orders
          /\ orderStatus[ord'[r]] = "paid" \/ (pc[r] = "confirmSave" /\ ord'[r] = ord[r])
    /\ \A o \in Orders : orderStatus'[o] \in PaidStatuses =>
          orderStatus[o] \in PaidStatuses \/ PaidFor(o)

\* The handlers of OrderPayment write these statuses on paid orders.
LEMMA PayConfirms ==
  ASSUME CheckTypeOK, KindInv, FrameInv, StageInv, PaidForInv, PayEvents, UNCHANGED newVars
  PROVE  ConfirmsPaid
<1> USE DEF CheckTypeOK, DataTypeOK, KindInv, FrameInv, StageInv, PaidForInv, ConfirmsPaid, Confirmable, PaidStatuses, PaidFor,
            PaidStages, OtherStages, NoTxnStages, OrderStages, TicketStages, Final
<1>1. ASSUME NEW r \in Requests, PayRead(r) PROVE ConfirmsPaid
  BY <1>1 DEF PayRead
<1>2. ASSUME NEW r \in Requests, ConfirmRead(r) PROVE ConfirmsPaid
  BY <1>2 DEF ConfirmRead
<1>3. ASSUME NEW r \in Requests, CancelRead(r) PROVE ConfirmsPaid
  BY <1>3 DEF CancelRead
<1>4. ASSUME NEW r \in Requests, RefundRead(r) PROVE ConfirmsPaid
  BY <1>4 DEF RefundRead
<1>5. ASSUME NEW r \in Requests, HookRead(r) PROVE ConfirmsPaid
  BY <1>5 DEF HookRead
<1>6. ASSUME NEW r \in Requests, ReadTxnNumber(r) \/ InsertTxn(r) \/ TxnClash(r) PROVE ConfirmsPaid
  BY <1>6 DEF ReadTxnNumber, InsertTxn, StoreTxn, TxnClash
<1>7. ASSUME NEW r \in Requests, Charge(r) PROVE ConfirmsPaid
  BY <1>7 DEF Charge
<1>8. ASSUME NEW r \in Requests, SettleApproved(r) \/ SettleDeclined(r) \/ SettleFails(r) PROVE ConfirmsPaid
  BY <1>8 DEF SettleApproved, SettleDeclined, SettleFails, SettledStatus
<1>9. ASSUME NEW r \in Requests, MarkPaid(r) PROVE ConfirmsPaid
  BY <1>9 DEF MarkPaid, WriteStatus
<1>10. ASSUME NEW r \in Requests, RecordFailure(r) PROVE ConfirmsPaid
  BY <1>10 DEF RecordFailure, MarkFailed
<1>11. ASSUME NEW r \in Requests, IssueTickets(r) PROVE ConfirmsPaid
  BY <1>11 DEF IssueTickets, ReadTicketNumber, SaveTicket, StoreTicket,
     LastUnit, TicketClash
<1>12. ASSUME NEW r \in Requests, ExpireRead(r) \/ ExpireSave(r) PROVE ConfirmsPaid
  BY <1>12 DEF ExpireRead, ExpireSave, WriteStatus
<1>13. ASSUME NEW r \in Requests, ConfirmSave(r) \/ CancelSave(r) PROVE ConfirmsPaid
  BY <1>13 DEF ConfirmSave, CancelSave, WriteStatus
<1>14. ASSUME NEW r \in Requests, RefundCall(r) PROVE ConfirmsPaid
  BY <1>14 DEF RefundCall, AfterRefund
<1>15. ASSUME NEW r \in Requests, RefundSave(r) PROVE ConfirmsPaid
  BY <1>15 DEF RefundSave, RefundStatus
<1>16. ASSUME NEW r \in Requests, HookSave(r) PROVE ConfirmsPaid
  BY <1>16 DEF HookSave
<1>17. ASSUME NEW r \in Requests, CallFails(r) PROVE ConfirmsPaid
  BY <1>17 DEF CallFails
<1>18. ASSUME NEW o \in Orders, TimePasses(o) PROVE ConfirmsPaid
  BY <1>18 DEF TimePasses
<1>19. ASSUME NEW t \in Requests, ProviderRefund(t) PROVE ConfirmsPaid
  BY <1>19 DEF ProviderRefund
<1>20. CASE Crash
  BY <1>20 DEF Crash, InFlight
<1> QED
  BY <1>1, <1>2, <1>3, <1>4, <1>5, <1>6, <1>7, <1>8, <1>9,
     <1>10, <1>11, <1>12, <1>13, <1>14, <1>15, <1>16, <1>17, <1>18,
     <1>19, <1>20
     DEF PayEvents, Begin, Step, Fails

\* So do all steps.
LEMMA ConfirmsKept ==
  ASSUME CheckTypeOK, KindInv, FrameInv, StageInv, InstantInv, PaidForInv,
         [CheckNext]_checkVars
  PROVE  ConfirmsPaid
<1> USE DEF CheckTypeOK, DataTypeOK, KindInv, FrameInv, OrderStages, ConfirmsPaid, PaidStatuses,
            QuoteStages, MakeStages, SettleStages, TicketStages, Final
<1>1. CASE PayEvents /\ UNCHANGED newVars
  BY <1>1, PayConfirms
<1>2. ASSUME NEW r \in Requests, Moves(r), MovesFrom(r) PROVE ConfirmsPaid
  BY <1>2 DEF Moves, MovesFrom
<1>3. ASSUME NEW r \in Requests, BeginCheckout(r) PROVE ConfirmsPaid
  BY <1>3 DEF BeginCheckout, ReadCart
<1>4. ASSUME NEW r \in Requests, OrderCart(r) PROVE ConfirmsPaid
  BY <1>4 DEF OrderCart, ReadCart
<1>5. ASSUME NEW r \in Requests, InstantCharge(r) PROVE ConfirmsPaid
  BY <1>5 DEF InstantCharge, Reported
<1>6. ASSUME NEW r \in Requests, SaveOrder(r) PROVE ConfirmsPaid
  BY <1>6 DEF SaveOrder, OrderUnits
<1>7. ASSUME NEW r \in Requests, SaveInstantTxn(r) PROVE ConfirmsPaid
  BY <1>7 DEF SaveInstantTxn, PaidOrders
<1>8. ASSUME NEW r \in Requests, PayNextOrder(r) PROVE ConfirmsPaid
  <2>1. captured[r] /\ todo[r] \subseteq made[r] /\ todo[r] \subseteq Orders
    BY <1>8 DEF PayNextOrder, InstantInv, Instant
  <2>2. \A o \in todo[r] : PaidFor(o)
    BY <2>1 DEF PaidFor
  <2> QED
    BY <1>8, <2>1, <2>2 DEF PayNextOrder, WriteStatus
<1>9. ASSUME NEW r \in Requests, InstantTicket(r) PROVE ConfirmsPaid
  BY <1>9 DEF InstantTicket, SaveTicket, StoreTicket, LastUnit
<1>10. ASSUME NEW r \in Requests, RefundOrder(r) PROVE ConfirmsPaid
  BY <1>10 DEF RefundOrder, WriteStatus
<1>11. ASSUME NEW r \in Requests, CancelTickets(r) PROVE ConfirmsPaid
  BY <1>11 DEF CancelTickets
<1>12. CASE UNCHANGED checkVars
  BY <1>12 DEF checkVars
<1> QED
  BY <1>1, <1>2, <1>3, <1>4, <1>5, <1>6, <1>7, <1>8,
     <1>9, <1>10, <1>11, <1>12, CheckSteps

\* PAID and CONFIRMED orders stay paid for.
LEMMA PaidKept ==
  ASSUME CheckTypeOK, KindInv, FrameInv, StageInv, OthersInv, InstantInv, PaidForInv,
         PaidOrderWasCharged, [CheckNext]_checkVars
  PROVE  PaidForInv' /\ PaidOrderWasCharged'
<1>1. ConfirmsPaid /\ \A o \in Orders : PaidFor(o) => PaidFor(o)'
  BY ConfirmsKept, PaidForKept
<1>2. \A o \in Orders : orderStatus'[o] \in PaidStatuses => PaidFor(o)'
  BY <1>1 DEF ConfirmsPaid, PaidOrderWasCharged, PaidStatuses
<1>3. ASSUME NEW r \in Requests, pc'[r] = "confirmSave" PROVE PaidFor(ord[r])'
  <2>1. ord'[r] \in Orders /\ PaidFor(ord'[r])
    BY <1>1, <1>3 DEF ConfirmsPaid, PaidOrderWasCharged, PaidForInv
  <2> QED
    BY <1>1, <2>1 DEF PaidFor
<1> QED
  BY <1>2, <1>3 DEF PaidForInv, PaidOrderWasCharged, PaidStatuses

\* REFUNDED is written on orders of a refunded transaction.
LEMMA RefundedKept ==
  ASSUME CheckTypeOK, KindInv, FrameInv, StageInv, RefundInv, TicketInv, OrderInv,
         InstantInv, VisitInv, RefundedOrderWasRefunded,
         [CheckNext]_checkVars
  PROVE  RefundedOrderWasRefunded'
<1> USE DEF CheckTypeOK, DataTypeOK, RefundedOrderWasRefunded, KindInv, VisitInv, InstantInv, Instant,
            QuoteStages, MakeStages, SettleStages, TicketStages, Final
<1>1. CASE PayEvents /\ UNCHANGED newVars
  <2>1. Booked
    BY <1>1, PayBooks
  <2>2. refunds' \in [Requests -> Nat]
    <3>1. CheckTypeOK'
      BY NextCheckType
    <3> QED
      BY <3>1
  <2>3. \A t \in Requests : refunds[t] > 0 => refunds'[t] > 0
    BY <2>1, <2>2 DEF Booked
  <2> QED
    BY <2>1, <2>3 DEF Booked
<1>2. ASSUME NEW r \in Requests, Moves(r), MovesFrom(r) PROVE RefundedOrderWasRefunded'
  BY <1>2 DEF Moves, MovesFrom
<1>3. ASSUME NEW r \in Requests, BeginCheckout(r) PROVE RefundedOrderWasRefunded'
  BY <1>3 DEF BeginCheckout, ReadCart
<1>4. ASSUME NEW r \in Requests, OrderCart(r) PROVE RefundedOrderWasRefunded'
  BY <1>4 DEF OrderCart, ReadCart
<1>5. ASSUME NEW r \in Requests, InstantCharge(r) PROVE RefundedOrderWasRefunded'
  BY <1>5 DEF InstantCharge, Reported
<1>6. ASSUME NEW r \in Requests, SaveOrder(r) PROVE RefundedOrderWasRefunded'
  BY <1>6 DEF SaveOrder, OrderUnits
<1>7. ASSUME NEW r \in Requests, SaveInstantTxn(r) PROVE RefundedOrderWasRefunded'
  BY <1>7 DEF SaveInstantTxn, PaidOrders
<1>8. ASSUME NEW r \in Requests, PayNextOrder(r) PROVE RefundedOrderWasRefunded'
  BY <1>8 DEF PayNextOrder, WriteStatus
<1>9. ASSUME NEW r \in Requests, InstantTicket(r) PROVE RefundedOrderWasRefunded'
  BY <1>9 DEF InstantTicket, SaveTicket, StoreTicket, LastUnit
<1>10. ASSUME NEW r \in Requests, RefundOrder(r) PROVE RefundedOrderWasRefunded'
  BY <1>10 DEF RefundOrder, WriteStatus
<1>11. ASSUME NEW r \in Requests, CancelTickets(r) PROVE RefundedOrderWasRefunded'
  BY <1>11 DEF CancelTickets
<1>12. CASE UNCHANGED checkVars
  BY <1>12 DEF checkVars
<1> QED
  BY <1>1, <1>2, <1>3, <1>4, <1>5, <1>6, <1>7, <1>8,
     <1>9, <1>10, <1>11, <1>12, CheckSteps

(***************************************************************************)
(* The invariant.                                                           *)
(***************************************************************************)
LEMMA CheckInitInv == CheckInit => CheckInv
<1> SUFFICES ASSUME CheckInit PROVE CheckInv
  OBVIOUS
<1> USE DEF CheckInit, PayInit, StoreInit, CartInit
<1>1. CheckTypeOK
  BY UnitsAssumption, RowsAssumption, PlacedRowsAssumption DEF CheckTypeOK, DataTypeOK,
     CheckLabels, Labels, OrderStatus
<1>2. FrameInv /\ StageInv /\ RefundInv /\ TicketInv
  BY UnitsAssumption DEF FrameInv, StageInv, RefundInv, TicketInv, OrderStages, OtherStages,
     PaidStages, NoTxnStages, TicketStages
<1>3. KindInv /\ OthersInv /\ OrderInv /\ VisitInv /\ PaidForInv
  BY UnitsAssumption DEF KindInv, OthersInv, OrderInv, VisitInv, PaidForInv, PayLabels,
     MakeStages, QuoteStages, TicketStages
<1>4. InstantInv
  BY DEF InstantInv, Instant, MakeStages, QuoteStages, SettleStages, TicketStages
<1>5. PaidOrderWasCharged /\ InstantIsDelivered /\ RefundedOrderWasRefunded
  BY DEF PaidOrderWasCharged, InstantIsDelivered, RefundedOrderWasRefunded
<1> QED
  BY <1>1, <1>2, <1>3, <1>4, <1>5 DEF CheckInv

\* Every step keeps the invariant.
LEMMA CheckNextInv == CheckInv /\ [CheckNext]_checkVars => CheckInv'
<1> SUFFICES ASSUME CheckInv, [CheckNext]_checkVars PROVE CheckInv'
  OBVIOUS
<1> QED
  BY NextCheckType, FrameKept, StageKept, RefundKept, TicketKept, KindKept, OthersKeep,
     OrdersKept, InstantKept, VisitKept, PaidKept, RefundedKept DEF CheckInv

\* CheckInv holds of every reachable state of the checkout.
THEOREM CheckInvariance == CheckSpec => []CheckInv
BY CheckInitInv, CheckNextInv, PTL DEF CheckSpec

\* The collections and the requests' local state keep their types.
THEOREM CheckTypeCorrect == CheckSpec => []CheckTypeOK
<1>1. CheckInv => CheckTypeOK
  BY DEF CheckInv
<1> QED
  BY <1>1, CheckInvariance, PTL

\* A PAID or CONFIRMED order was charged to somebody, by processPayment or by
\* the instant payment that made it, whatever ran on the order meanwhile.
THEOREM PaidWasCharged == CheckSpec => []PaidOrderWasCharged
<1>1. CheckInv => PaidOrderWasCharged
  BY DEF CheckInv
<1> QED
  BY <1>1, CheckInvariance, PTL

\* An instant payment answered normally made orders, gave out all the tickets
\* of each, and its transaction names them.
THEOREM InstantDelivers == CheckSpec => []InstantIsDelivered
<1>1. CheckInv => InstantIsDelivered
  BY DEF CheckInv
<1> QED
  BY <1>1, CheckInvariance, PTL

\* An order is REFUNDED only after the provider gave money back for the
\* transaction that names it.
THEOREM RefundedOrderIsRefunded == CheckSpec => []RefundedOrderWasRefunded
<1>1. CheckInv => RefundedOrderWasRefunded
  BY DEF CheckInv
<1> QED
  BY <1>1, CheckInvariance, PTL

\* With instant payments too, a transaction recorded as refunded was charged,
\* and refunded by the provider or announced by an event.
THEOREM CheckRefundsAreTraced == CheckSpec => []RefundIsTraced
<1>1. CheckInv => RefundIsTraced
  BY DEF CheckInv, RefundInv, StageInv, RefundIsTraced
<1> QED
  BY <1>1, CheckInvariance, PTL

(***************************************************************************)
(* The checkout implements the ledger of money and tickets: storing an      *)
(* order places it, and an instant payment's charge comes before its orders *)
(* and their tickets.                                                       *)
(***************************************************************************)
LEMMA CheckLedgerInit == CheckInit => Ledger!Init
BY LedgerInit DEF CheckInit

\* Every step is a step of the ledger, or leaves it as it is.
LEMMA CheckLedgerStep ==
  ASSUME CheckInv, [CheckNext]_checkVars
  PROVE  [Ledger!Next]_(Ledger!ledgerVars)
<1> USE DEF Ledger!ledgerVars
<1>1. CASE PayEvents /\ UNCHANGED newVars
  BY <1>1, LedgerStep DEF PayNext, CheckInv, CheckTypeOK
<1>0. CheckTypeOK /\ OrderInv /\ InstantInv
  BY DEF CheckInv
<1> USE <1>0 DEF CheckTypeOK, DataTypeOK
<1>2. ASSUME NEW r \in Requests, Moves(r) PROVE UNCHANGED Ledger!ledgerVars
  BY <1>2 DEF Moves
<1>3. ASSUME NEW r \in Requests, BeginCheckout(r) \/ OrderCart(r)
      PROVE UNCHANGED Ledger!ledgerVars
  BY <1>3 DEF BeginCheckout, OrderCart, ReadCart
<1>4. ASSUME NEW r \in Requests, InstantCharge(r) PROVE [Ledger!Next]_(Ledger!ledgerVars)
  <2>1. PICK taken \in BOOLEAN : captured' = [captured EXCEPT ![r] = taken]
    BY <1>4 DEF InstantCharge
  <2>2. ~captured[r] /\ UNCHANGED <<units, issued>>
    BY <1>4 DEF InstantCharge, CheckInv, KindInv, QuoteStages, InstantInv, Instant
  <2>3. CASE taken
    BY <2>1, <2>2, <2>3 DEF Ledger!Next, Ledger!Capture
  <2>4. CASE ~taken
    BY <2>1, <2>2, <2>4
  <2> QED
    BY <2>3, <2>4
<1>5. ASSUME NEW r \in Requests, SaveOrder(r) PROVE [Ledger!Next]_(Ledger!ledgerVars)
  <2>1. PICK o \in Orders, t \in Types :
          /\ orderStatus[o] = "none" /\ lines[r][t] > 0
          /\ units' = [units EXCEPT ![o] = lines[r][t]]
    BY <1>5 DEF SaveOrder, OrderUnits
  <2>2. units[o] = 0 /\ units'[o] = lines[r][t] /\ lines[r][t] \in Nat \ {0}
    BY <2>1 DEF OrderInv
  <2>3. UNCHANGED <<captured, issued>>
    BY <1>5 DEF SaveOrder
  <2> QED
    BY <2>1, <2>2, <2>3 DEF Ledger!Next, Ledger!Place
<1>6. ASSUME NEW r \in Requests, InstantTicket(r) PROVE [Ledger!Next]_(Ledger!ledgerVars)
  <2>1. Instant(r) /\ pc[r] = "ticketSave"
    BY <1>6 DEF InstantTicket, SaveTicket, InstantInv
  <2>2. captured[r] /\ ord[r] \in made[r] \ todo[r] /\ ord[r] \in Orders /\ left[r] > 0
    BY <2>1 DEF Instant, SettleStages, TicketStages
  <2>3. issued[r][ord[r]] = units[ord[r]] - left[r]
    BY <2>1, <2>2 DEF Instant, SettleStages, TicketStages
  <2>4. issued[r][ord[r]] < units[ord[r]]
    BY <2>2, <2>3
  <2>5. issued' = [issued EXCEPT ![r][ord[r]] = @ + 1] /\ UNCHANGED <<units, captured>>
    BY <1>6 DEF InstantTicket, SaveTicket, StoreTicket
  <2> QED
    BY <2>2, <2>4, <2>5 DEF Ledger!Next, Ledger!Issue
<1>7. ASSUME NEW r \in Requests,
             SaveInstantTxn(r) \/ PayNextOrder(r) \/ RefundOrder(r) \/ CancelTickets(r)
      PROVE UNCHANGED Ledger!ledgerVars
  BY <1>7 DEF SaveInstantTxn, PayNextOrder, RefundOrder, CancelTickets
<1>8. CASE UNCHANGED checkVars
  BY <1>8 DEF checkVars
<1> QED
  BY <1>1, <1>2, <1>3, <1>4, <1>5, <1>6, <1>7, <1>8, CheckSteps

\* Orders made from carts and instant payments keep to the ledger too: tickets
\* are given out only after the charge, and never more than the order is for.
THEOREM CheckLedgerRefinement == CheckSpec => CheckoutImplementsLedger
<1>1. CheckInv /\ [CheckNext]_checkVars => [Ledger!Next]_(Ledger!ledgerVars)
  BY CheckLedgerStep
<1> QED
  BY <1>1, CheckLedgerInit, CheckInvariance, PTL DEF CheckSpec, CheckoutImplementsLedger,
     Ledger!Spec

(***************************************************************************)
(* What an instant payment was charged.  If no row is written between the   *)
(* quote and the orders, the cart can only be deleted as a whole, by a      *)
(* checkout; then there is nothing to order.  Otherwise what is due is      *)
(* what the orders are for and what is still to be ordered: a sum over      *)
(* orders and a sum over ticket types, one of which takes what the other    *)
(* gives.                                                                   *)
(***************************************************************************)
LEMMA SumsOfCart ==
  /\ \A t : Total(t) = SumOf(qty, InCart(t))
  /\ CartTotal = SumOf(Totals, Types)
  /\ \A r : OrdersTotal(r) = SumOf(units, made[r]) /\ LinesTotal(r) = SumOf(lines[r], Types)
BY Zenon DEF Total, CartTotal, OrdersTotal, LinesTotal, SumOf

\* The same of the next state.
LEMMA NextSumsOfCart ==
  ( /\ \A t : Total(t) = SumOf(qty, InCart(t))
    /\ CartTotal = SumOf(Totals, Types)
    /\ \A r : OrdersTotal(r) = SumOf(units, made[r]) /\ LinesTotal(r) = SumOf(lines[r], Types) )'
BY SumsOfCart, PTL

\* The total is that of the rows: while they stay, it stays.
LEMMA CartTotalKept ==
  ASSUME qty' = qty
  PROVE  CartTotal' = CartTotal /\ CartIsEmpty' = CartIsEmpty
<1>1. \A t : InCart(t)' = InCart(t)
  BY DEF InCart
<1>2. \A t : Total(t)' = Total(t)
  BY <1>1, SumsOfCart, NextSumsOfCart
<1>3. Totals' = Totals
  BY <1>2 DEF Totals
<1>4. CartTotal' = CartTotal
  BY <1>3, SumsOfCart, NextSumsOfCart
<1> QED
  BY <1>4 DEF CartIsEmpty

\* A step that neither quotes nor orders, and leaves the cart alone.
Indifferent(r) ==
    /\ UNCHANGED <<qty, due, units, made, lines, edited>>
    /\ pc' = [pc EXCEPT ![r] = pc'[r]]
    /\ Kind[r] = "instant" =>
         \/ pc'[r] \notin QuotedStages \cup MakeStages \cup MadeStages
         \/ pc[r] \in QuotedStages /\ pc'[r] \in QuotedStages
         \/ pc[r] \in MakeStages /\ pc'[r] \in MakeStages
         \/ pc[r] \in MadeStages /\ pc'[r] \in MadeStages

\* A request that adds, changes or removes a row marks who has quoted.
RowWritten(r) ==
    /\ Kind[r] # "instant"
    /\ UNCHANGED <<due, units, made, lines>>
    /\ pc' = [pc EXCEPT ![r] = pc'[r]]
    /\ CartIsEmpty' \/ edited' = edited \cup Quoted

\* The steps that matter to what is due.
LEMMA DueSteps ==
  ASSUME CheckTypeOK, KindInv, [CheckNext]_checkVars
  PROVE  \/ PayEvents /\ UNCHANGED newVars
         \/ \E r \in Requests :
              \/ Quote(r)
              \/ (BeginCheckout(r) \/ OrderCart(r) \/ SaveOrder(r)) /\ due' = due
              \/ (\E after \in {"txnSave", "ok"} : ClearCart(r, after)) /\ due' = due
              \/ Indifferent(r) \/ RowWritten(r)
         \/ UNCHANGED checkVars
<1> USE DEF CheckTypeOK, DataTypeOK, KindInv, Indifferent, QuotedStages, MakeStages,
            MadeStages, SettleStages, TicketStages, Final
<1>1. ASSUME NEW r \in Requests, CartBegin(r) \/ CartStep(r), due' = due,
             edited' = IF qty' = qty \/ CartIsEmpty' THEN edited ELSE edited \cup Quoted
      PROVE  \/ (BeginCheckout(r) \/ SaveOrder(r)) /\ due' = due
             \/ (\E after \in {"txnSave", "ok"} : ClearCart(r, after)) /\ due' = due
             \/ Indifferent(r) \/ RowWritten(r)
  <2>1. CASE AddRead(r) \/ UpdateRead(r)
    BY <1>1, <2>1 DEF AddRead, UpdateRead
  <2>6. CASE InsertRow(r) \/ SaveRow(r) \/ DeleteRow(r)
    <3>1. /\ Kind[r] # "instant" /\ UNCHANGED <<units, made, lines>>
          /\ pc' = [pc EXCEPT ![r] = pc'[r]]
      BY <2>6 DEF InsertRow, SaveRow, DeleteRow
    <3> QED
      BY <1>1, <3>1 DEF RowWritten
  <2>2. CASE BeginCheckout(r) \/ SaveOrder(r)
    BY <1>1, <2>2
  <2>3. CASE ClearCart(r, IF Kind[r] = "instant" THEN "txnSave" ELSE "ok")
    BY <1>1, <2>3
  <2>4. CASE ReadOrderNumber(r)
    BY <1>1, <2>4 DEF ReadOrderNumber
  <2>5. CASE OrderClash(r)
    BY <1>1, <2>5 DEF OrderClash
  <2> QED
    BY <1>1, <2>1, <2>2, <2>3, <2>4, <2>5, <2>6 DEF CartBegin, CartStep
<1>2. ASSUME NEW r \in Requests, BeginInstant(r) PROVE Indifferent(r)
  BY <1>2 DEF BeginInstant
<1>3. ASSUME NEW r \in Requests, InstantCharge(r) PROVE Indifferent(r)
  BY <1>3 DEF InstantCharge
<1>4. ASSUME NEW r \in Requests, SaveInstantTxn(r) PROVE Indifferent(r)
  BY <1>4 DEF SaveInstantTxn
<1>5. ASSUME NEW r \in Requests, InstantTxnClash(r) PROVE Indifferent(r)
  BY <1>5 DEF InstantTxnClash
<1>6. ASSUME NEW r \in Requests, PayNextOrder(r) PROVE Indifferent(r)
  BY <1>6 DEF PayNextOrder
<1>7. ASSUME NEW r \in Requests, InstantTickets(r) PROVE Indifferent(r)
  BY <1>7 DEF InstantTickets, ReadTicketNumber, SaveTicket, TicketClash
<1>8. ASSUME NEW r \in Requests, RefundOrder(r) \/ CancelTickets(r) PROVE Indifferent(r)
  BY <1>8 DEF RefundOrder, CancelTickets
<1>9. ASSUME NEW r \in Requests, CheckoutCallFails(r) PROVE Indifferent(r)
  BY <1>9 DEF CheckoutCallFails
<1>10. ASSUME NEW r \in Requests, OrderCart(r) PROVE due' = due
  BY <1>10 DEF OrderCart
<1> QED
  BY <1>1, <1>2, <1>3, <1>4, <1>5, <1>6, <1>7, <1>8, <1>9, <1>10
     DEF CheckNext, OrderSide, CartSide, InstantStep, CheckQuiet

\* Another request's step leaves what q is due, unless it writes the cart.
LEMMA DueStays ==
  ASSUME CheckTypeOK, NEW q \in Requests, IsFiniteSet(made[q]), Due(q), qty' = qty, due' = due,
         made'[q] = made[q], lines'[q] = lines[q], \A o \in made[q] : units'[o] = units[o],
         \/ pc'[q] \notin QuotedStages \cup MakeStages \cup MadeStages
         \/ pc[q] \in QuotedStages /\ pc'[q] \in QuotedStages
         \/ pc[q] \in MakeStages /\ pc'[q] \in MakeStages
         \/ pc[q] \in MadeStages /\ pc'[q] \in MadeStages
  PROVE  Due(q)'
<1>1. \A o \in made[q] : units'[o] = units[o] /\ units'[o] \in Nat
  BY DEF CheckTypeOK, DataTypeOK
<1>3. SumOf(units', made[q]) = SumOf(units, made[q])
  BY <1>1, SumCongruence
<1>4. OrdersTotal(q)' = OrdersTotal(q) /\ LinesTotal(q)' = LinesTotal(q)
  BY <1>3, SumsOfCart, NextSumsOfCart
<1>5. QuotedStages \cap MakeStages = {} /\ QuotedStages \cap MadeStages = {}
      /\ MakeStages \cap MadeStages = {}
  BY DEF QuotedStages, MakeStages, MadeStages, SettleStages, TicketStages
<1> QED
  BY <1>4, <1>5, CartTotalKept DEF Due

\* The quote is what the cart comes to; reading the cart takes it over.
LEMMA DueOfQuote ==
  ASSUME CheckTypeOK, NEW q \in Requests, Due(q), Quote(q)
  PROVE  Due(q)'
<1>1. /\ due'[q] = CartTotal /\ qty' = qty /\ made' = made
      /\ pc'[q] \in {"error", "instantCharge"}
  BY DEF Quote, CheckTypeOK, DataTypeOK
<1> QED
  BY <1>1, CartTotalKept DEF Due, QuotedStages, MakeStages, MadeStages, SettleStages, TicketStages

\* createOrderFromCart reads what was charged, or nothing.
LEMMA DueOfRead ==
  ASSUME CheckTypeOK, InstantInv, NEW q \in Requests, Kind[q] = "instant", Due(q), OrderCart(q),
         due' = due
  PROVE  Due(q)'
<1>1. /\ pc[q] = "orderCart" /\ lines'[q] = Totals /\ made' = made
      /\ pc'[q] = IF CartIsEmpty THEN "error" ELSE "orderNumber"
  BY DEF OrderCart, ReadCart, CheckTypeOK, DataTypeOK
<1>2. made[q] = {}
  BY <1>1 DEF InstantInv, Instant, QuoteStages
<1>3. OrdersTotal(q)' = 0
  BY <1>1, <1>2, SumEmpty, NextSumsOfCart
<1>4. LinesTotal(q)' = CartTotal /\ CartTotal \in Nat
  BY <1>1, SumsOfCart, NextSumsOfCart, DueType DEF CheckTypeOK
<1>5. ~CartIsEmpty => due[q] = CartTotal
  BY <1>1 DEF Due, QuotedStages
<1> QED
  BY <1>1, <1>3, <1>4, <1>5 DEF Due, QuotedStages, MakeStages, MadeStages, SettleStages,
     TicketStages

\* An order takes over what its type had left.
LEMMA DueOfOrder ==
  ASSUME CheckTypeOK, OrderInv, NEW q \in Requests, IsFiniteSet(made[q]), Due(q),
         SaveOrder(q), due' = due
  PROVE  Due(q)'
<1>1. PICK o \in Orders, t \in Types :
        /\ orderStatus[o] = "none" /\ lines[q][t] > 0
        /\ units' = [units EXCEPT ![o] = lines[q][t]]
        /\ lines' = [lines EXCEPT ![q][t] = 0]
        /\ made' = [made EXCEPT ![q] = @ \cup {o}]
        /\ pc' = [pc EXCEPT ![q] = IF \A u \in Types \ {t} : lines[q][u] = 0
                                   THEN "clearCart" ELSE "orderNumber"]
  BY DEF SaveOrder, OrderUnits
<1>2. /\ pc[q] \in MakeStages
      /\ pc'[q] = IF \A u \in Types \ {t} : lines[q][u] = 0 THEN "clearCart" ELSE "orderNumber"
  BY <1>1 DEF SaveOrder, MakeStages, CheckTypeOK, DataTypeOK
<1>3. o \notin made[q] /\ made'[q] = made[q] \cup {o} /\ made[q] \subseteq Orders
  BY <1>1 DEF OrderInv, CheckTypeOK
<1>4. /\ units'[o] = lines[q][t] /\ lines[q][t] \in Nat
      /\ \A x \in made[q] : units'[x] = units[x] /\ units'[x] \in Nat
  BY <1>1, <1>3 DEF CheckTypeOK, DataTypeOK
<1>5. IsFiniteSet(made[q]) /\ IsFiniteSet(made'[q])
  BY <1>3, FS_AddElement
<1>6. OrdersTotal(q)' = OrdersTotal(q) + lines[q][t] /\ OrdersTotal(q) \in Nat
  <2>1. SumOf(units', made[q] \cup {o}) = SumOf(units', made[q]) + units'[o]
    BY <1>3, <1>4, <1>5, SumAdd
  <2>2. SumOf(units', made[q]) = SumOf(units, made[q])
    BY <1>4, <1>5, SumCongruence
  <2>3. SumOf(units, made[q]) \in Nat
    BY <1>4, <1>5, SumType
  <2> QED
    BY <1>3, <1>4, <2>1, <2>2, <2>3, SumsOfCart, NextSumsOfCart
<1>7. /\ lines'[q][t] = 0 /\ \A u \in Types : lines[q][u] \in Nat /\ lines'[q][u] \in Nat
      /\ \A u \in Types \ {t} : lines[q][u] = lines'[q][u]
  BY <1>1 DEF CheckTypeOK
<1>8. LinesTotal(q)' = LinesTotal(q) - lines[q][t] /\ LinesTotal(q) \in Nat
      /\ LinesTotal(q)' \in Nat
  <2>1. SumOf(lines[q], Types) - lines[q][t] = SumOf(lines'[q], Types) - lines'[q][t]
    BY <1>7, RowsAssumption, SumChange
  <2>2. SumOf(lines[q], Types) \in Nat /\ SumOf(lines'[q], Types) \in Nat
    BY <1>7, RowsAssumption, SumType
  <2> QED
    BY <1>7, <2>1, <2>2, SumsOfCart, NextSumsOfCart
<1>9. ASSUME \A u \in Types \ {t} : lines[q][u] = 0 PROVE LinesTotal(q)' = 0
  <2>1. \A u \in Types : lines'[q][u] = 0
    BY <1>7, <1>9
  <2>2. SumOf(lines'[q], Types) = 0
    BY <1>7, <2>1, RowsAssumption, SumIsZero
  <2> QED
    BY <2>2, NextSumsOfCart
<1>10. due[q] = OrdersTotal(q) + LinesTotal(q)
  BY <1>2 DEF Due
<1>11. due'[q] = OrdersTotal(q)' + LinesTotal(q)'
  BY <1>4, <1>6, <1>8, <1>10
<1>12. ASSUME pc'[q] = "clearCart" PROVE due'[q] = OrdersTotal(q)'
  <2>1. LinesTotal(q)' = 0
    BY <1>2, <1>9, <1>12
  <2> QED
    BY <1>4, <1>6, <1>11, <2>1
<1> QED
  BY <1>2, <1>5, <1>11, <1>12 DEF Due, QuotedStages, MakeStages, MadeStages, SettleStages,
     TicketStages

\* A checkout, or the instant payment itself, deletes the cart as a whole.
LEMMA DueOfClear ==
  ASSUME CheckTypeOK, KindInv, NEW q \in Requests, Kind[q] = "instant", Due(q), NEW r \in Requests,
         NEW after \in {"txnSave", "ok"}, ClearCart(r, after), due' = due
  PROVE  Due(q)'
<1>1. /\ CartIsEmpty' /\ pc[r] = "clearCart"
      /\ UNCHANGED <<made, units, lines>> /\ pc' = [pc EXCEPT ![r] = after]
  BY DEF ClearCart, CartIsEmpty
<1>2. OrdersTotal(q)' = OrdersTotal(q) /\ LinesTotal(q)' = LinesTotal(q)
  BY <1>1, SumsOfCart, NextSumsOfCart
<1>3. pc'[q] = pc[q] \/ (pc[q] = "clearCart" /\ pc'[q] \in {"txnSave", "ok"})
  BY <1>1 DEF CheckTypeOK, DataTypeOK
<1> QED
  BY <1>1, <1>2, <1>3 DEF Due, QuotedStages, MakeStages, MadeStages, SettleStages, TicketStages

\* What was edited stays so, and the orders of a request stay finitely many.
LEMMA EditedKept ==
  ASSUME CheckTypeOK, [CheckNext]_checkVars, NEW q \in Requests, IsFiniteSet(made[q])
  PROVE  edited \subseteq edited' /\ IsFiniteSet(made'[q])
<1>1. edited \subseteq edited'
  <2>1. ASSUME NEW r \in Requests, BeginInstant(r) \/ InstantStep(r) \/ CheckoutCallFails(r)
        PROVE edited' = edited
    BY <2>1 DEF BeginInstant, InstantStep, Quote, InstantCharge, OrderCart, SaveInstantTxn,
       InstantTxnClash, PayNextOrder, InstantTickets, RefundOrder, CancelTickets,
       CheckoutCallFails
  <2> QED
    BY <2>1 DEF CheckNext, OrderSide, CartSide, CheckQuiet, checkVars
<1>2. IsFiniteSet(made'[q])
  <2> USE DEF CheckTypeOK
  <2>1. ASSUME NEW r \in Requests, SaveOrder(r) PROVE IsFiniteSet(made'[q])
    <3>1. PICK o \in Orders : made' = [made EXCEPT ![r] = @ \cup {o}]
      BY <2>1 DEF SaveOrder
    <3>2. made'[q] = made[q] \/ made'[q] = made[q] \cup {o}
      BY <3>1
    <3>3. IsFiniteSet(made[q] \cup {o})
      BY FS_AddElement
    <3> QED
      BY <3>2, <3>3, Zenon
  <2>2. ASSUME NEW r \in Requests, Moves(r) PROVE made' = made
    BY <2>2 DEF Moves
  <2>3. ASSUME NEW r \in Requests,
               \/ BeginCheckout(r) \/ OrderCart(r) \/ InstantCharge(r)
               \/ SaveInstantTxn(r) \/ PayNextOrder(r)
               \/ InstantTicket(r) \/ RefundOrder(r) \/ CancelTickets(r)
        PROVE made' = made
    BY <2>3 DEF BeginCheckout, OrderCart, ReadCart, InstantCharge, SaveInstantTxn,
       PayNextOrder, InstantTicket, RefundOrder, CancelTickets
  <2> QED
    BY <2>1, <2>2, <2>3, CheckSteps DEF checkVars
<1> QED
  BY <1>1, <1>2

\* Every step keeps what an instant payment is due.
LEMMA DueKept ==
  ASSUME CheckInv, [CheckNext]_checkVars, NEW q \in Requests, Kind[q] = "instant",
         IsFiniteSet(made[q]), Due(q)
  PROVE  q \in edited' \/ Due(q)'
<1>0. CheckTypeOK /\ KindInv /\ InstantInv /\ OrderInv /\ FrameInv /\ StageInv
  BY DEF CheckInv
<1>1. CASE PayEvents /\ UNCHANGED newVars
  <2>1. Booked /\ FramesKept
    BY <1>0, <1>1, PayBooks, PayFrames
  <2>2. units' = units /\ pc'[q] \in {pc[q], "crashed"}
    BY <2>1 DEF Booked, FramesKept
  <2> QED
    BY <1>0, <1>1, <2>2, DueStays DEF QuotedStages, MakeStages, MadeStages, SettleStages,
       TicketStages
<1>2. ASSUME NEW r \in Requests, Quote(r) PROVE Due(q)'
  <2>1. CASE r # q
    <3>1. /\ UNCHANGED <<qty, made, lines, units>>
          /\ pc'[q] = pc[q] /\ due'[q] = due[q]
      BY <1>0, <1>2, <2>1 DEF Quote, CheckTypeOK, DataTypeOK
    <3> QED
      BY <3>1, CartTotalKept, SumsOfCart, NextSumsOfCart DEF Due
  <2> QED
    BY <1>0, <1>2, <2>1, DueOfQuote
<1>3. ASSUME NEW r \in Requests, BeginCheckout(r) \/ OrderCart(r) \/ SaveOrder(r), due' = due
      PROVE Due(q)'
  <2>1. CASE r # q
    <3>1. qty' = qty /\ made'[q] = made[q] /\ lines'[q] = lines[q] /\ pc'[q] = pc[q]
      BY <1>0, <1>3, <2>1 DEF BeginCheckout, OrderCart, ReadCart, SaveOrder, CheckTypeOK,
         DataTypeOK
    <3>2. \A o \in made[q] : units'[o] = units[o]
      BY <1>0, <1>3 DEF BeginCheckout, OrderCart, ReadCart, SaveOrder, CheckTypeOK,
         DataTypeOK, OrderInv
    <3> QED
      BY <1>0, <1>3, <3>1, <3>2, DueStays DEF MadeStages
  <2>2. CASE r = q
    BY <1>0, <1>3, <2>2, DueOfRead, DueOfOrder DEF BeginCheckout
  <2> QED
    BY <2>1, <2>2
<1>4. ASSUME NEW r \in Requests, NEW after \in {"txnSave", "ok"}, ClearCart(r, after), due' = due
      PROVE Due(q)'
  BY <1>0, <1>4, DueOfClear
<1>5. ASSUME NEW r \in Requests, Indifferent(r) PROVE Due(q)'
  <2>1. r # q => pc'[q] = pc[q]
    BY <1>0, <1>5 DEF Indifferent, CheckTypeOK, DataTypeOK
  <2> QED
    BY <1>0, <1>5, <2>1, DueStays DEF Indifferent
<1>6. CASE UNCHANGED checkVars
  BY <1>0, <1>6, DueStays DEF checkVars
<1>7. ASSUME NEW r \in Requests, RowWritten(r) PROVE q \in edited' \/ Due(q)'
  <2>1. /\ UNCHANGED <<due, units, made, lines>>
        /\ pc'[q] = pc[q]
    BY <1>0, <1>7 DEF RowWritten, CheckTypeOK, DataTypeOK
  <2>2. OrdersTotal(q)' = OrdersTotal(q) /\ LinesTotal(q)' = LinesTotal(q)
    BY <2>1, SumsOfCart, NextSumsOfCart
  <2>3. CASE CartIsEmpty' \/ pc[q] \notin QuotedStages
    BY <2>1, <2>2, <2>3 DEF Due
  <2>4. CASE edited' = edited \cup Quoted /\ pc[q] \in QuotedStages
    BY <2>4 DEF Quoted
  <2> QED
    BY <1>7, <2>3, <2>4 DEF RowWritten
<1> QED
  BY <1>0, <1>1, <1>2, <1>3, <1>4, <1>5, <1>6, <1>7, DueSteps

\* An instant payment answered normally was charged the total of the orders it
\* made unless a row was written between the quote and the orders, whatever
\* checkouts and other instant payments read and delete the cart.
THEOREM ChargeIsCovered == CheckSpec => []ChargeCoversOrders
<1>1. CheckInit => DueInv
  BY FS_EmptySet DEF DueInv, CheckInit, PayInit, StoreInit, CartInit, Due, QuotedStages, MakeStages,
     MadeStages, SettleStages, TicketStages
<1>2. CheckInv /\ DueInv /\ [CheckNext]_checkVars => DueInv'
  <2> SUFFICES ASSUME CheckInv, DueInv, [CheckNext]_checkVars,
                      NEW q \in Requests, Kind[q] = "instant"
               PROVE  IsFiniteSet(made'[q]) /\ (q \in edited' \/ Due(q)')
    BY DEF DueInv
  <2>1. IsFiniteSet(made[q]) /\ (q \in edited \/ Due(q))
    BY DEF DueInv
  <2>2. edited \subseteq edited' /\ IsFiniteSet(made'[q])
    BY <2>1, EditedKept DEF CheckInv
  <2> QED
    BY <2>1, <2>2, DueKept
<1>3. DueInv => ChargeCoversOrders
  BY DEF ChargeCoversOrders, DueInv, Due, MadeStages
<1> QED
  BY <1>1, <1>2, <1>3, CheckInvariance, PTL DEF CheckSpec
=============================================================================
