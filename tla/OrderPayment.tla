---------------------------- MODULE OrderPayment ----------------------------
(***************************************************************************)
(* Paying a placed order (POST /payments/process), confirming and           *)
(* cancelling orders, refunding a transaction and the refund webhook: the   *)
(* handlers of PaymentsService and OrdersService, one action per database   *)
(* or provider call, for any number of concurrent requests.                 *)
(***************************************************************************)
EXTENDS Store

CONSTANT StrictPopulate
    \* Mongoose's strictPopulate option.  TRUE is its default, and the
    \* repository does not change it: populating a path that the schema does
    \* not have is an error.

ASSUME StrictAssumption == StrictPopulate \in BOOLEAN

VARIABLE overdue  \* overdue[o]: has Order.expiresAt passed?

payVars == <<storeVars, overdue>>

\* expiresAt, fifteen minutes after the order was placed, passes.
TimePasses(o) ==
    /\ orderStatus[o] # "none"
    /\ ~overdue[o]
    /\ overdue' = [overdue EXCEPT ![o] = TRUE]
    /\ UNCHANGED storeVars

(***************************************************************************)
(* PaymentsService.processPayment                                           *)
(***************************************************************************)
\* Mutants: checks that list what is refused instead of what is accepted.
PayableUnlessPaid(o) == orderStatus[o] \notin {"paid", "confirmed"}
PayableUnlessClosed(o) == orderStatus[o] \notin {"cancelled", "expired", "refunded"}

Payable(o) == orderStatus[o] = "pending_payment"

\* The order is read and checked; amountMatches is amount = order.total, and
\* what is overdue is expired before the request is refused.
PayRead(r) ==
    /\ Kind[r] = "pay" /\ pc[r] = "idle"
    /\ \E o \in Orders, amountMatches \in BOOLEAN :
        /\ orderStatus[o] # "none"
        /\ ord' = [ord EXCEPT ![r] = o]
        /\ Goto(r, IF ~Payable(o) \/ ~amountMatches THEN "error"
                   ELSE IF overdue[o] THEN "expireRead" ELSE "txnNumber")
    /\ UNCHANGED <<orderVars, txnVars, ticketVars, moneyVars, overdue,
                   tgt, num, left, todo>>

\* generateTransactionId: one more than the transaction created last today.
ReadTxnNumber(r) ==
    /\ pc[r] = "txnNumber"
    /\ num' = [num EXCEPT ![r] = lastTxn + 1]
    /\ Goto(r, "txnInsert")
    /\ UNCHANGED <<orderVars, txnVars, ticketVars, moneyVars, overdue,
                   ord, tgt, left, todo>>

\* Mutant: the document is built, and saved with the outcome only.
BuildTxn(r) == UNCHANGED <<txnStatus, lastTxn>>

\* The transaction is stored, without orderIds: the field the handler sets,
\* orderId, is not in the schema and Mongoose drops it.
StoreTxn(r) ==
    /\ lastTxn' = num[r]
    /\ txnStatus' = [txnStatus EXCEPT ![r] = "processing"]

InsertTxn(r) ==
    /\ pc[r] = "txnInsert"
    /\ num[r] > lastTxn
    /\ StoreTxn(r)
    /\ Goto(r, "charge")
    /\ UNCHANGED <<orderVars, txnCharge, txnOrders, ticketVars, moneyVars,
                   overdue, localVars>>

\* transactionId is unique: another request stored this number first.
TxnClash(r) ==
    /\ pc[r] = "txnInsert"
    /\ num[r] <= lastTxn
    /\ Answer(r, "error")
    /\ UNCHANGED <<orderVars, txnVars, ticketVars, moneyVars, overdue>>

\* Mutant: what is not reported as an error counts as a success.
ReportedAnyway(taken, approved) == TRUE

\* CulqiProvider.processPayment catches every error of the call: what it
\* reports as approved was taken; a failure is a declined charge, or one
\* whose answer was lost.
Reported(taken, approved) == approved => taken

Charge(r) ==
    /\ pc[r] = "charge"
    /\ \E taken, approved \in BOOLEAN :
        /\ Reported(taken, approved)
        /\ captured' = [captured EXCEPT ![r] = taken]
        /\ Answer(r, IF approved THEN "settleApproved" ELSE "settleDeclined")
    /\ UNCHANGED <<orderVars, txnVars, ticketVars, refunds, overdue>>

\* Mutants: the status of an order; an approval left to the webhook; a
\* declined charge left unsettled.
PaidStatus(success) == IF success THEN "paid" ELSE "failed"
WebhookStatus(success) == IF success THEN "processing" ELSE "failed"
OpenStatus(success) == IF success THEN "completed" ELSE "processing"

SettledStatus(success) == IF success THEN "completed" ELSE "failed"

\* The outcome is saved; only an approved charge has a provider id.
SettleApproved(r) ==
    /\ pc[r] = "settleApproved"
    /\ txnStatus' = [txnStatus EXCEPT ![r] = SettledStatus(TRUE)]
    /\ txnCharge' = [txnCharge EXCEPT ![r] = TRUE]
    /\ Answer(r, "markPaid")
    /\ UNCHANGED <<orderVars, txnOrders, lastTxn, ticketVars, moneyVars, overdue>>

\* The save() of the outcome is rejected.  Mongoose keeps what was modified, so
\* the catch block's save() stores the provider id as well.
SettleFails(r) ==
    /\ pc[r] \in {"settleApproved", "settleDeclined"}
    /\ txnStatus' = [txnStatus EXCEPT ![r] = "failed"]
    /\ txnCharge' = [txnCharge EXCEPT ![r] = pc[r] = "settleApproved"]
    /\ Answer(r, "error")
    /\ UNCHANGED <<orderVars, txnOrders, lastTxn, ticketVars, moneyVars, overdue>>

\* The handler returns the failed transaction to the caller.
SettleDeclined(r) ==
    /\ pc[r] = "settleDeclined"
    /\ txnStatus' = [txnStatus EXCEPT ![r] = SettledStatus(FALSE)]
    /\ Answer(r, "declined")
    /\ UNCHANGED <<orderVars, txnCharge, txnOrders, lastTxn, ticketVars,
                   moneyVars, overdue>>

\* updateOrderStatus(PAID), then generateTicketsForOrder reads the items.
MarkPaid(r) ==
    /\ pc[r] = "markPaid"
    /\ WriteStatus(ord[r], "paid")
    /\ left' = [left EXCEPT ![r] = units[ord[r]]]
    /\ Goto(r, "ticketNumber")
    /\ UNCHANGED <<units, txnVars, ticketVars, moneyVars, overdue,
                   ord, tgt, num, todo>>

\* Mutant: the failure is set on the document and not saved.
FailedUnsaved(r) == UNCHANGED txnStatus

\* The catch block: whatever happened, the transaction is saved as failed.
MarkFailed(r) == txnStatus' = [txnStatus EXCEPT ![r] = "failed"]

RecordFailure(r) ==
    /\ pc[r] = "recordFailure"
    /\ MarkFailed(r)
    /\ Answer(r, "error")
    /\ UNCHANGED <<orderVars, txnCharge, txnOrders, lastTxn, ticketVars,
                   moneyVars, overdue>>

IssueTickets(r) ==
    /\ Kind[r] = "pay"
    /\ \/ ReadTicketNumber(r)
       \/ SaveTicket(r, "ok")
       \/ TicketClash(r, "recordFailure")
    /\ UNCHANGED overdue

(***************************************************************************)
(* OrdersService.expireOrder, confirmOrder and cancelOrder: the document is *)
(* read and checked, and saved one await later.                             *)
(***************************************************************************)
ExpireRead(r) ==
    /\ pc[r] = "expireRead"
    /\ Answer(r, IF Payable(ord[r]) THEN "expireSave" ELSE "error")
    /\ UNCHANGED <<orderVars, txnVars, ticketVars, moneyVars, overdue>>

\* processPayment answers "Order has expired".
ExpireSave(r) ==
    /\ pc[r] = "expireSave"
    /\ WriteStatus(ord[r], "expired")
    /\ Answer(r, "error")
    /\ UNCHANGED <<units, txnVars, ticketVars, moneyVars, overdue>>

\* Mutant: the status an order has before it is paid is accepted too.
ConfirmableEarly(status) == status \in {"pending_payment", "paid"}

Confirmable(status) == status = "paid"

ConfirmRead(r) ==
    /\ Kind[r] = "confirm" /\ pc[r] = "idle"
    /\ \E o \in Orders :
        /\ orderStatus[o] # "none"
        /\ ord' = [ord EXCEPT ![r] = o]
        /\ Goto(r, IF Confirmable(orderStatus[o]) THEN "confirmSave" ELSE "error")
    /\ UNCHANGED <<orderVars, txnVars, ticketVars, moneyVars, overdue,
                   tgt, num, left, todo>>

ConfirmSave(r) ==
    /\ pc[r] = "confirmSave"
    /\ WriteStatus(ord[r], "confirmed")
    /\ Answer(r, "ok")
    /\ UNCHANGED <<units, txnVars, ticketVars, moneyVars, overdue>>

Cancellable(status) == status \notin {"confirmed", "refunded"}

\* Assigning the status a document already has modifies nothing: save()
\* writes nothing then.
CancelRead(r) ==
    /\ Kind[r] = "cancel" /\ pc[r] = "idle"
    /\ \E o \in Orders :
        /\ orderStatus[o] # "none"
        /\ ord' = [ord EXCEPT ![r] = o]
        /\ Goto(r, IF ~Cancellable(orderStatus[o]) THEN "error"
                   ELSE IF orderStatus[o] = "cancelled" THEN "ok"
                   ELSE "cancelSave")
    /\ UNCHANGED <<orderVars, txnVars, ticketVars, moneyVars, overdue,
                   tgt, num, left, todo>>

CancelSave(r) ==
    /\ pc[r] = "cancelSave"
    /\ WriteStatus(ord[r], "cancelled")
    /\ Answer(r, "ok")
    /\ UNCHANGED <<units, txnVars, ticketVars, moneyVars, overdue>>

(***************************************************************************)
(* PaymentsService.refundPayment                                            *)
(***************************************************************************)
\* The amount may exceed the charge by one part, to meet the check on it.
Refundable(t, amount) == txnStatus[t] = "completed" /\ amount <= Full /\ txnCharge[t]

\* findOne().populate('orderId'): the schema has orderIds, not orderId.
RefundRead(r) ==
    /\ Kind[r] = "refund" /\ pc[r] = "idle"
    /\ \E t \in Requests, amount \in 1 .. Full + 1 :
        /\ txnStatus[t] # "none"
        /\ tgt' = [tgt EXCEPT ![r] = t]
        /\ left' = [left EXCEPT ![r] = amount]
        /\ Goto(r, IF ~StrictPopulate /\ Refundable(t, amount)
                   THEN "refundCall" ELSE "error")
    /\ UNCHANGED <<orderVars, txnVars, ticketVars, moneyVars, overdue,
                   ord, num, todo>>

\* Mutant: the result's success is not looked at.
AfterAnyRefund(success) == "refundSave"

\* The provider gives back no more than it took; CulqiProvider.refundPayment
\* turns every error into an unsuccessful result, a lost answer included, and
\* the handler then returns the transaction unchanged.
AfterRefund(success) == IF success THEN "refundSave" ELSE "declined"

RefundCall(r) ==
    /\ pc[r] = "refundCall"
    /\ \E given, success \in BOOLEAN :
        /\ Reported(given, success)
        /\ given => refunds[tgt[r]] + left[r] <= Full
        /\ refunds' = [refunds EXCEPT ![tgt[r]] = IF given THEN @ + left[r] ELSE @]
        /\ Answer(r, AfterRefund(success))
    /\ UNCHANGED <<orderVars, txnVars, ticketVars, captured, overdue>>

RefundStatus(amount) == IF amount = Full THEN "refunded" ELSE "partial_refund"

\* The transaction is saved; the loop over its orders is still to come.
RefundSave(r) ==
    /\ pc[r] = "refundSave"
    /\ txnStatus' = [txnStatus EXCEPT ![tgt[r]] = RefundStatus(left[r])]
    /\ todo' = [todo EXCEPT ![r] = txnOrders[tgt[r]]]
    /\ Goto(r, IF txnOrders[tgt[r]] = {} THEN "ok" ELSE "refundOrder")
    /\ UNCHANGED <<orderVars, txnCharge, txnOrders, lastTxn, ticketVars,
                   moneyVars, overdue, ord, tgt, num, left>>

(***************************************************************************)
(* A refund made from the provider's panel, and a refund event that is      *)
(* posted to the webhook: handleWebhook / handleSuccessfulRefund.  An event *)
(* names the charge it is about; nothing more is asked of it, so an event   *)
(* need not tell of a refund that was made.                                 *)
(***************************************************************************)
ProviderRefund(t) ==
    /\ captured[t] /\ refunds[t] < Full
    /\ refunds' = [refunds EXCEPT ![t] = @ + 1]
    /\ UNCHANGED <<orderVars, txnVars, ticketVars, captured, overdue, frameVars>>

HookRead(r) ==
    /\ Kind[r] = "refundHook" /\ pc[r] = "idle"
    /\ \E t \in Requests :
        /\ tgt' = [tgt EXCEPT ![r] = t]
        /\ Goto(r, IF txnCharge[t] THEN "hookSave" ELSE "ok")
    /\ UNCHANGED <<orderVars, txnVars, ticketVars, moneyVars, overdue,
                   ord, num, left, todo>>

\* No check of the status the transaction has.
HookSave(r) ==
    /\ pc[r] = "hookSave"
    /\ txnStatus' = [txnStatus EXCEPT ![tgt[r]] = "refunded"]
    /\ Answer(r, "ok")
    /\ UNCHANGED <<orderVars, txnCharge, txnOrders, lastTxn, ticketVars,
                   moneyVars, overdue>>

(***************************************************************************)
(* A database call is rejected.  The handlers have no catch block, but for  *)
(* the one of processPayment after the charge, whose own save() may be      *)
(* rejected as well: on its own, or after the save() of the outcome was.    *)
(***************************************************************************)
CallFails(r) ==
    /\ \/ pc[r] \in {"txnNumber", "txnInsert", "expireRead", "expireSave",
                     "confirmSave", "cancelSave", "refundSave", "hookSave"}
          /\ Answer(r, "error")
       \/ pc[r] \in {"markPaid", "ticketNumber", "ticketSave"}
          /\ Kind[r] = "pay"
          /\ Answer(r, "recordFailure")
       \/ pc[r] \in {"settleApproved", "settleDeclined", "recordFailure"}
          /\ Answer(r, "unrecorded")
    /\ UNCHANGED <<orderVars, txnVars, ticketVars, moneyVars, overdue>>

\* handleSuccessfulPayment and handleFailedPayment act on a transaction that
\* is found by the provider id and still in status PROCESSING.
ChargeWebhookFinds(t) == txnCharge[t] /\ txnStatus[t] = "processing"

(***************************************************************************)
(* The specification                                                        *)
(***************************************************************************)
Begin(r) == PayRead(r) \/ ConfirmRead(r) \/ CancelRead(r) \/ RefundRead(r) \/ HookRead(r)

\* The next call of a request in flight is answered.
Step(r) ==
    \/ ReadTxnNumber(r) \/ InsertTxn(r) \/ TxnClash(r) \/ Charge(r)
    \/ SettleApproved(r) \/ SettleDeclined(r) \/ MarkPaid(r)
    \/ IssueTickets(r) \/ RecordFailure(r)
    \/ ExpireRead(r) \/ ExpireSave(r) \/ ConfirmSave(r) \/ CancelSave(r)
    \/ RefundCall(r) \/ RefundSave(r) \/ HookSave(r)

\* A call that is rejected.
Fails(r) == SettleFails(r) \/ CallFails(r)

PayInit == StoreInit /\ overdue = [o \in Orders |-> FALSE]

\* Every request has ended, or is not made.
Quiet ==
    /\ \A r \in Requests : ~InFlight(r)
    /\ UNCHANGED payVars

PayEvents ==
    \/ \E r \in Requests : Begin(r) \/ Step(r) \/ Fails(r)
    \/ \E o \in Orders : TimePasses(o)
    \/ \E t \in Requests : ProviderRefund(t)
    \/ Crash /\ UNCHANGED overdue

PayNext == PayEvents \/ Quiet

PaySpec == PayInit /\ [][PayNext]_payVars

\* A request in flight is served: the event loop, the database and the
\* provider go on.  Nobody has to make a request, nothing has to be rejected
\* and nothing has to crash.
PayFairSpec == PaySpec /\ \A r \in Requests : WF_payVars(Step(r))

(***************************************************************************)
(* Properties                                                               *)
(***************************************************************************)
Labels ==
    {"idle", "txnNumber", "txnInsert", "charge", "settleApproved",
     "settleDeclined", "markPaid", "ticketNumber", "ticketSave",
     "recordFailure", "expireRead", "expireSave", "confirmSave", "cancelSave",
     "refundCall", "refundSave", "refundOrder", "hookSave"} \cup Final

\* The types of the collections and of the requests' local state; L is what
\* the labels of the handlers are.
DataTypeOK(L) ==
    /\ orderStatus \in [Orders -> OrderStatus \cup {"none"}]
    /\ units \in [Orders -> Nat]
    /\ txnStatus \in [Requests -> PaymentStatus \cup {"none"}]
    /\ txnCharge \in [Requests -> BOOLEAN]
    /\ txnOrders \in [Requests -> SUBSET Orders]
    /\ lastTxn \in Nat
    /\ lastTicket \in Nat
    /\ issued \in [Requests -> [Orders -> Nat]]
    /\ active \in [Orders -> Nat]
    /\ captured \in [Requests -> BOOLEAN]
    /\ refunds \in [Requests -> Nat]
    /\ pc \in [Requests -> L]
    /\ ord \in [Requests -> Orders \cup {NoOrder}]
    /\ tgt \in [Requests -> Requests]
    /\ num \in [Requests -> Nat]
    /\ left \in [Requests -> Nat]
    /\ todo \in [Requests -> SUBSET Orders]
    /\ overdue \in [Orders -> BOOLEAN]

\* The types, pc[r] being a label of the handlers of this module.
PayTypeOK == DataTypeOK(Labels)

\* An order is PAID or CONFIRMED only if the provider took the money of a
\* payment for that order, although both statuses are written from what a
\* request read some calls ago.
PaidMeansCaptured ==
    \A o \in Orders : orderStatus[o] \in {"paid", "confirmed"} =>
        \E r \in Requests : captured[r] /\ ord[r] = o

\* processPayment stores the transaction before it charges: no crash and no
\* lost answer leaves money taken without a transaction that tells of it.
ChargesAreRecorded == \A r \in Requests : captured[r] => txnStatus[r] # "none"

\* processPayment that answers normally with an approved charge has given
\* out every ticket of the order, and no other one, and its transaction is
\* not left unsettled or failed.
OkMeansDelivered ==
    \A r \in Requests : Kind[r] = "pay" /\ pc[r] = "ok" =>
        /\ \A o \in Orders : issued[r][o] = IF o = ord[r] THEN units[o] ELSE 0
        /\ txnStatus[r] \notin {"none", "processing", "failed"}

\* A COMPLETED transaction of processPayment means the order's tickets are
\* out, once the request is over: the catch block takes the status back
\* however far the request came.  Only a crash, or a rejected save in the
\* catch block itself, leaves it COMPLETED without them.
CompletedIsDelivered ==
    \A r \in Requests : Kind[r] = "pay" /\ txnStatus[r] = "completed" =>
        \/ InFlight(r) \/ pc[r] \in {"unrecorded", "crashed"}
        \/ \A o \in Orders : issued[r][o] = IF o = ord[r] THEN units[o] ELSE 0

\* The provider's charge events never find a transaction to complete or to
\* fail: the provider id is stored together with the final status, so an
\* unsettled transaction cannot be found by it.  A transaction that a crash
\* left in PROCESSING stays there.
ChargeWebhookFindsNothing == \A t \in Requests : ~ChargeWebhookFinds(t)

\* An event for transaction t was posted to the webhook.
Announced(t) ==
    \E h \in Requests : Kind[h] = "refundHook" /\ pc[h] # "idle" /\ tgt[h] = t

\* A transaction is recorded as refunded only if its money was taken, and
\* the provider gave some back or an event said so: a lost answer, a second
\* refund or a webhook in between never makes one up.  A partial refund,
\* which no event records, was always made.
RefundIsTraced ==
    \A t \in Requests :
        /\ txnStatus[t] = "refunded" => captured[t] /\ (refunds[t] > 0 \/ Announced(t))
        /\ txnStatus[t] = "partial_refund" => captured[t] /\ refunds[t] > 0

\* Once an order has left PENDING_PAYMENT (paid, cancelled or expired), no
\* payment request made after that is charged for it.
ClosedOrderIsNotCharged ==
    \A o \in Orders, r \in Requests :
        [](orderStatus[o] # "pending_payment" /\ pc[r] = "idle"
            => [](captured[r] => ord[r] # o))

\* Once a payment was answered normally, no payment request made after that
\* is charged for the same order.
PaidOrderIsNotChargedAgain ==
    \A p, r \in Requests :
        [](Kind[p] = "pay" /\ pc[p] = "ok" /\ pc[r] = "idle"
            => [](captured[r] => ord[r] # ord[p]))

(***************************************************************************)
(* The inductive invariant behind the properties above: what is known of    *)
(* the collections at each stage of a request.                              *)
(***************************************************************************)
\* The stages that work on the order ord[r], and those that issue its tickets.
TicketStages == {"ticketNumber", "ticketSave"}
PaidStages == TicketStages \cup {"markPaid", "recordFailure"}
OrderStages == PaidStages \cup {"txnNumber", "txnInsert", "charge",
                   "settleApproved", "settleDeclined", "expireRead",
                   "expireSave", "confirmSave", "cancelSave"}
OtherStages == {"confirmSave", "cancelSave", "refundCall", "refundSave",
                "refundOrder", "hookSave"}
NoTxnStages == OtherStages \cup {"idle", "txnNumber", "txnInsert",
                                 "expireRead", "expireSave"}

FrameInv ==
    /\ \A o \in Orders : orderStatus[o] # "none" => units[o] > 0
    /\ \A r \in Requests : pc[r] \in OrderStages =>
            ord[r] \in Orders /\ orderStatus[ord[r]] # "none"
    /\ \A r \in Requests : pc[r] \in OtherStages => Kind[r] # "pay"

\* Where the transaction of request r, and its charge, stand.
StageInv ==
    \A r \in Requests :
        /\ pc[r] \in NoTxnStages => txnStatus[r] = "none" /\ ~captured[r]
        /\ pc[r] \in {"charge", "settleApproved", "settleDeclined"} =>
                txnStatus[r] = "processing" /\ ~txnCharge[r]
        /\ pc[r] = "charge" => ~captured[r]
        /\ pc[r] \in PaidStages \cup {"settleApproved"} => captured[r]
        /\ pc[r] \in PaidStages =>
                txnStatus[r] \notin {"none", "processing", "failed"}
        /\ txnCharge[r] => captured[r] /\ txnStatus[r] \notin {"none", "processing"}

\* A refund or a webhook works on a transaction whose charge is recorded.
RefundInv ==
    \A r \in Requests :
        /\ pc[r] \in {"refundCall", "refundSave", "hookSave"} => txnCharge[tgt[r]]
        /\ pc[r] = "refundCall" => left[r] > 0
        /\ pc[r] = "refundSave" => refunds[tgt[r]] > 0
        /\ pc[r] = "hookSave" => Kind[r] = "refundHook"
        /\ txnStatus[r] \in {"refunded", "partial_refund"} => txnCharge[r]
        /\ txnStatus[r] = "refunded" => refunds[r] > 0 \/ Announced(r)
        /\ txnStatus[r] = "partial_refund" => refunds[r] > 0

\* How many tickets are out, at each stage.
TicketInv ==
    \A r \in Requests :
        /\ pc[r] \in NoTxnStages \cup {"charge", "settleApproved",
                                       "settleDeclined", "markPaid"} =>
                \A o \in Orders : issued[r][o] = 0
        /\ Kind[r] = "pay" /\ pc[r] \in TicketStages =>
                /\ left[r] > 0
                /\ \A o \in Orders :
                     issued[r][o] = IF o = ord[r] THEN units[o] - left[r] ELSE 0

\* A request about to confirm read PAID, so somebody paid for the order.
ConfirmInv ==
    \A r \in Requests : pc[r] = "confirmSave" =>
        \E p \in Requests : captured[p] /\ ord[p] = ord[r]

\* An order is not pending any more when its tickets are issued.
ClosedInv ==
    \A r \in Requests :
        pc[r] \in TicketStages \/ (Kind[r] = "pay" /\ pc[r] = "ok") =>
            ord[r] \in Orders /\ orderStatus[ord[r]] # "pending_payment"

\* What is answered as an error, or declined, has no COMPLETED transaction.
ErrorInv ==
    \A r \in Requests : Kind[r] = "pay" /\ pc[r] \in {"error", "declined"} =>
        txnStatus[r] # "completed"

PayInv ==
    /\ PayTypeOK
    /\ FrameInv
    /\ StageInv
    /\ RefundInv
    /\ TicketInv
    /\ ConfirmInv
    /\ ClosedInv
    /\ PaidMeansCaptured
    /\ ChargesAreRecorded
    /\ OkMeansDelivered
    /\ ErrorInv

\* The detailed handlers implement the ledger of money and tickets.
Ledger == INSTANCE TicketLedger WITH Payments <- Requests
ImplementsLedger == Ledger!Spec

\* A stored transaction is settled, unless the process dies or the catch
\* block cannot save.
TransactionsSettle ==
    \A r \in Requests : txnStatus[r] = "processing" ~>
        (txnStatus[r] # "processing" \/ pc[r] \in {"unrecorded", "crashed"})

\* An approved charge ends in the order's tickets, or in a transaction
\* recorded as failed, unless the process dies or the catch block cannot
\* save.
ApprovalIsResolved ==
    \A r \in Requests : pc[r] = "settleApproved" ~>
        \/ ord[r] # NoOrder /\ issued[r][ord[r]] = units[ord[r]]
        \/ txnStatus[r] = "failed"
        \/ pc[r] \in {"unrecorded", "crashed"}

\* "Order is not in a payable state" refuses what is not pending: a charge is
\* made only for an order that is pending then.
ChargedOnlyWhilePayable ==
    [][\A r \in Requests : ~captured[r] /\ captured'[r] => Payable(ord[r])]_payVars

\* "Only completed payments can be refunded": a refund refused when it is
\* made is not one of a payment completed at that moment, for an amount that
\* it covers.
RefundsAreAccepted ==
    [][\A r \in Requests : Kind[r] = "refund" /\ pc[r] = "idle" /\ pc'[r] = "error"
            => ~Refundable(tgt'[r], left'[r])]_payVars

=============================================================================
