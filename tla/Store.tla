------------------------------- MODULE Store -------------------------------
(***************************************************************************)
(* The MongoDB collections the checkout writes (orders, payment            *)
(* transactions, tickets), what the payment provider did with the          *)
(* customers' money, and the local state of the HTTP requests in flight.   *)
(*                                                                         *)
(* The service is one Node process without database transactions: every    *)
(* `await` of a handler is a point where the other requests run, so a      *)
(* handler is a sequence of actions, one per database or provider call,    *)
(* and what it read earlier may be stale when it writes.                   *)
(*                                                                         *)
(* A payment transaction is named by the request that creates it: a        *)
(* request of kind "pay" or "instant" creates at most one.                 *)
(***************************************************************************)
EXTENDS Integers

CONSTANTS
    Orders,       \* identities of orders
    Requests,     \* HTTP requests
    Kind,         \* Kind[r]: the endpoint that request r calls
    PlacedUnits,  \* PlacedUnits[o]: tickets of o when o is placed at the start, else 0
    NoOrder       \* ord[r] of a request that works on no order yet

Kinds == {"pay", "cancel", "confirm", "refund", "refundHook",
          "instant", "checkout", "addToCart", "updateCart", "removeFromCart"}

ASSUME KindAssumption == Kind \in [Requests -> Kinds]
ASSUME UnitsAssumption == PlacedUnits \in [Orders -> Nat]
ASSUME NoOrderAssumption == NoOrder \notin Orders

VARIABLES
    orderStatus,  \* orderStatus[o]: Order.status, "none" while o does not exist
    units,        \* units[o]: sum of the quantities of the order's items
    txnStatus,    \* txnStatus[r]: PaymentTransaction.status, "none" if not stored
    txnCharge,    \* txnCharge[r]: is providerTransactionId stored?
    txnOrders,    \* txnOrders[r]: PaymentTransaction.orderIds
    lastTxn,      \* sequence number of the latest transaction of the day
    lastTicket,   \* sequence number of the latest ticket of the day
    issued,       \* issued[r][o]: tickets request r stored for order o
    active,       \* active[o]: tickets of o whose status is ACTIVE
    captured,     \* captured[r]: did the provider take the money for r?
    refunds,      \* refunds[r]: what the provider gave back of that charge
    pc, ord, tgt, num, left, todo   \* local state of the requests, see Frames

orderVars   == <<orderStatus, units>>
txnVars     == <<txnStatus, txnCharge, txnOrders, lastTxn>>
ticketVars  == <<lastTicket, issued, active>>
moneyVars   == <<captured, refunds>>
localVars   == <<ord, tgt, num, left, todo>>
frameVars   == <<pc, localVars>>
storeVars   == <<orderVars, txnVars, ticketVars, moneyVars, frameVars>>

OrderStatus == {"pending_payment", "paid", "confirmed", "cancelled",
                "refunded", "expired"}
PaymentStatus == {"processing", "completed", "failed", "refunded",
                  "partial_refund"}

\* Amounts are relative to the charge: a charge is Full, a refund takes a part.
Full == 2

(***************************************************************************)
(* Frames.  pc[r] names the call request r is about to make, or how it      *)
(* ended.  ord[r] is the order it works on, tgt[r] the transaction (its own *)
(* unless it refunds another's), num[r] the number it computed from the     *)
(* latest document it read, left[r] the tickets still to store or the       *)
(* amount to refund, todo[r] the orders still to visit.                     *)
(***************************************************************************)
\*
\* An answer "unrecorded" is an error too, of a handler whose catch block
\* could not save the failure.
Final == {"ok", "declined", "error", "unrecorded", "crashed"}
InFlight(r) == pc[r] \notin Final \cup {"idle"}
Goto(r, label) == pc' = [pc EXCEPT ![r] = label]

\* An error answer, or a return, that leaves every collection as it is.
Answer(r, how) ==
    /\ Goto(r, how)
    /\ UNCHANGED localVars

\* OrdersService.updateOrderStatus, and the save() of a document whose
\* status was assigned: the status is written whatever it is by now.
WriteStatus(o, status) == orderStatus' = [orderStatus EXCEPT ![o] = status]

(***************************************************************************)
(* TicketsService.generateTicketsForOrder, for order ord[r].  The order's   *)
(* items never change after its creation, so the quantity is read with the  *)
(* step before.  The second save() of a ticket stores its QR code only.     *)
(***************************************************************************)
\* generateTicketNumber: one more than the ticket created last today.
ReadTicketNumber(r) ==
    /\ pc[r] = "ticketNumber"
    /\ num' = [num EXCEPT ![r] = lastTicket + 1]
    /\ Goto(r, "ticketSave")
    /\ UNCHANGED <<orderVars, txnVars, ticketVars, moneyVars,
                   ord, tgt, left, todo>>

\* ticketNumber is unique: somebody stored this number since it was computed.
NumberTaken(r) == num[r] <= lastTicket

StoreTicket(r) ==
    /\ ~NumberTaken(r)
    /\ lastTicket' = num[r]
    /\ issued' = [issued EXCEPT ![r][ord[r]] = @ + 1]
    /\ active' = [active EXCEPT ![ord[r]] = @ + 1]
    /\ left' = [left EXCEPT ![r] = @ - 1]

\* Mutants: a loop that runs once too often, and one that stops too early.
OneUnitMore(r) == left[r] = 0
OneUnitLess(r) == left[r] <= 2

\* The loop over the units ends with this one.
LastUnit(r) == left[r] = 1

\* ticket.save() of one unit; `after` is where the caller goes on.
SaveTicket(r, after) ==
    /\ pc[r] = "ticketSave"
    /\ StoreTicket(r)
    /\ Goto(r, IF LastUnit(r) THEN after ELSE "ticketNumber")
    /\ UNCHANGED <<orderVars, txnVars, moneyVars, ord, tgt, num, todo>>

\* The duplicate key error leaves the loop: tickets stored before it remain.
TicketClash(r, handler) ==
    /\ pc[r] = "ticketSave"
    /\ NumberTaken(r)
    /\ Answer(r, handler)
    /\ UNCHANGED <<orderVars, txnVars, ticketVars, moneyVars>>

(***************************************************************************)
(* The process dies: every request in flight ends where it is.             *)
(***************************************************************************)
Crash ==
    /\ \E r \in Requests : InFlight(r)
    /\ pc' = [r \in Requests |-> IF InFlight(r) THEN "crashed" ELSE pc[r]]
    /\ UNCHANGED <<orderVars, txnVars, ticketVars, moneyVars, localVars>>

StoreInit ==
    /\ orderStatus = [o \in Orders |-> IF PlacedUnits[o] > 0
                                       THEN "pending_payment" ELSE "none"]
    /\ units = PlacedUnits
    /\ txnStatus = [r \in Requests |-> "none"]
    /\ txnCharge = [r \in Requests |-> FALSE]
    /\ txnOrders = [r \in Requests |-> {}]
    /\ lastTxn = 0
    /\ lastTicket = 0
    /\ issued = [r \in Requests |-> [o \in Orders |-> 0]]
    /\ active = [o \in Orders |-> 0]
    /\ captured = [r \in Requests |-> FALSE]
    /\ refunds = [r \in Requests |-> 0]
    /\ pc = [r \in Requests |-> "idle"]
    /\ ord = [r \in Requests |-> NoOrder]
    /\ tgt = [r \in Requests |-> r]
    /\ num = [r \in Requests |-> 0]
    /\ left = [r \in Requests |-> 0]
    /\ todo = [r \in Requests |-> {}]
=============================================================================
